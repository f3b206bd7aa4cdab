---------------------------- MODULE ClientThreads ----------------------------
(***************************************************************************)
(* The entry points of ConnClient that the Lua binding does not use:       *)
(* ConnectBlock, SwitchNetwork, ClearRelinkInterval and the destructor,    *)
(* called on the program's main thread while the net thread runs.          *)
(* SwitchNetwork runs InnerClose on the caller's thread, so InnerClose is  *)
(* cut into the reads and writes of the fields both threads use.           *)
(***************************************************************************)
EXTENDS Integers, SequencesExt, FiniteSetsExt

CONSTANTS
    Fds,            \* descriptors of the process, as numbers
    BlockLoops,     \* turns of ConnectBlock's loop (timeout_ms / 10)
    MaxSlots,       \* bound: size of relink_interval_ms_vec_
    MaxOthers       \* bound: descriptors the rest of the process opens

ASSUME ThreadsAssumption ==
    /\ Fds \subseteq Nat \ {0}
    /\ BlockLoops \in Nat /\ MaxSlots \in Nat /\ MaxOthers \in Nat

Threads == {"main", "net"}

VARIABLES
    pc,             \* where each thread is
    close,          \* its call of InnerClose: what is next in it, and its reason
    running, conn_state, tcp_sock, kcp, relink_count, slots,
    in_queue,
    loops,          \* loop_count of ConnectBlock
    calls,          \* how far the program is: nothing, connected, closed
    owner,          \* who has each descriptor
    others,         \* descriptors the rest of the process has opened so far
    freed,          \* kcp sessions that were released
    misuse,         \* history: a descriptor of another, or a released session, was released
    early,          \* history: the destructor came before the net thread ran
    switched        \* history: SwitchNetwork has begun to close

object == <<running, conn_state, tcp_sock, kcp, relink_count, slots>>
system == <<owner, others, freed, misuse>>
history == <<early, switched>>
vars == <<pc, close, object, in_queue, loops, calls, system, history>>

NoClose == [at |-> "none", reason |-> 0]

CLIENT_CONNECT_TIMEOUT == 4
CLIENT_CONNECT_ERROR == 5
CLIENT_CONNECT_SWITCH == 7

Init ==
    /\ pc = [main |-> "idle", net |-> "none"]
    /\ close = [t \in Threads |-> NoClose]
    /\ running = FALSE /\ conn_state = "init" /\ tcp_sock = 0 /\ kcp = 0
    /\ relink_count = 0 /\ slots = 0
    /\ in_queue = <<>> /\ loops = 0 /\ calls = 0
    /\ owner = [fd \in Fds |-> "free"] /\ others = 0 /\ freed = {} /\ misuse = FALSE
    /\ early = FALSE /\ switched = FALSE

At(t, from) == pc[t] = from /\ close[t] = NoClose
Goto(t, from, to) == At(t, from) /\ pc' = [pc EXCEPT ![t] = to]
Calls(t, reason) == close' = [close EXCEPT ![t] = [at |-> "begin", reason |-> reason]]

-----------------------------------------------------------------------------
(* InnerClose on thread t                                                  *)

Step(t, from, to) ==
    /\ close[t].at = from
    /\ close' = [close EXCEPT ![t].at = to]

Reported(t) ==
    IF relink_count >= slots THEN CLIENT_CONNECT_TIMEOUT ELSE close[t].reason

CloseBegins(t) ==
    /\ Step(t, "begin", IF Reported(t) < CLIENT_CONNECT_ERROR THEN "release" ELSE "close")
    /\ UNCHANGED <<pc, object, in_queue, loops, calls, system, history>>

\* KcpSession::Release: the test, the release, then the pointer.
CloseReleases(t) ==
    /\ Step(t, "release", IF kcp # 0 THEN "null" ELSE "stop")
    /\ IF kcp # 0
       THEN /\ freed' = freed \cup {kcp}
            /\ misuse' = (misuse \/ kcp \in freed)
       ELSE UNCHANGED <<freed, misuse>>
    /\ UNCHANGED <<pc, object, in_queue, loops, calls, owner, others, history>>

CloseNulls(t) ==
    /\ Step(t, "null", "stop")
    /\ kcp' = 0
    /\ UNCHANGED <<pc, running, conn_state, tcp_sock, relink_count, slots,
                   in_queue, loops, calls, system, history>>

CloseStopsLoop(t) ==
    /\ Step(t, "stop", "close")
    /\ running' = FALSE
    /\ UNCHANGED <<pc, conn_state, tcp_sock, kcp, relink_count, slots,
                   in_queue, loops, calls, system, history>>

\* closesocket_ex(tcp_sock_); what it closes is what has that number now.
CloseSocket(t) ==
    /\ Step(t, "close", IF tcp_sock # 0 THEN "forget" ELSE "state")
    /\ IF tcp_sock # 0
       THEN /\ owner' = [owner EXCEPT ![tcp_sock] = "free"]
            /\ misuse' = (misuse \/ owner[tcp_sock] = "other")
       ELSE UNCHANGED <<owner, misuse>>
    /\ UNCHANGED <<pc, object, in_queue, loops, calls, others, freed, history>>

\* Mutant: the field keeps the number.
KeepsSock == tcp_sock
ForgetsSock == 0

CloseForgets(t) ==
    /\ Step(t, "forget", "state")
    /\ tcp_sock' = ForgetsSock
    /\ UNCHANGED <<pc, running, conn_state, kcp, relink_count, slots,
                   in_queue, loops, calls, system, history>>

\* SetConnState and the streams.
CloseEnds(t) ==
    /\ close[t].at = "state"
    /\ close' = [close EXCEPT ![t] = NoClose]
    /\ conn_state' = "init"
    /\ UNCHANGED <<pc, running, tcp_sock, kcp, relink_count, slots,
                   in_queue, loops, calls, system, history>>

InnerClose(t) ==
    \/ CloseBegins(t) \/ CloseReleases(t) \/ CloseNulls(t) \/ CloseStopsLoop(t)
    \/ CloseSocket(t) \/ CloseForgets(t) \/ CloseEnds(t)

-----------------------------------------------------------------------------
(* The net thread                                                          *)

NetStart ==
    /\ Goto("net", "start", "loop")
    /\ running' = TRUE /\ relink_count' = 0
    /\ UNCHANGED <<close, conn_state, tcp_sock, kcp, slots, in_queue, loops, calls,
                   system, history>>

\* Mutant: the loop does not look.
LoopsOn == TRUE
LoopGoesOn == running

NetEnds ==
    /\ Goto("net", "loop", "done")
    /\ ~ LoopGoesOn
    /\ UNCHANGED <<close, object, in_queue, loops, calls, system, history>>

\* One pass: what select and the timers find, then the requests, then the relink.
NetIdle ==
    /\ Goto("net", "loop", "drain")
    /\ LoopGoesOn
    /\ UNCHANGED <<close, object, in_queue, loops, calls, system, history>>

\* A frame of the server: the kcp session and the login.
NetLogin ==
    /\ Goto("net", "loop", "drain")
    /\ LoopGoesOn /\ tcp_sock # 0 /\ conn_state = "connecting"
    /\ conn_state' = "logic" /\ relink_count' = 0
    /\ kcp' = IF kcp # 0 THEN kcp ELSE Cardinality(freed) + 1
    /\ UNCHANGED <<close, running, tcp_sock, slots, in_queue, loops, calls, system, history>>

\* An error of the socket, or the login takes too long.
NetError ==
    /\ Goto("net", "loop", "drain")
    /\ LoopGoesOn /\ tcp_sock # 0
    /\ Calls("net", CLIENT_CONNECT_ERROR)
    /\ UNCHANGED <<object, in_queue, loops, calls, system, history>>

Free == {fd \in Fds : owner[fd] = "free"}

\* The kernel gives the lowest number that is free.
InnerConnect ==
    \/ /\ Free # {}
       /\ tcp_sock' = Min(Free)
       /\ owner' = [owner EXCEPT ![Min(Free)] = "client"]
       /\ conn_state' = "connecting"
       /\ UNCHANGED close
    \/ /\ tcp_sock' = 0
       /\ Calls("net", CLIENT_CONNECT_ERROR)
       /\ UNCHANGED <<owner, conn_state>>

RunConnect ==
    /\ At("net", "drain")
    /\ in_queue # <<>> /\ Head(in_queue) = "connect"
    /\ in_queue' = Tail(in_queue)
    /\ InnerConnect
    /\ UNCHANGED <<pc, running, kcp, relink_count, slots, loops, calls,
                   others, freed, misuse, history>>

RunClose ==
    /\ At("net", "drain")
    /\ in_queue # <<>> /\ Head(in_queue) = "close"
    /\ in_queue' = Tail(in_queue)
    /\ Calls("net", -1)
    /\ UNCHANGED <<pc, object, loops, calls, system, history>>

NetDrained ==
    /\ Goto("net", "drain", "relink")
    /\ in_queue = <<>>
    /\ UNCHANGED <<close, object, in_queue, loops, calls, system, history>>

\* CheckRelink; its interval may not have passed.
NetNoRelink ==
    /\ Goto("net", "relink", "loop")
    /\ UNCHANGED <<close, object, in_queue, loops, calls, system, history>>

NetRelink ==
    /\ Goto("net", "relink", "loop")
    /\ running /\ relink_count < slots /\ conn_state = "init"
    /\ relink_count' = relink_count + 1
    /\ InnerConnect
    /\ UNCHANGED <<running, kcp, slots, in_queue, loops, calls,
                   others, freed, misuse, history>>

Net ==
    \/ NetStart \/ NetEnds \/ NetIdle \/ NetLogin \/ NetError
    \/ RunConnect \/ RunClose \/ NetDrained \/ NetNoRelink \/ NetRelink
    \/ InnerClose("net")

-----------------------------------------------------------------------------
(* The main thread                                                         *)

\* Connect, and the beginning of ConnectBlock: enqueue, StartNetThreadLoop.
Enqueues(to) ==
    /\ At("main", "idle") /\ calls = 0
    /\ calls' = 1
    /\ in_queue' = Append(in_queue, "connect")
    /\ pc' = [pc EXCEPT !.main = to, !.net = IF @ = "none" THEN "start" ELSE @]

Connect ==
    /\ Enqueues("idle")
    /\ UNCHANGED <<close, object, loops, system, history>>

ConnectBlock ==
    /\ Enqueues("block")
    /\ loops' = BlockLoops
    /\ UNCHANGED <<close, object, system, history>>

\* One turn: Update, then the state, which the net thread may be changing.
BlockTurn ==
    /\ At("main", "block") /\ loops > 0
    /\ loops' = loops - 1
    /\ pc' = [pc EXCEPT !.main = IF conn_state = "logic" THEN "idle" ELSE @]
    /\ UNCHANGED <<close, object, in_queue, calls, system, history>>

BlockEnds ==
    /\ Goto("main", "block", "idle")
    /\ loops = 0
    /\ UNCHANGED <<close, object, in_queue, loops, calls, system, history>>

Close ==
    /\ At("main", "idle") /\ calls < 2
    /\ calls' = 2
    /\ in_queue' = Append(in_queue, "close")
    /\ UNCHANGED <<pc, close, object, loops, system, history>>

AddRelinkInterval ==
    /\ At("main", "idle") /\ slots < MaxSlots
    /\ slots' = Max({slots, 1}) + 1
    /\ UNCHANGED <<pc, close, running, conn_state, tcp_sock, kcp, relink_count,
                   in_queue, loops, calls, system, history>>

ClearRelinkInterval ==
    /\ At("main", "idle") /\ slots > 0
    /\ slots' = 0
    /\ UNCHANGED <<pc, close, running, conn_state, tcp_sock, kcp, relink_count,
                   in_queue, loops, calls, system, history>>

SwitchNetwork ==
    /\ At("main", "idle")
    /\ conn_state = "logic" /\ relink_count = 0
    /\ Calls("main", CLIENT_CONNECT_SWITCH)
    /\ switched' = TRUE
    /\ UNCHANGED <<pc, object, in_queue, loops, calls, system, early>>

\* The destructor: clear running_, wake the net thread, join it, close.
DeleteBegins ==
    /\ Goto("main", "idle", "join")
    /\ running' = FALSE
    /\ early' = (pc["net"] = "start")
    /\ UNCHANGED <<close, conn_state, tcp_sock, kcp, relink_count, slots,
                   in_queue, loops, calls, system, switched>>

\* Mutant: the destructor does not wait for the net thread.
JoinedAtOnce == pc["net"] # "start"
Joined == pc["net"] \in {"none", "done"}

DeleteJoins ==
    /\ Goto("main", "join", "deleted")
    /\ Joined
    /\ Calls("main", -1)
    /\ UNCHANGED <<object, in_queue, loops, calls, system, history>>

Main ==
    \/ Connect \/ ConnectBlock \/ BlockTurn \/ BlockEnds \/ Close
    \/ AddRelinkInterval \/ ClearRelinkInterval \/ SwitchNetwork
    \/ DeleteBegins \/ DeleteJoins
    \/ InnerClose("main")

\* The rest of the process opens a descriptor.
OtherOpens ==
    /\ others < MaxOthers /\ Free # {}
    /\ others' = others + 1
    /\ owner' = [owner EXCEPT ![Min(Free)] = "other"]
    /\ UNCHANGED <<pc, close, object, in_queue, loops, calls, freed, misuse, history>>

Next == Net \/ Main \/ OtherOpens

\* Both threads run.
Spec == Init /\ [][Next]_vars /\ WF_vars(Net) /\ WF_vars(BlockTurn \/ BlockEnds)
             /\ WF_vars(DeleteJoins \/ InnerClose("main"))
-----------------------------------------------------------------------------
(* Properties                                                              *)

\* The client never closes a descriptor that is not its own, nor releases a
\* session twice: InnerClose is only one thread's at a time (closesocket_ex
\* and tcp_sock_ = -1 are two steps) as long as the program does not call
\* SwitchNetwork, which makes it two threads'.
NoMisuse == misuse => switched

\* With SwitchNetwork too: its test of conn_state_ is there to keep the two
\* threads from closing at once (conn_client.cpp:1050).
SwitchIsSafe == ~ misuse

\* A deleted client leaves nothing behind: the destructor's InnerClose comes
\* after the net thread has stopped opening sockets.  (A SwitchNetwork that
\* races the net thread can forget a socket that was just opened.)
DeletedClean ==
    pc["main"] = "deleted" /\ close["main"] = NoClose /\ ~ switched =>
        /\ tcp_sock = 0 /\ kcp = 0
        /\ \A fd \in Fds : owner[fd] # "client"

\* The destructor ends, whatever the net thread is doing when it comes, except
\* when that thread has yet to set running_: then join waits for ever.
DestructorEnds == pc["main"] = "join" /\ ~ early ~> pc["main"] = "deleted"
=============================================================================
