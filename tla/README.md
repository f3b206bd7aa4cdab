# TLA+ models of defold-connclient

defold-connclient is a native extension for the Defold engine. A Lua script
creates a client, gives it relink intervals and callbacks, and connects it to a
game server. The client keeps a TCP connection for control and a UDP socket, runs
the KCP reliable transport over one of the two, reconnects by itself when the
connection breaks, and hands messages and events to the script once a frame.

This directory holds TLA+ models of that code, the TLC configurations that check
them on small instances, and theorems checked by TLAPS.

    tlc -workers 2 -config MCConnSafety.cfg MCConnClient.tla
    tlapm ConnClient_proofs.tla        # and the other modules named *_proofs

`PROJECT.json` lists the runs, the hazards of the code with the properties that
cover them, what each definition stands for, and the theorems.

Line numbers without a file name refer to `src/connclient/src/conn_client.cpp`.

## The system

| part | state | operations | interacts with |
| --- | --- | --- | --- |
| `ConnClientPrivate` (conn_client.cpp) | connection state and its time stamp, two sockets, write watch, read and write stream, relink vector and count, connect timeout, `running_`, request queue, callback queue | `Connect`, `Close`, `SendMsg`, `AddRelinkInterval`, `Update` on the main thread; `NetThreadLoop` with its handlers on the net thread; `ConnectBlock`, `SwitchNetwork`, `ClearRelinkInterval`, the destructor, which the binding does not call | requests go to the net thread in `in_queue_`, callbacks come back in `out_queue_` |
| `KcpSession` (kcp_session.cpp) | the kcp object or null, `next_time_ms_`, `update_now_` | `CreateKCP`, `Input`, `Send`, `Recv`, `Tick`, `Flush`, `Release` | called by the net thread; kcp's output calls back into the client, which may close the connection under it |
| ikcp (ikcp.cpp, a variant of KCP) | send and receive queues and buffers, windows, acknowledgements, probe and retransmission timers | `send_ex`, `recv`, `input`, `update`, `check`, `flush` | output callback |
| `Stream` (stream.cpp) | buffer, read position, size, capacity | `EnsureWritable`, `AddSize`, `Append`, `Skip`, `Reset` | two of them in the client, between sockets and frames |
| framing (`ReadStream`, conn_protocol.h) | none | cut the stream into frames, dispatch on the command | `Stream`, every handler |
| `TimeExpire` | last time, interval | `TryExpire`, `Reset` | paces the pings |
| Lua binding (myextension.cpp) | `g_connclients` | create, connect, close, send, add_relink_interval, setters, update hook | callbacks run inside the hook and may call the binding again |
| `concurrentqueue.h` (vendored) | producers with counters, blocks and a block index; a list of free blocks | `enqueue`, `try_dequeue` | `in_queue_` and `out_queue_`; both threads of a client |
| static packet buffers (:526, :661, :886) | one buffer for each function | filled and read in one call | the net threads of all clients |
| socket, time, file, system wrappers | none of interest | | |

What is hard about it:

* Two threads with unlocked shared fields (`conn_state_`, `relink_count_`, the
  relink vector), and requests that arrive while the net thread is in any phase
  of its loop.
* Nearly every handler can end in `InnerClose`, also in the middle of another
  handler, of a flush, or of the loop over frames; what runs after it works on a
  closed object.
* Retry: errors, timeouts, server goodbyes and logins change the count of
  attempts that decides whether the client goes on, and the decision is taken in
  one place (`InnerClose`) and acted on in another (`CheckRelink`).
* Callbacks are queued on one thread and run later on another, and read fields
  at that later time.
* The transport: loss, duplication, reordering, 16-bit and 32-bit sequence
  arithmetic, windows, probes.

The full list, each at its line and with the property that covers it or the
reason why none does, is under `hazards` in PROJECT.json.

Properties that make each part correct:

* client: state, sockets and buffers agree; a running client is connected or has
  an attempt ahead; a client that gives up leaves nothing open and says nothing
  more; a close always ends it; a connection being set up ends in bounded time;
  it does not retry for ever; it can be deleted at any time;
* streams and framing: the bytes read are the bytes written, in order, and a
  frame is taken once and whole whatever the cuts;
* kcp: every message once and in order over a channel that loses, duplicates and
  reorders, and progress when the channel is fair; sequence numbers rebuilt
  correctly inside the window; a session that needs an update gets one; no timer
  is missed; a released session is not used;
* registry: a client in the registry is updated, at most once a frame, whatever
  callbacks do;
* queue: nothing is taken twice, out of order or from a block in other hands, and
  a consumer that is told "empty" has everything.

## Modules

| module | what it is | for TLC |
| --- | --- | --- |
| `ConnClient` | the client: net thread, main thread, both queues | `MCConnClient` |
| `ConnClient_proofs` | its inductive invariant and theorems | |
| `SeqNum` | 32-bit numbers of which 16 bits travel (`get_id`, `_itimediff`), for any widths; used by `Kcp` and `KcpTimer` | |
| `Kcp` | two control blocks and the network between them | `MCKcp` |
| `Kcp_proofs` | a lemma for each function of ikcp.cpp, the invariants of one end and of the two, the theorems of `SeqNum` and `Kcp` | |
| `ReliableChannel` | what the two ends promise; `Kcp` implements it | |
| `KcpTimer` | the clock of one end: `Tick`, `update`, `check`, the timers in `flush` | `MCKcpTimer` |
| `KcpTimer_proofs` | its inductive invariant and theorems, while the clock does not wrap | |
| `KcpReentry` | the calls under one flush: output, `InnerClose`, flush, release | `MCKcpReentry`, `MCClosing` |
| `StreamOps` | the operations of `Stream` as operators | |
| `Stream` | one stream under any calls | `MCContainers` |
| `ByteQueue` | what a stream promises; `Stream` implements it | |
| `Stream_proofs` | its invariant and the refinement, proved | |
| `Framing` | the TCP side of the client as bytes, over two streams | `MCFraming` |
| `Framing_proofs` | its inductive invariant and theorems, over `Stream_proofs` | |
| `Extension` | the binding: vector of clients, update hook, script | `MCExtension` |
| `ClientThreads` | `ConnectBlock`, `SwitchNetwork`, `ClearRelinkInterval`, the destructor against the net thread, at the grain of shared fields | `MCClientThreads`, `MCClosing` |
| `Closing_proofs` | closes that are not alone: the invariants of `ClientThreads`, of `KcpReentry` (both also of `MCClosing`) and of `Extension`, and their theorems | |
| `SharedBuffers` | the static packet buffers under several net threads | `MCSharedBuffers` |
| `ClientQueue` | the lock-free queue behind `in_queue_` and `out_queue_` | `MCContainers` |
| `Queue_proofs` | the inductive invariant of `ClientQueue` and its theorems | |
| `FreeList` | its list of free blocks | `MCContainers` |
| `Containers_proofs` | the invariant of `FreeList` and its theorems; they, the refinement of `Stream_proofs` and the theorems of `Queue_proofs` hold of `MCContainers` | |

How they fit together: `ConnClient` is the whole of one client, with a frame as a
unit, kcp as null or live, both queues as FIFOs, and each handler as a step. The
others open what `ConnClient` takes as given. `Framing` opens frames into bytes
and runs on the streams of `StreamOps`; `Kcp`, `KcpTimer` and `KcpReentry` open
the session: what it carries, when it acts, and what happens when an action fails
below it; `ClientThreads` opens `InnerClose` for the callers on the other thread;
`ClientQueue` and `FreeList` open the queues; `Extension` is above it, several
clients and the script that drives them; `SharedBuffers` is beside it.
`ReliableChannel` and `ByteQueue` are abstract specifications, each shown to be
implemented.

### How ConnClient corresponds to the code

The fields the net thread writes are one record `m`, named after the pointer to
`ConnClientPrivate`. A C++ method is an operator with the method's name from a
record to the *set* of records it can leave: the choice is the result of the
system calls it makes. `InnerClose`, which almost everything calls, is written
once. A step of a thread is an action that picks one element of such a set.

| code | model |
| --- | --- |
| `conn_state_`, `tcp_sock_`, `udp_sock_`, `running_`, `relink_count_`, `enable_udp_`, `is_first_connect_`, `tcp_writable_`, `connect_timeout_ms_` | fields of `m` of the same name |
| `conn_state_ts_` | `m.age`, the time since then |
| `write_stream_` | `m.write_pending`: it holds bytes |
| `read_stream_` | `m.frames` complete frames, then perhaps the beginning of one (`m.partial`) |
| `kcp_session_` | `m.kcp`, null or live |
| `out_queue_` | `m.out`, a sequence of callbacks with what was bound when they were queued |
| `in_queue_` | `in_queue` |
| `relink_interval_ms_vec_` | `relink_vec` |
| `thread_` and the place in `NetThreadLoop` | `pc` |
| membership in `g_connclients` | `~ closed` |
| being inside `Update` | `updating` |

One iteration of `NetThreadLoop` (:259-329) is a walk of `pc`: `loop` (select
and the TCP socket), `parse` (one step per frame of `ReadStream`), `udp`,
`drain` (one step per request), `tick`, `tcp_ping`, `udp_ping`, `timeout`,
`relink`. Between any two of these the main thread may take any number of steps,
since the code holds no lock. `ConnectSuccess` and `ReConnectSuccess` have a step
of their own after `SetConnState`, because from that moment `SendMsg` on the
other thread is accepted. A request is one step: nothing the main thread does can
be seen in the middle of `InnerConnect` or `InnerClose` except `conn_state_`,
which they write last or whose intermediate value `SendMsg` treats alike. The
vector can also be read twice in one step (`CheckTimeout`, then `InnerClose`);
the model reads one value, and `AddRelinkInterval` between the reads could at
most turn a final timeout into one that continues.

Ghosts: `m.lost` counts descriptors that were open when their field was
overwritten; a callback's `cause` is the argument of the `InnerClose` that queued
it, before line 446 replaced it.

What is abstracted:

* A frame is its kind; a reply of the right length with any content is
  `ReadIgnored`, one of the wrong length is `ReadMalformed`. Partial frames matter
  as bytes that must not survive a close and as the state in which the stream can
  be full.
* Time advances by 0 or 1 unit where the loop reads the clock (:322). An age
  saturates at `AgeCap`, which is above every interval and timeout of the
  instances.
* Ping timers expire at any time.
* A flush of kcp, in `Tick`, `Send` or `InnerClose`, sends any number of
  segments; what the client can see of it is that none failed, that the last left
  bytes in the write stream, or how many closed the connection (`FailedSends`). A
  received segment completes at most one message per step. The flush is one step:
  the re-entrancy of `InnerClose` -> `Flush` -> output -> `InnerClose` is not in
  this model beyond its effect on the client's fields.
* All callbacks are set, as in the example script. Logging callbacks are left
  out: they carry no state.

### How Kcp corresponds to the code

`kcp[e]` is the control block of end `e`, with the fields of `ikcpcb` by their
names; both ends run the same operators. `Send` is `pvp_ikcp_send_ex` (fragments
counted down, a message of more fragments than `FragLimit` refused), `Arrive` is
`KcpSession::Input` of the packet at some place of the network (`pvp_ikcp_input`
walks its segments: `parse_una`, `shrink_buf`, `parse_ack`, `parse_data`,
`parse_fastack`, probes, then the congestion window), `Receive` is
`pvp_ikcp_recv`, `Update` is a flush: acknowledgements, probes, new segments while
the least of the three windows has room, resends, duplicates. The client drains
its receive queue in the call that takes a packet in (`InputToKcp`), so an end in
`Eager` does that in `Arrive`; the other end reads when it likes.

`net[e]` is the sequence of packets on their way to `e`. A step may take any
packet (overtaking), leave a copy (duplication) or remove one (loss), in all
`MaxFaults` times. Timers are a choice: a flush finds any subset of the segments
sent before due, and any subset to be sent once more. `KcpTimer` says when these
choices are really made.

### How KcpTimer corresponds to the code

One end, whose packets carry nothing but their number. `now` is what `GetTimeMs`
returns: the low word of the wall clock in milliseconds, which wraps and which may
be set back once by at most `MaxBack`. A pass of the net thread's loop takes a
number of milliseconds out of `Steps`, and then `Tick` compares the clock with
`next` exactly as kcp_session.cpp:176 does. `pvp_ikcp_update` moves `ts_flush`,
`check` takes the minimum over the segments. What `flush` does with a segment sent
before is `Resend`, in the order of the code: a timeout backs `rto` off and sets
`resendts`; else, if acknowledgements have overtaken it `FastResend` times
(ikcp.cpp:1168-1179), it is sent again with a new `resendts` and the `rto` it has; else,
if a copy is due and the `DupLen` places of `dup_segs` (:1183) are not taken, one goes
out. Each of the three moves `ts`, from which the wait for the next copy counts. So does
`send_ex` with the segments it puts behind new ones (`SentAlong`, :1389-1416): the last
ones of `snd_buf`, as many as `dupsendcount` allows, or fewer, since the packet may be
full. `Ask` is the probe: its wait grows by half each time, up to the limit.

`Input` tells the window, may acknowledge one segment, whose round-trip time is counted
from its first transmission, and may overtake those before `maxack`; a packet with more
acknowledgements is several `Input`s in a row. How many segments `send_ex` and `flush`
move is a choice up to `SndWnd` in flight: it stands for what waits in `snd_queue` and
for the congestion window, which are in `Kcp`. Duplicates are always on, as they are
without `dup_dynamic` (:1451-1456); how `dup_dynamic` turns them off and on is not
modelled.

### How KcpReentry corresponds to the code

The state is the call stack of the net thread. A frame is a call of `InnerClose`,
with the line it has reached and its reason, or of `pvp_ikcp_flush`, with how many
acknowledgements, due segments and duplicates it has still to put out and how full
its packet is. `output` succeeds, or fails and pushes a frame of `InnerClose`,
which pushes one of `flush`, and so on. `Release` frees the control block: walking
a list of it is a crash, its plain fields may still read as they were.

### How Framing corresponds to the code

A byte says which frame of which connection it is from, at which place, and what
the head of that frame announces. The server sends frames, the kernel cuts them
anywhere, `Receive` is `OnTcpRead` (`EnsureWritable`, `recv`, `AddSize`), and
`ReadFrame`, `ReadEnd` are the loop of `ReadStream`, one frame a step. `SendTCPBuf`
and `OnTcpWrite` are the way out, with partial writes. A close resets both streams
and may come between any two steps; what was under way to the old connection is
gone, what is in the streams is gone only because the code resets them. What
`HandledWhole` and `SentWhole` compare is kept by ghosts.

### How Extension corresponds to the code

`g_connclients` is the vector, `i` the index of the hook's loop (myextension.cpp:
277-283), `cur` the client whose `Update` runs and `in_callback` says that the
script runs below it. `create` (push_back), `close` (erase), `connect` and the
setters of callbacks may be called by the script at any time, in particular from
inside a callback. The net thread of a client, from `connect` on, queues
callbacks; an event without a callback is not queued.

### How ClientThreads corresponds to the code

A step is a read or a write of a field that both threads use (`running_`,
`conn_state_`, `tcp_sock_`, the session's pointer, `relink_count_`, the vector), so
two calls of `InnerClose` may be interleaved line by line. A descriptor is a
number; the system gives the lowest free one, so that a number closed by one
thread may be the descriptor of another part of the process (`owner`) when a second
thread closes it again. The destructor is `DeleteBegins` (`running_ = false`),
`DeleteJoins`, then `InnerClose`.

### How ClientQueue and FreeList correspond to the code

Each thread that enqueues has an implicit producer with its counters, blocks and
block index; each step is one access to shared memory (an atomic operation, or a
write nobody else can see before the next one). `enqueue` takes a block from the
pool, from the free list or from the heap, enters it into the index, which doubles
when it is full, builds the element and publishes the tail. `try_dequeue` scans
the producers, takes the fullest, and does the optimistic and overcommit dance of
:2530-2600; the consumer that empties a block returns it. Memory is sequentially
consistent.

`ClientQueue` takes the free list as a set. `FreeList` is that list with its
reference counts and the flag SHOULD_BE_ON_FREELIST, one atomic operation a step.

### How the rest corresponds to the code

`StreamOps` has each method of `Stream` as an operator from a record of its fields
to a record; memory that was never written is `Junk`, so that a byte shown without
having been written is visible. `SharedBuffers` has one buffer, and for each client
a net thread that receives, tests the flow and hands the packet on.

## The runs

Deadlock is never checked: a client that was closed, a session whose users are
done, a queue whose producers have stopped have no step, and that is how they end.

Every bound is a constant that stops the environment (the script, the network,
the clock), never a handler in the middle.

| run | module | instance | why it is enough |
| --- | --- | --- | --- |
| `safety` | `MCConnClient` | 2 connects, 2 relink intervals of 0 and 1, a timeout of 3 over a cap of 1, both transports, 1 frame per recv, 1 failing segment per flush, 2 requests and 2 callbacks waiting; 4.5 million states | the vector is empty, partly used, used up, and grows while in use; attempts fail in each of their phases; each kind of frame meets each state; the second connect comes before, during and after the first, and behind a send or a close |
| `live` | `MCConnClient` | 1 connect, both transports, 1 request, 1 callback; 0.2 million | a complete state graph with every phase of a connection and of its relinks |
| `kcp` | `MCKcp` | messages of 1 and 3 units in packets of 2 to the client; windows of 2; congestion window, fast resend and duplicates on; 2 packets on their way, 1 fault; 0.3 million | fragments, more fragments than congestion lets out, an acknowledgement overtaken by data, a duplicate of what was acknowledged, loss of data and of acknowledgement |
| `kcp_live` | `MCKcp` | 13 messages from the client to a peer that reads late; receive window 2, numbers of 12 with 6 on the wire, 1 fault; 0.3 million | the short number wraps twice and the long one once, the window closes and reopens, a probe or its answer is lost |
| `timer` | `MCKcpTimer` | 10 units of a word of 192, which the times cannot fill, interval 2, passes of 1 or 3 units, the clock set back by up to 2, 2 segments in a window of 2, fast resend after 1, window of the peer open or closed; 2.8 million | passes that skip an interval, a timeout that backs off, a segment overtaken by the next, a duplicate and a timeout due together, a segment sent along with a new one, a probe asked twice |
| `framing` | `MCFraming` | frames of 2, 3 and 6 bytes, of 3 kinds, 2 on each of 2 connections; recv of 3, streams of at most 7 in blocks of 2; 0.7 million | every cut of every frame, two frames in one recv, a stream that grows, shrinks and is full, bytes of the first connection in flight at the second |
| `extension` | `MCExtension` | 3 clients, 1 callback each; 0.1 million | closes before, at and behind the index, two closes in one walk, a client created in a callback |
| `closing` | `MCClosing` | 3 descriptors, 2 of them taken by others, 2 turns of ConnectBlock, 3 slots; packets of 2, up to 2 acknowledgements, 3 due segments and 2 duplicates; 0.5 million | a number is given out again to another owner; a flush fails in its acknowledgements, in its segments, in its duplicates, and again below that |
| `containers` | `MCContainers` | a stream of 5 in blocks of 2; the queue with 2 producers of 3 elements and with 2 consumers of 4, blocks of 2, an index of 1; the free list with 3 threads and 2 nodes; 1.2 million | the stream moves, grows, shrinks and refuses; a block is reused while another is in use, the index grows; a node is taken, put back and taken again inside another thread's exchange |

`closing` and `containers` check several modules in one run: a variable `part`
picks one of them, and the others keep still. They share no state; it is a way to
check them, not a composition.

What each property says, and what would break it:

* `safety`. `TypeOK`. `SocketsMatchState`: in `CS_INIT` exactly when neither socket
  is open, and then both streams are empty and the write watch is armed; violated
  by forgetting a line of `InnerClose`, or by a path that changes the state without
  it. `NoLimbo`: a running client in `CS_INIT` has a connect queued or a slot of the
  relink vector left; it relates the test at :445 to the one at :861.
  `StopIsClean`: when the loop has given up, after one connect, nothing is open, kcp
  is released, no descriptor was lost. `NoLostSocket`: no relink overwrites an open
  descriptor. `LastWords` is about the order in which callbacks are queued: behind
  the first one that says it is over come only more goodbyes and, last, one relink or
  connection. Those are queued with `running_` already false, by the handler that gave
  up: the second goodbye of `OnTcpRead` (:643-653), the relink whose attempt failed
  (:865-872), the success whose ping failed (:602-609). What it excludes is a message
  among them and anything from a later handler of the last iteration (:318-327), in
  which a relink would connect again and a timeout would say goodbye once more.
* `live`. `CloseStops`: after `close` the net thread ends. `LoginOrStop`: a running
  client logs in or gives up; a client that counted a TCP connection as success
  would retry for ever. `HandshakeEnds`: `CS_CONNECTING` and `CS_CONNECTED` do not
  last. `WritesWakeUp`: bytes in the write stream do not wait with nobody watching
  the socket; line 288 can produce that state, the next ping repairs it.
* `kcp`. `NothingForgotten`: a number that was used and is not yet passed by the
  receiver is in the sender's buffer or in the receiver's; an acknowledgement for a
  segment that was thrown away would break it. `WindowsHold`: in flight, in the
  receive queue, in the reorder buffer and in a packet there is never more than
  allowed. `ReliableDelivery`: the two ends implement `ReliableChannel`, safety and
  liveness.
* `kcp_live`. `DecodesRight`: whatever is still on its way is rebuilt to the number
  that was sent. `NoWedge`: the receive queue is never full of one incomplete
  message. `WindowReopens`: a closed window opens again though probe or answer may
  be lost. `FallsSilent`: in the end everything is acknowledged and nothing is sent.
* `timer`. `OnSchedule`: after `Tick` no flush is overdue. `ResentInTime`,
  `DupInTime`, `ProbeInTime`: timeouts, duplicates and window probes are late by
  less than an interval, on the clock the session reads, although each of four ways to
  send a segment moves a time that another one waits for.
* `framing`. `HandledWhole`: what is handled are the frames of this connection,
  whole and in order. `SentWhole`: the same for what the kernel takes.
  `FramesHandled`: a frame that was sent is handled or the connection ends.
* `extension`. `UpdatedOnce`: no client is updated twice in a frame, though the
  vector changes under the index. `MissedAtMostClosed`: `erase` shifts the clients
  behind, and the walk may miss one for each close, not more.
  `CallbacksDelivered`: one that was missed gets its callbacks later.
* `closing`. `NoMisuse`: until `SwitchNetwork` closes, no descriptor of another owner
  is closed and no session released twice. `DeletedClean`: a deleted client leaves
  no descriptor and no session behind. `DestructorEnds`: `join` returns, except when
  the net thread has not begun (below). `ReleasedOnce`: a session is released once,
  however many closes are on the stack. `RelinkKeepsSession`: while attempts are
  left, a failed send below a flush does not release it. `DepthBounded`: the nesting
  of closes and flushes ends.
* `containers`. `IsByteQueue`: `Stream` implements `ByteQueue`. `InOrder`: a
  consumer gets the elements of a producer in order. `FalseMeansEmpty`: the only
  consumer is told "empty" only when all that was enqueued before its call is
  taken, which the loops of `Update` and `NetThreadLoop` rely on. `OnceOnly`: nothing
  is taken twice, no slot read unbuilt. `BlocksReturn`: a block goes back when its
  last element is gone, not before and not later. `OneOwner`, `NoneLost`: a free
  block is handed to one thread, and none disappears.

### Where the code does not do what is said of it

Three listed runs end in a counterexample:

* `relink_count`: the example's relink callback takes a count
  (example.script:23-25), but `relink_count_` is read when the callback runs; after
  a login it is 0 and no argument is passed at all (:588, :870).
* `reentry_live`: `ikcp_output` asserts that it has a control block
  (ikcp.cpp:212-213). A flush whose output fails closes the connection; a close that
  began as an error becomes final when the relink vector is used up (:445), and
  then releases the session while the first flush is on the stack, which goes on
  with it.
* `shared`: `OnUdpRead` rejects packets of another flow (:672-673), in a buffer that
  is static: the net thread of a second client may receive into it between the test
  and the use.

Seven more configurations, not in the list of runs, reproduce what the hazards
note; each ends in a counterexample:

| command | what it shows |
| --- | --- |
| `tlc -config MCConnReason.cfg MCConnClient.tla` | reason 4 is "connect timed out" (conn_protocol.h:55), but a client without relink intervals, or with all of them used, reports 4 for every close, also for an error after no time at all (:446) |
| `tlc -config MCConnGoodbye.cfg MCConnClient.tla` | reason 3 is a server's reason to disconnect (conn_protocol.h:54), but :751-768 skips it and the client stays connected |
| `tlc -config MCKcpWedge.cfg MCKcp.tla` | `send_ex` accepts a message of more fragments than the receive window (it limits them to 10000, ikcp.cpp:570); the receiver can then never complete it |
| `tlc -config MCTimerWrap.cfg MCKcpTimer.tla` | ikcp.h:377-379 asks for an update at the time `check` returned; kcp_session.cpp:176 compares the two times as plain numbers, so when the clock wraps between them `Tick` falls silent until the clock comes round |
| `tlc -config MCTimerBack.cfg MCKcpTimer.tla` | the clock is set back by more than a timeout, but not so far that `update` takes it for a jump (ikcp.cpp:1492): the next flush stays where it was, and a segment sent from then on waits longer than an interval for its retransmission |
| `tlc -config MCTimerCopies.cfg MCKcpTimer.tla` | a flush copies at most `IKCP_DUPSEND_LEN` = 32 segments (ikcp.cpp:1183), in the order of `snd_buf`; the server may set a larger window, and then copies of later segments wait for more than a flush |
| `tlc -config MCThreadsSwitch.cfg MCClientThreads.tla` | `SwitchNetwork` tests `conn_state_` before it closes (:1050), and the net thread may close at the same time: a descriptor is closed twice, after another part of the process was given its number |

The properties state what holds besides these:

* `StopIsClean` and `NoLostSocket` are about one connect. A second connect while a
  connection is open leaks both descriptors (:361, :367), and one served in the last
  iteration leaves sockets in a loop that ends. No document says what a second
  connect should do.
* `LoginOrStop` leaves out a live session over TCP. There kcp goes on flushing while
  the client is disconnected, each flush fails on the closed socket, calls
  `InnerClose` again and so restarts the relink clock (:943, :462, :864). In the code
  the retransmission timeout grows and leaves gaps that are longer than the
  intervals; `ConnClient` has no kcp timers.
* `DestructorEnds` leaves out the destructor that comes before the net thread has
  run: that thread then sets `running_` again (:212, :259) and `join` waits for ever.
* `DepthBounded` is checked with no more acknowledgements than one packet holds
  (26 at the client's mtu of 500). `ackcount` is zeroed only after all of them were
  put out (ikcp.cpp:1037-1051): with two packets of them and a socket that fails
  each time, close and flush call each other without end.
* `NoWedge` is about messages that fit the window (`MessagesFit` of `NeverWedged`),
  `OnSchedule` about a clock that does not wrap during the run, `DupInTime` about a
  window of no more segments than a flush copies.
* `FallsSilent` is checked with duplicates off; that a segment is copied no more than
  `dupsendcount` times is a guard of `Kcp` and `KcpTimer`. `HandledWhole` and
  `FramesHandled` are about frames with a length above zero.
* `ResentInTime`, `DupInTime` and `ProbeInTime` are on the wall clock. When it is set
  back, the real wait grows by as much; that is how the code is.

### Fairness

`ConnClient`:

* `WF_vars(NetThreadLoop)`: the operating system runs the net thread; `select`
  waits at most 10 ms.
* `SF_vars(KcpTick(1))`: the clock does not stand still at the line that reads
  it. Strong, because the loop leaves and re-enters that line.
* `SF_vars(TcpPing(TRUE))`: the 2 s between TCP pings pass again and again.
* `WF_vars(Update)`: the engine calls the update hook every frame.

None for the script, none for the network: a peer may never answer, and frames
may stop arriving in any state. No write has to succeed.

`Kcp`: the net thread flushes and finds every timer expired again and again (the
timeouts are finite), the oldest packet on its way arrives unless it is lost (faults
are bounded, so the network is fair in the end), and a peer that reads late does
read. `Framing`: the net thread reads what has arrived and goes on inside
`ReadStream`; the server and the closes have none. Both write weak fairness out as
`[]<> ~ enabled \/ []<> taken` with the guard named: it is the definition of WF,
and TLC need not search for the enabling condition. `Extension`: the engine calls
the hook, and callbacks of the script return. `ClientThreads`: the system runs the
net thread, `ConnectBlock` counts its turns, the destructor goes on. `KcpTimer`,
`KcpReentry`, `ClientQueue`, `FreeList`, `SharedBuffers` have safety properties only.

## What is proved

For every value of the constants under the named assumptions of the modules.

| theorem | in | statement |
| --- | --- | --- |
| `Invariant` | `ConnClient_proofs` | `Spec => []IInv` |
| `TypeCorrect` | | `Spec => []TypeOK` |
| `Sockets` | | `Spec => []SocketsMatchState` |
| `Limbo` | | `Spec => []NoLimbo` |
| `CleanStop` | | `Spec => []StopIsClean` |
| `NoLost` | | `Spec => []NoLostSocket` |
| `OverIsLast` | | `Spec => LastWords` |
| `GetIdExact` | `Kcp_proofs` | a number at less than `Half` from the base is rebuilt from its short form |
| `WindowsAlways` | | `Spec => []WindowsHold`, of `Kcp`, if `Signed` |
| `NeverWedged` | | `Spec => []NoWedge`, if `Signed` and `MessagesFit` |
| `NothingLost` | | `Spec /\ []Timely => []NothingForgotten`, if `Wide` |
| `AlwaysDecoded` | | `Spec /\ []Timely => []DecodesRight`, if `Wide` |
| `ShortSession` | | `Spec => []Timely /\ []NothingForgotten /\ []DecodesRight`, if `Wide` and `Brief` |
| `PositionsHold`, `NoJunkShown`, `StaysWithinLimit` | `Stream_proofs` | the three parts of a stream's invariant |
| `StreamIsByteQueue` | | `Spec => IsByteQueue` |
| `StreamBesideIsByteQueue` | `Containers_proofs` | `MCSpec => IsByteQueue`, of `MCContainers` |
| `ListInvariant` | | `Spec => []IInv`, of `FreeList`, and `MCSpec => []IInv` |
| `NoTwoOwners` | | `Spec => []OneOwner` and `MCSpec => []OneOwner` |
| `NoBlockLost` | | `Spec => []NoneLost` and `MCSpec => []NoneLost` |
| `Invariant` | `Framing_proofs` | `Spec => []IInv`, of `Framing` |
| `FramesComeWhole` | | `Spec => []HandledWhole` |
| `FramesGoWhole` | | `Spec => []SentWhole` |
| `QueueInvariant` | `Queue_proofs` | `Spec => []IInv`, of `ClientQueue` |
| `QueueSafe` | | `Spec => [](TypeInv /\ InOrder /\ OnceOnly /\ BlocksReturn)` |
| `TakenInOrder` | `Containers_proofs` | `MCSpec => []InOrder`, of `MCContainers` |
| `TakenOnce` | | `MCSpec => []OnceOnly` |
| `NoBlockLeaks` | | `MCSpec => []BlocksReturn` |
| `Invariant` | `Closing_proofs` | `Spec => []IInv`, of `ClientThreads` |
| `OwnOnly` | | `Spec => []NoMisuse` |
| `NothingLeft` | | `Spec => []DeletedClean` |
| `BothThreads` | | `MCSpec => [](NoMisuse /\ DeletedClean)`, of `MCClosing` |
| `Invariant` | `KcpTimer_proofs` | `Spec => []IInv`, of `KcpTimer`, if `NoWrap` |
| `FlushOnSchedule` | | `Spec => []OnSchedule`, if `NoWrap` |
| `TimeoutsInTime` | | `Spec => []ResentInTime`, if `NoWrap` and `BackInRto` |
| `CopiesInTime` | | `Spec => []DupInTime`, if `NoWrap`, `BackInWait` and `CopiesFit` |
| `ProbesInTime` | | `Spec => []ProbeInTime`, if `NoWrap` |
| `EachOnce` | `Closing_proofs` | `BindingSpec => []UpdatedOnce`, of `Extension` |
| `FewAreMissed` | | `BindingSpec => []MissedAtMostClosed` |
| `NestedOnce` | | `Spec => []ReleasedOnce`, of `KcpReentry` and of `MCClosing` |
| `NestedRelink` | | `Spec => RelinkKeepsSession`, of both |
| `NestedShallow` | | `Spec => []DepthBounded`, of both, if one packet holds the acknowledgements |

### ConnClient

The assumptions: bounds and times are natural numbers, intervals and timeouts
integers, the cap and the vector's size positive. The argument has two layers. First,
lemmas about the methods: every handler either *closes* (`Closes`: in `CS_INIT`,
empty, and if it left the client running then the relink vector was not used up) or
*keeps* the connection (`Keeps`), and `InnerConnect` *connects* (`Connects`: both
sockets open, or closed). These relations compose, so a handler that calls
`InnerClose` twice, or from inside a flush, closes. Second, one lemma per action shows
that a step of each kind preserves the invariant.

The properties are not inductive by themselves. `IInv` adds two parts. `AtStart`
says that before the net loop starts the object is new and, while the thread
waits to start, a connect is queued; without it `NetStart` could set `running_`
in limbo. `FirstConnect` says that a single connect waits at the head of the
queue, before any connection exists, and that no close is queued before the
script asked for one; without it `InnerConnect` could run on open sockets or after
the loop gave up. `IInv` was checked by TLC on instances with one and
with two connects before it was proved.

`OverIsLast` takes a second set of lemmas, about what a handler says. `InnerClose`, and
all that only sends, adds goodbyes (`Goodbyes`) or nothing; a handler that hands a message
over does so before it closes, and one that announces a relink or a connection does so
after: behind the first callback it adds there are goodbyes, and at the end at most one of
those (`GoodbyesThenOne`). For a loop that has stopped the invariant leaves nothing that
could say anything (`StoppedFacts`).

### Kcp

`Kcp_proofs` has one lemma for each function of ikcp.cpp that says what it does to a
control block (`MoveReadyFact`, `ParseDataFact`, `FlushFact`, `InputFact`, ...). The
numbers are compared modulo `Word` and rebuilt modulo `2 * Half`, so everything is said
with `Gap(x, y)`, how far `x` is ahead of `y`. The folds over segments and packets are
taken apart by `Iterates`, the sequence of their values, and what a loop reaches is
found as a least counterexample: the induction theorems of the library cannot be used.

`Fine` is what a block keeps by itself: the numbers of `snd_buf` are in order and
between `snd_una` and `snd_nxt`, those of `rcv_buf` in order and inside the window at
`rcv_nxt`, and `rcv_queue` is no longer than the window. `Local` is `Fine` of both ends
and the sizes of the packets; it is inductive whatever the network does, and
`WindowsHold` and `NoWedge` follow from it. They need `Signed` (twice a window is less
than `Word`, so that a difference has a sign), and `NoWedge` needs `MessagesFit`: each
message has at most `RcvWnd` fragments, which `send_ex` does not ask (`MCKcpWedge`).

`NothingForgotten` and `DecodesRight` relate the two ends and what is between them, and
are not inductive. `Joint` adds: the receiver keeps nothing that was not sent, and every
number that was used and is not passed is held by one of the two (`Joined`); a number
in `acklist` is one the receiver has (`Honest`); a segment on its way tells a `una` that
is not beyond `rcv_nxt`, acknowledges only what the receiver has, and carries a number
that has been used (`Comes`). Two hypotheses keep it:

* `Wide`: both windows together are at most `Half`, which is 32768 in the code. Its
  defaults are 32 and 128; the server names others (kcp_session.cpp:19), which the code
  does not bound.
* `Timely`: no acknowledgement due, and nothing on its way, is `Half` numbers old. The
  code has nothing that ensures it: a packet that the network keeps until 32768 more
  have been sent is read as another one. It is a hypothesis on the network, stated
  as a state predicate under `[]`; TLC finds it true in the instances `MCKcp` and
  `MCKcpLive`.

In a session where each end has fewer than `Half` fragments to send (`Brief`),
`ShortSession` proves `Timely` instead of assuming it, so the network may delay and
repeat as long as it likes. Its invariant adds two parts: `snd_nxt` and what waits in
`snd_queue` count the fragments of the messages accepted (`Counted`), and each number
on its way, due or held is at most the `snd_nxt` of the end that made it (`First`), so
that no counter has wrapped.

`GetIdExact` is the arithmetic of `get_id`. The long range is a multiple of the short one
and at least twice as large (`4 * Half <= Word`). Base and number are split into a
multiple of the short range and a remainder; of the three candidates one is near the
base, and a number less than `Half` from it is that one.

### Stream

A stream's invariant is `Good`: the fields have their types, the size is within
memory and within the limit, the read position is below the size or both are 0, and
the bytes between them were written. Each operation preserves `Good` and either
*extends* what is shown or drops a prefix of it; the refinement to `ByteQueue` follows
from those two facts, because an extension is a `Put` and a dropped prefix a `Take`.

What is written at once is any sequence of bytes (`ChunksAssumption`, which the
composition assumes of its constants). `SameNext` shows that a step of
`MCContainers` is a step of the stream or a stutter.

### FreeList

Any finite set of threads and any set of blocks. The difficulty is the count, which means
something else at each point: a reference may be the list's, a user's who is about to
take the block, or two that the taker is about to give up. So the invariant says for each
block which threads have to do with it (`Owners`, `Takers`, `Openers`, `Pushers`,
`Users`) and whether it is on the list, and then that it is in one of six places, each with
the count and the flag that it then has (`Fits`): owned; taken and its references not
given up; to be pushed and still closed to others, with no users; to be pushed and
open; listed; or nobody's, flagged, and with a user left who will push it.
`OneOwner` follows because the places exclude each other, and `NoneLost` because in
the last of them there is a user.

That the exchange of the head is safe is `Known`: a thread before the exchange knows
the successor of its node, since nobody writes the successor of a node that has users. That is
why a pusher waits for the users to go, and what fails if `Ref` does not compare the
count. The list itself is the least set closed under successors (`OnList`), with no
branch and no way back to its head (`Chain`); `Linked`, `Pushed` and `Popped` say
what the three writes do to it, from closed sets alone, so that no path has to be
followed by induction. TLC checked `IInv` on three threads and two nodes first.

### Framing

Any frames that are at least a head long, any head, block and limit, any number of
connections; the assumptions are those of the stream and that what malloc leaves is
not a byte of a frame. The invariant has one part for each direction. While a connection
is open, the bytes in the read stream and those on the way behind them *continue* the
frames handled (`Continues`): the first byte is the first of the next frame, and
each byte is followed by the next one of its frame or by the first of the frame after
it (`InPlace`). That is said byte by byte, so that no sequence of frames has to be
flattened: a frame appended keeps it (`ContinuesMore`), and a front as long as its
first byte announces is the next frame (`ContinuesLess`, `FrontFrame`). For what is
sent, `Fine` says that the bytes the kernel took and the write stream together are all
frames put into the stream, and that a closed connection has empty streams; `SentWhole`
alone is not inductive, since it says nothing of what is still to be sent. The streams
enter only by what `Stream_proofs` proves of `Write`, `Skip`, `Reset` and
`EnsureWritable` (`WriteShows`, `SkipShows`), through an instance of that module.

Two facts need induction, that a frame's bytes follow one another to its end and
what `FlattenSeq` appends. Induction rules that take an operator cannot be used here,
so they are proved from a least counterexample: `Climb`, from `WFMin` of the library.

### Extension

Any number of clients. A walk has passed the places before the index, and the place
at it too while that client's `Update` runs (`Passed`). A client created during a walk
is pushed to the back, and one that is closed shifts those behind it to the front, so
`UpdatedOnce` needs that a client which had its turn is nowhere behind the places
passed (`UpdatedBehind`), that the vector has no client twice (`EachClientOnce`), and
that no `Update` runs outside of the hook (`NothingOutside`). `MissedAtMostClosed` needs a count: of
the clients that were there at the beginning of the walk, those passed without an
update (`Missed`) are no more than the calls of `close` in this walk; a close removes
one client and shifts at most one from behind the index to it. The assumption is that
"no client" is not a client. The proof is in `Closing_proofs`, over the instance
`Binding` of `MCExtension`, which gives the binding's specification and properties
names of their own (`BindingSpec`).

### Closing

`ClientThreads`, for any number of descriptors, turns of `ConnectBlock` and slots. The
crux is `OneCloses`: the net thread is in `InnerClose` only inside its loop, the main
thread only after `join`. So the steps of one `InnerClose` are never interleaved with
those of another, and in between fields and system agree: `Descriptors` (the
process's table names `tcp_sock_` as the client's, except between `closesocket_ex`
and the assignment behind it), `Sessions` (sessions are numbered; those released are
the first, and the pointer is null or the next), `Waiting` (a connect waits only on
an idle client, so it overwrites no descriptor) and `Deleting` (the destructor's
close passes the release, because its reason is below `CLIENT_CONNECT_ERROR`). The
invariant is `switched \/ Quiet`: `SwitchNetwork` closes on the main thread while the net
thread runs, and from then on nothing is promised; `MCThreadsSwitch.cfg` shows why.

`MCClosing` is `ClientThreads` and `KcpReentry` side by side: each of its steps is a step
of one and a stutter of the other (`Apart`), so the theorems of both hold of it.

### KcpTimer

For any interval, timeouts, waits and passes of the loop, any number of segments.
`NoWrap` says that the clock does not pass the end of the word and that twice
the distance of any two times of the session fits it; with 32 bits and milliseconds
that is about twelve days of running, in which the wall clock's low word does not
turn over. Without it `OnSchedule` is false (`MCTimerWrap.cfg`). The run's instance
satisfies `NoWrap`.

`CopiesFit` says that a flush can copy a full window (`SndWnd <= DupLen`).

`Scheduled` says that the next flush is not before the time `check` returned, is no
further ahead than an interval and what the clock was set back, and after `Tick` is
ahead; that is `OnSchedule`. The other three follow because every timer is at most an
interval before the next flush (`SegTimes`, `Good`). That is kept since a flush moves
each timer it finds expired beyond the present and the schedule by one interval, and
since a segment sent between flushes, new or along with new ones, starts with a wait
that is longer than what the clock can have been set back: `BackInRto` for timeouts,
`BackInWait` for duplicates. Beyond those bounds the properties are false
(`MCTimerBack.cfg`); the probe needs none, because its timer starts in a flush. With
`CopiesFit` no more copies can be due than there are places, so a flush leaves no due
one behind; without it `DupInTime` is false (`MCTimerCopies.cfg`).

Backed-off timeouts grow, and they would outgrow any word. `SegTimes` bounds them by the
longest first timeout and the time the session runs: a timeout is backed off only after
it ran out since it was set, and `resendts` less `rto` is never later than the clock by
more than the delay of a first send. A fast resend sets both anew. The minimum that `check` takes over a set of
waits is characterised by `MinFact`, from the least element of a non-empty set of numbers.

### ClientQueue

Any threads, any number of elements, any size of a block (two at least, as the
`static_assert` at :795 has it), of the first index and of the pool. `InOrder`,
`OnceOnly` and `BlocksReturn` say little of the state, and the invariant has to say why
each slot, entry and count is what it is. Its parts:

* `Counts`: what is promised, taken or about to be, is no more than `tail`, and
  `optimistic` is that plus `overcommit` and those on their way between the two
  (:2556-2618). The crux is how many may pass the second test at once. Consumers
  between the two tests have different places (`my`); one of them may take when all
  with a place up to its own may (`Before`), because an overcommit it has not seen yet
  stands for one that went away. Without it an off-by-one in either test is not seen.
* `Ring`: around the current header the keys go down by a block at each place from the
  tail (`Keyed`), except that the next entry may be claimed; each entry is named once
  (`Headers`). A consumer may hold an old header while the index is doubled. It finds
  the same entry around it as around the new one, because in both the places of two
  entries differ by the same number modulo the old size (`Spaced`); that is what makes
  `Find` land on the block of its element (`Finding`). The step that needs most is
  `GrowIndex`, where the old entries are turned to the front.
* `Present`, `Keeping`: what is not moved out yet has an entry that leads to its block,
  no two entries lead to one block, and in it the slots are the elements built and not
  moved out; the slots emptied, those that will count one more, and the elements still
  there make up the block.
* `Taking`, `Taken`: each number is claimed by one consumer, and what a consumer took
  of a producer is below what it claims.
* `Leaving`, `Returned`: whoever finds a block empty is the only one who unlinks and
  frees it, and a block out of use is empty.

Arithmetic modulo the size of a ring and of a block is in lemmas at the beginning
(`Multiple`), since the provers do not find it. `Containers_proofs` takes the two queues
of the run as instances of `Queue_proofs`: `SoleConsumer` and `TwoConsumers`.

### KcpReentry

`IInv` describes the stack: closes and flushes alternate and a close called by a flush
has the reason `CLIENT_CONNECT_ERROR` (`Alternate`); a close that has come to the release
while attempts are left is final by its own reason (`Final`); the session is live and
not released, or released once (`Owned`). `RelinkKeepsSession` follows, since that
reason is not final while attempts are left.

The depth is bounded by a measure. `Left` is what flushes have still to mark: due
segments and duplicates. A flush calls output, and so pushes a frame, only with
something in its packet, and it marked that before; a deeper flush does not find it
any more. So every place `k` of the stack has `k + 2 * Left <= 2 * Most + Slack`
(`Deep`). Acknowledgements are the exception: they are counted
down by the flush that puts them out, but `ackcount` is zeroed only behind the loop
(ikcp.cpp:1037-1051). With two packets of them each nested flush starts over and there
is no bound; that is why `NestedShallow` rests on `OnePacketAssumption`, `MaxAcks <= PerPacket`
(an assumption on the instance, as for `DepthBounded` above); `FirstAcks` says that then
only the first flush of a stack puts acknowledgements out.

### Left to TLC

* All liveness, among it `ReliableDelivery` (its abstract specification has fairness),
  and `FalseMeansEmpty`: its statement looks at both ends of a call, and it is one of a
  single consumer, while the invariant of `ClientQueue` is one of any number.
* `KcpTimer` when the clock wraps.

## What is not modelled, and why

* Of `concurrentqueue.h`: the hash from a thread to its producer, the recycling of a
  producer when a thread ends, explicit producers and tokens, bulk operations, moving
  and swapping, and orders weaker than sequential consistency. The client uses two
  calls, from threads that live as long as it does; memory orders are out of TLC's
  reach.
* Of ikcp: stream mode (the client never sets it), packets that are malformed, `recv`
  into a buffer that is too small (the client's holds any message), setters after
  creation, statistics.
* Of the binding: `set_magic_num`, whose field steers no control, and the
  extension's life-cycle hooks, which log. Finalizing the extension leaves clients
  and their threads alive; there is no code there to model.
* The contents of messages and pings, statistics getters, logging.
* A torn read inside `push_back` of the relink vector (:1039): the vector is read in
  one step.
* The socket, time, file and system wrappers: calls into the system whose results
  are choices of the actions that make them. The time wrapper is the clock of
  `KcpTimer`.
* Macros, build files, the example script (it is what the script may do).
