------------------------------- MODULE Stream -------------------------------
(***************************************************************************)
(* One Stream under any sequence of calls.  It implements ByteQueue.       *)
(***************************************************************************)
EXTENDS StreamOps

CONSTANT Chunks     \* what a caller writes at once

\* What an instance must give.
ChunksAssumption == Chunks \subseteq Seq(Bytes)

VARIABLE s          \* the stream

Init == s = NewStream

\* EnsureWritable(n), then the bytes that came, at most n, and AddSize.
WriteSome(n, data) == Len(data) <= n /\ Writable(s, n) /\ s' = Write(s, n, data)

\* The caller gives up when there is no room (conn_client.cpp:499-503, 643-645).
WriteRefused(n) == ~Writable(s, n) /\ s' = EnsureWritable(s, n)

DoAppend(data) == s' = AppendData(s, data)
DoSkip(n) == s' = Skip(s, n)
DoReset == s' = Reset(s)

Sizes == 0 .. MaxSize + 1

Next ==
    \/ \E n \in Sizes, data \in Chunks : WriteSome(n, data)
    \/ \E n \in Sizes : WriteRefused(n)
    \/ \E data \in Chunks : DoAppend(data)
    \/ \E n \in Sizes : DoSkip(n)
    \/ DoReset

Spec == Init /\ [][Next]_s

-----------------------------------------------------------------------------
(* Properties.                                                             *)

\* The positions stay inside the memory, and a read position is left only while
\* there is something to read.
Positions ==
    /\ s = [mem |-> s.mem, rpos |-> s.rpos, size |-> s.size]
    /\ s.mem \in Seq(Bytes \cup {Junk})
    /\ s.rpos \in Nat /\ s.size \in Nat
    /\ s.size <= Capacity(s)
    /\ s.rpos < s.size \/ (s.rpos = 0 /\ s.size = 0)

\* No byte that nobody wrote is ever shown.
NoJunk == \A i \in s.rpos + 1 .. s.size : s.mem[i] \in Bytes

\* What is held stays within the limit, though the memory is rounded up.
WithinLimit == s.size <= MaxSize

\* The stream is a queue of bytes.
Queue == INSTANCE ByteQueue WITH queue <- Contents(s)
IsByteQueue == Queue!Spec
=============================================================================
