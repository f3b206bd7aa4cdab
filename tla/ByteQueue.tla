------------------------------ MODULE ByteQueue ------------------------------
(***************************************************************************)
(* What a Stream promises: a queue of bytes, written at one end and read   *)
(* at the other, that refuses what would make it longer than MaxSize.      *)
(***************************************************************************)
EXTENDS Integers, Sequences

CONSTANTS Bytes, MaxSize

VARIABLE queue

Init == queue = <<>>

\* Bytes are added behind those that are there, while there is room.
Put ==
    /\ Len(queue') >= Len(queue)
    /\ Len(queue') <= MaxSize
    /\ \A i \in 1 .. Len(queue) : queue'[i] = queue[i]
    /\ \A i \in Len(queue) + 1 .. Len(queue') : queue'[i] \in Bytes

\* The first n are gone.
Take(n) == queue' = [i \in 1 .. Len(queue) - n |-> queue[n + i]]

Next == Put \/ \E n \in 1 .. Len(queue) : Take(n)

Spec == Init /\ [][Next]_queue
=============================================================================
