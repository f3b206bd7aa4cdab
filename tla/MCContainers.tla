---------------------------- MODULE MCContainers ----------------------------
(***************************************************************************)
(* The data structures under the client, side by side: a stream, the queue *)
(* with one consumer (as the client uses it) and with two, and the list of *)
(* free blocks.  They share no state; a behaviour exercises one of them.   *)
(***************************************************************************)
EXTENDS FreeList, StreamOps, TLC

CONSTANT Chunks

VARIABLES
    part,       \* the structure this behaviour exercises
    list, tail, head, optimistic, overcommit, headers, entries, block, pooled,
    prod, cons, got,
    s

queue == <<list, tail, head, optimistic, overcommit, headers, entries, block, pooled,
           prod, cons, got>>
all == <<part, s, queue, vars>>

Parts == {"stream", "one consumer", "two consumers", "free list"}

(* A stream of at most five bytes, in blocks of two. *)
MCBytes == {1, 2}
MCChunks == {<<>>, <<1>>, <<2>>, <<1, 2>>, <<2, 2, 1>>}

Streams == INSTANCE Stream

(* Both threads of the client enqueue, one dequeues: three blocks of two, one *)
(* of them from the pool, an index that has to grow.                          *)
One == INSTANCE ClientQueue WITH
    Producers <- {1, 2}, Consumers <- {1}, BLOCK_SIZE <- 2, InitialIndexSize <- 1,
    PoolSize <- 1, MaxBlocks <- 3, MaxSent <- 3, MaxTries <- 3

Two == INSTANCE ClientQueue WITH
    Producers <- {1}, Consumers <- {1, 2}, BLOCK_SIZE <- 2, InitialIndexSize <- 1,
    PoolSize <- 1, MaxBlocks <- 3, MaxSent <- 4, MaxTries <- 5

(* Three threads and two blocks. *)
MCThreads == {1, 2, 3}
MCNodes == {1, 2}

ASSUME ContainersAssumption ==
    One!QueueAssumption /\ Two!QueueAssumption /\ Streams!ChunksAssumption

\* How the blocks are dealt out matters only where the list of free blocks runs.
Dealt == held = [t \in Threads |-> IF t = 1 THEN Nodes ELSE {}]

MCInit ==
    /\ part \in Parts
    /\ Streams!Init
    /\ IF part = "two consumers" THEN Two!Init ELSE One!Init
    /\ Init /\ (part # "free list" => Dealt)

MCNext ==
    \/ part = "stream" /\ Streams!Next /\ UNCHANGED <<part, queue, vars>>
    \/ part = "one consumer" /\ One!Next /\ UNCHANGED <<part, s, vars>>
    \/ part = "two consumers" /\ Two!Next /\ UNCHANGED <<part, s, vars>>
    \/ part = "free list" /\ Next /\ UNCHANGED <<part, s, queue>>

MCSpec == MCInit /\ [][MCNext]_all

-----------------------------------------------------------------------------
(* The properties of the parts, by the names they have there; those of the *)
(* list are FreeList's.                                                    *)

\* The stream is a queue of bytes.
Queue == INSTANCE ByteQueue WITH queue <- Streams!Contents(s)
IsByteQueue == Queue!Spec

\* Each consumer takes the elements of a producer in the order they were enqueued.
InOrder ==
    /\ part = "one consumer" => One!InOrder
    /\ part = "two consumers" => Two!InOrder

\* Nothing is taken twice, and no slot is read that nothing was built in.
OnceOnly ==
    /\ part = "one consumer" => One!OnceOnly
    /\ part = "two consumers" => Two!OnceOnly

\* A block is given back when its last element is gone, not before and not later.
BlocksReturn ==
    /\ part = "one consumer" => One!BlocksReturn
    /\ part = "two consumers" => Two!BlocksReturn

\* try_dequeue of the only consumer does not return false while something waits.
FalseMeansEmpty == [][part = "one consumer" => One!NothingLeft]_all

=============================================================================
