----------------------------- MODULE ClientQueue -----------------------------
(***************************************************************************)
(* The queue behind in_queue_ and out_queue_, as its users reach it:       *)
(* enqueue without a token, and try_dequeue.  Each thread that enqueues    *)
(* has a producer of its own: counters, a chain of blocks, and a block     *)
(* index that finds the block of an element.  A step is one access to what *)
(* threads share.                                                          *)
(***************************************************************************)
EXTENDS Integers, SequencesExt, FiniteSetsExt, Functions

CONSTANTS
    Producers,          \* threads that enqueue, as numbers
    Consumers,          \* threads that call try_dequeue
    BLOCK_SIZE,
    InitialIndexSize,   \* IMPLICIT_INITIAL_INDEX_SIZE
    PoolSize,           \* blocks made with the queue
    MaxBlocks,          \* bound: blocks that exist at once
    MaxSent,            \* bound: elements each producer enqueues
    MaxTries            \* bound: dequeueOptimisticCount

\* What an instance must give these constants.
QueueAssumption ==
    /\ Producers \subseteq Nat \ {0}
    /\ IsFiniteSet(Consumers)
    /\ {BLOCK_SIZE, InitialIndexSize, MaxBlocks} \subseteq Nat \ {0} /\ BLOCK_SIZE > 1
    /\ PoolSize \in 0 .. MaxBlocks /\ MaxSent \in Nat /\ MaxTries \in Nat

VARIABLES
    list,       \* the producers, the newest first
    tail, head, optimistic, overcommit,     \* the counters of each producer
    headers,    \* headers[p]: the block indices p has made; the last one is current
    entries,    \* entries[p]: the entries they share
    block,      \* the memory of each block: its slots, how many were emptied, where it is
    pooled,     \* initialBlockPoolIndex
    prod,       \* what each producer is doing
    cons,       \* what each consumer is doing
    got         \* history: what each consumer took

counters == <<tail, head, optimistic, overcommit>>
memory == <<headers, entries, block, pooled>>
vars == <<list, counters, memory, prod, cons, got>>

Blocks == 1 .. MaxBlocks
Null == 0
INVALID_BLOCK_BASE == 1     \* no block begins there
Empty == <<0, 0>>           \* a slot nothing was built in

Idle == [at |-> "idle"]
FreshSlots == [i \in 0 .. BLOCK_SIZE - 1 |-> Empty]

FreshEntry == [key |-> INVALID_BLOCK_BASE, value |-> Null]

\* new_block_index of the constructor: its tail is just before the first entry.
FirstHeader == [tail |-> InitialIndexSize, index |-> [i \in 1 .. InitialIndexSize |-> i]]

Init ==
    /\ list = <<>>
    /\ tail = [p \in Producers |-> 0] /\ head = tail
    /\ optimistic = tail /\ overcommit = tail
    /\ headers = [p \in Producers |-> <<FirstHeader>>]
    /\ entries = [p \in Producers |-> [i \in 1 .. InitialIndexSize |-> FreshEntry]]
    /\ block = [b \in Blocks |-> [slots |-> FreshSlots, emptied |-> 0,
                                  at |-> IF b <= PoolSize THEN "pool" ELSE "heap"]]
    /\ pooled = 0
    /\ prod = [p \in Producers |-> Idle]
    /\ cons = [c \in Consumers |-> Idle]
    /\ got = [c \in Consumers |-> <<>>]

-----------------------------------------------------------------------------
(* The block index                                                         *)

Current(p) == Last(headers[p])
Size(header) == Len(header.index)
After(header, i) == (i % Size(header)) + 1

\* The entry insert_block_index_entry would take.
NextEntry(p) == Current(p).index[After(Current(p), Current(p).tail)]

\* Mutant: an entry is taken over while its block is in use.
AnyEntry(e) == TRUE
Reusable(e) == e.key = INVALID_BLOCK_BASE \/ e.value = Null

\* new_block_index: the old entries in their order, then as many new ones.
Grown(p) ==
    LET old == Current(p)
        n == Size(old)
        turned == [i \in 1 .. n |-> old.index[((old.tail + i - 1) % n) + 1]]
    IN  [tail |-> n, index |-> turned \o [i \in 1 .. n |-> Len(entries[p]) + i]]

-----------------------------------------------------------------------------
(* enqueue                                                                 *)

BlockStart(p) == tail[p] % BLOCK_SIZE = 0
Item(p) == <<p, tail[p] + 1>>

\* Mutant: the new producer hides those that were there.
AddedAlone(p) == <<p>>
Added(p) == <<p>> \o list

\* get_or_add_implicit_producer, on the first call of a thread: one CAS of the list.
AddProducer(p) ==
    /\ prod[p].at = "idle" /\ ~ Contains(list, p)
    /\ list' = Added(p)
    /\ UNCHANGED <<counters, memory, prod, cons, got>>

\* The element is built in a slot that is there, then the tail moves.
EnqueueInBlock(p) ==
    /\ prod[p].at = "idle" /\ Contains(list, p)
    /\ tail[p] < MaxSent /\ ~ BlockStart(p)
    /\ LET b == entries[p][Current(p).index[Current(p).tail]].value
       IN  /\ b # Null
           /\ block' = [block EXCEPT ![b].slots[tail[p] % BLOCK_SIZE] = Item(p)]
    /\ prod' = [prod EXCEPT ![p] = [at |-> "publish"]]
    /\ UNCHANGED <<list, counters, headers, entries, pooled, cons, got>>

\* A new block: first an entry for it, in a larger index if need be.
GrowIndex(p) ==
    /\ prod[p].at = "idle" /\ Contains(list, p)
    /\ tail[p] < MaxSent /\ BlockStart(p)
    /\ ~ Reusable(entries[p][NextEntry(p)])
    /\ headers' = [headers EXCEPT ![p] = Append(@, Grown(p))]
    /\ entries' = [entries EXCEPT ![p] = @ \o [i \in 1 .. Size(Current(p)) |-> FreshEntry]]
    /\ UNCHANGED <<list, counters, block, pooled, prod, cons, got>>

ClaimEntry(p) ==
    /\ prod[p].at = "idle" /\ Contains(list, p)
    /\ tail[p] < MaxSent /\ BlockStart(p)
    /\ Reusable(entries[p][NextEntry(p)])
    /\ entries' = [entries EXCEPT ![p][NextEntry(p)].key = tail[p]]
    /\ prod' = [prod EXCEPT ![p] = [at |-> "link"]]
    /\ UNCHANGED <<list, counters, headers, block, pooled, cons, got>>

MoveIndexTail(p) ==
    /\ prod[p].at = "link"
    /\ headers' = [headers EXCEPT ![p][Len(headers[p])].tail = After(Current(p), @)]
    /\ prod' = [prod EXCEPT ![p] = [at |-> "block"]]
    /\ UNCHANGED <<list, counters, entries, block, pooled, cons, got>>

FreeBlocks == {b \in Blocks : block[b].at = "free"}
Unmade == {b \in Blocks \ (1 .. PoolSize) : block[b].at = "heap"}

\* requisition_block: the pool, then the free list, then the heap.
Obtainable ==
    IF pooled < PoolSize THEN {pooled + 1}
    ELSE IF FreeBlocks # {} THEN FreeBlocks
    ELSE IF Unmade # {} THEN {Min(Unmade)} ELSE {}

ResetEmpty(b) == 0

\* The block, its counter, the element in it, and its entry; no consumer can see it.
FillBlock(p) ==
    /\ prod[p].at = "block"
    /\ \E b \in Obtainable :
         /\ block' = [block EXCEPT ![b] =
                [slots |-> [@.slots EXCEPT ![0] = Item(p)],
                 emptied |-> ResetEmpty(b), at |-> "used"]]
         /\ entries' = [entries EXCEPT ![p][Current(p).index[Current(p).tail]].value = b]
    /\ pooled' = Min({pooled + 1, PoolSize})
    /\ prod' = [prod EXCEPT ![p] = [at |-> "publish"]]
    /\ UNCHANGED <<list, counters, headers, cons, got>>

\* There is no memory: rewind_block_index_tail, and enqueue returns false.
NoBlock(p) ==
    /\ prod[p].at = "block" /\ pooled = PoolSize /\ FreeBlocks = {}
    /\ LET at == Current(p).tail
       IN  /\ headers' = [headers EXCEPT ![p][Len(headers[p])].tail =
                              IF at = 1 THEN Size(Current(p)) ELSE at - 1]
           /\ entries' = [entries EXCEPT ![p][Current(p).index[at]].value = Null]
    /\ prod' = [prod EXCEPT ![p] = Idle]
    /\ UNCHANGED <<list, counters, block, pooled, cons, got>>

Publish(p) ==
    /\ prod[p].at = "publish"
    /\ tail' = [tail EXCEPT ![p] = @ + 1]
    /\ prod' = [prod EXCEPT ![p] = Idle]
    /\ UNCHANGED <<list, head, optimistic, overcommit, memory, cons, got>>

Enqueue(p) ==
    \/ AddProducer(p) \/ EnqueueInBlock(p) \/ GrowIndex(p) \/ ClaimEntry(p)
    \/ MoveIndexTail(p) \/ FillBlock(p) \/ NoBlock(p) \/ Publish(p)
-----------------------------------------------------------------------------
(* try_dequeue                                                             *)

At(c, at) == cons[c].at = at
Becomes(c, state) == cons' = [cons EXCEPT ![c] = state]

\* Consumer c tries the producers of todo in turn, or returns false.
Tries(c, todo, best, seen) ==
    LET others == {i \in DOMAIN todo : todo[i] # best}
        i == Min(others)
    IN  Becomes(c, IF others = {} THEN Idle
                   ELSE [at |-> "check", p |-> todo[i], todo |-> SubSeq(todo, i + 1, Len(todo)),
                         best |-> best, first |-> FALSE, seen |-> seen])

\* dequeue of this producer returned false: after the best one, the list is read again.
Fails(c) ==
    LET s == cons[c]
    IN  Tries(c, IF s.first THEN list ELSE s.todo, s.best, s.seen)

Start(c) ==
    /\ At(c, "idle")
    /\ Becomes(c, [at |-> "scan", todo |-> list, best |-> Null, size |-> 0,
                   count |-> 0, seen |-> tail])
    /\ UNCHANGED <<list, counters, memory, prod, got>>

\* size_approx of the next producer; three that are not empty are enough.
Scan(c) ==
    /\ At(c, "scan") /\ cons[c].todo # <<>> /\ cons[c].count < 3
    /\ LET s == cons[c]
           p == Head(s.todo)
           n == tail[p] - head[p]
       IN  Becomes(c, [s EXCEPT !.todo = Tail(@),
                                !.count = IF n > 0 THEN @ + 1 ELSE @,
                                !.best = IF n > s.size THEN p ELSE @,
                                !.size = Max({n, @})])
    /\ UNCHANGED <<list, counters, memory, prod, got>>

Choose(c) ==
    /\ At(c, "scan") /\ (cons[c].todo = <<>> \/ cons[c].count = 3)
    /\ Becomes(c, IF cons[c].count = 0 THEN Idle
                  ELSE [at |-> "check", p |-> cons[c].best, todo |-> <<>>,
                        best |-> cons[c].best, first |-> TRUE, seen |-> cons[c].seen])
    /\ UNCHANGED <<list, counters, memory, prod, got>>

LoadTail(c) ==
    /\ At(c, "check")
    /\ LET s == cons[c]
       IN  Becomes(c, [at |-> "guess", p |-> s.p, todo |-> s.todo, best |-> s.best,
                       first |-> s.first, seen |-> s.seen,
                       tail |-> tail[s.p], over |-> overcommit[s.p]])
    /\ UNCHANGED <<list, counters, memory, prod, got>>

\* Mutant: the check lets through one too many.
LessOrEqual(a, b) == a <= b
LessThan(a, b) == a < b

Guess(c) ==
    /\ At(c, "guess")
    /\ LET s == cons[c]
       IN  IF LessThan(optimistic[s.p] - s.over, s.tail)
           THEN Becomes(c, [s EXCEPT !.at = "bump"]) ELSE Fails(c)
    /\ UNCHANGED <<list, counters, memory, prod, got>>

Bump(c) ==
    /\ At(c, "bump") /\ optimistic[cons[c].p] < MaxTries
    /\ LET s == cons[c]
       IN  Becomes(c, [at |-> "recheck", p |-> s.p, todo |-> s.todo, best |-> s.best,
                       first |-> s.first, seen |-> s.seen, over |-> s.over,
                       my |-> optimistic[s.p]])
    /\ optimistic' = [optimistic EXCEPT ![cons[c].p] = @ + 1]
    /\ UNCHANGED <<list, tail, head, overcommit, memory, prod, got>>

Recheck(c) ==
    /\ At(c, "recheck")
    /\ LET s == cons[c]
       IN  Becomes(c, [s EXCEPT !.at = IF LessThan(s.my - s.over, tail[s.p])
                                       THEN "take" ELSE "undo"])
    /\ UNCHANGED <<list, counters, memory, prod, got>>

Undo(c) ==
    /\ At(c, "undo")
    /\ overcommit' = [overcommit EXCEPT ![cons[c].p] = @ + 1]
    /\ Fails(c)
    /\ UNCHANGED <<list, tail, head, optimistic, memory, prod, got>>

Take(c) ==
    /\ At(c, "take")
    /\ LET p == cons[c].p
       IN  /\ Becomes(c, [at |-> "locate", p |-> p, i |-> head[p]])
           /\ head' = [head EXCEPT ![p] = @ + 1]
    /\ UNCHANGED <<list, tail, optimistic, overcommit, memory, prod, got>>

\* get_block_index_index_for_index: the current header and its tail ...
Locate(c) ==
    /\ At(c, "locate")
    /\ LET p == cons[c].p
       IN  Becomes(c, [at |-> "find", p |-> p, i |-> cons[c].i,
                       h |-> Len(headers[p]), t |-> Current(p).tail])
    /\ UNCHANGED <<list, counters, memory, prod, got>>

Base(i) == i - (i % BLOCK_SIZE)

\* ... then the key of the tail's entry, which gives the distance to ours.
Find(c) ==
    /\ At(c, "find")
    /\ LET s == cons[c]
           header == headers[s.p][s.h]
           away == (Base(s.i) - entries[s.p][header.index[s.t]].key) \div BLOCK_SIZE
       IN  Becomes(c, [at |-> "move", p |-> s.p, i |-> s.i,
                       entry |-> header.index[((s.t - 1 + away) % Size(header)) + 1]])
    /\ UNCHANGED <<list, counters, memory, prod, got>>

\* The element is moved out of the block and destroyed.
Move(c) ==
    /\ At(c, "move")
    /\ LET s == cons[c]
           b == entries[s.p][s.entry].value
       IN  /\ b # Null
           /\ got' = [got EXCEPT ![c] = Append(@, block[b].slots[s.i % BLOCK_SIZE])]
           /\ block' = [block EXCEPT ![b].slots[s.i % BLOCK_SIZE] = Empty]
           /\ Becomes(c, [at |-> "empty", p |-> s.p, entry |-> s.entry, b |-> b])
    /\ UNCHANGED <<list, counters, headers, entries, pooled, prod>>

\* Mutant: the last but one finds the block empty.
OneLeft(n) == n >= BLOCK_SIZE - 1
AllEmptied(n) == n = BLOCK_SIZE

\* set_empty
SetEmpty(c) ==
    /\ At(c, "empty")
    /\ LET b == cons[c].b
       IN  /\ block' = [block EXCEPT ![b].emptied = @ + 1]
           /\ Becomes(c, IF AllEmptied(block[b].emptied + 1)
                         THEN [cons[c] EXCEPT !.at = "unlink"] ELSE Idle)
    /\ UNCHANGED <<list, counters, headers, entries, pooled, prod, got>>

Unlink(c) ==
    /\ At(c, "unlink")
    /\ entries' = [entries EXCEPT ![cons[c].p][cons[c].entry].value = Null]
    /\ Becomes(c, [cons[c] EXCEPT !.at = "free"])
    /\ UNCHANGED <<list, counters, headers, block, pooled, prod, got>>

\* add_block_to_free_list: a block of the pool is kept, one of the heap destroyed.
Free(c) ==
    /\ At(c, "free")
    /\ block' = [block EXCEPT ![cons[c].b].at =
                     IF cons[c].b <= PoolSize THEN "free" ELSE "heap"]
    /\ Becomes(c, Idle)
    /\ UNCHANGED <<list, counters, headers, entries, pooled, prod, got>>

TryDequeue(c) ==
    \/ Start(c) \/ Scan(c) \/ Choose(c) \/ LoadTail(c) \/ Guess(c) \/ Bump(c)
    \/ Recheck(c) \/ Undo(c) \/ Take(c) \/ Locate(c) \/ Find(c) \/ Move(c)
    \/ SetEmpty(c) \/ Unlink(c) \/ Free(c)

Next == (\E p \in Producers : Enqueue(p)) \/ (\E c \in Consumers : TryDequeue(c))

Spec == Init /\ [][Next]_vars

-----------------------------------------------------------------------------
(* Properties                                                              *)

\* A consumer takes the elements of a producer in the order they were enqueued.
InOrder ==
    \A c \in Consumers : \A i, j \in DOMAIN got[c] :
        i < j /\ got[c][i][1] = got[c][j][1] => got[c][i][2] < got[c][j][2]

\* Nothing is taken twice, and no slot is read that nothing was built in.
OnceOnly ==
    /\ \A c \in Consumers : \A i \in DOMAIN got[c] : got[c][i] # Empty
    /\ \A c, d \in Consumers : \A i \in DOMAIN got[c], j \in DOMAIN got[d] :
           got[c][i] = got[d][j] => c = d /\ i = j

InUse(b) == \E c \in Consumers : cons[c].at \in {"empty", "unlink", "free"} /\ cons[c].b = b

\* A block is given back when its last element is gone, not before and not later.
BlocksReturn ==
    \A b \in Blocks :
        /\ block[b].at \in {"free", "heap"} =>
               ~ InUse(b) /\ \A i \in 0 .. BLOCK_SIZE - 1 : block[b].slots[i] = Empty
        /\ block[b].at = "used" /\ block[b].emptied = BLOCK_SIZE => InUse(b)

\* try_dequeue of the only consumer returns false only when everything that was
\* enqueued before the call has been taken: the loops of Update and
\* NetThreadLoop leave nothing behind.
NothingLeft ==
    \A c \in Consumers :
        cons[c].at \in {"scan", "guess", "undo"} /\ cons'[c] = Idle =>
            \A p \in Producers : cons[c].seen[p] <= head'[p]

FalseMeansEmpty == [][NothingLeft]_vars
=============================================================================
