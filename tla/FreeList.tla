------------------------------ MODULE FreeList ------------------------------
(***************************************************************************)
(* The lock-free list of free blocks that the producers and consumers of   *)
(* a queue share (ClientQueue takes it as a set).  A node counts who holds *)
(* a reference to it, the list included, so that a node somebody is about  *)
(* to take cannot come back to the head with another successor.            *)
(***************************************************************************)
EXTENDS Integers, FiniteSets

CONSTANTS
    Threads,
    Nodes           \* the blocks of the pool, as numbers

ASSUME PoolAssumption == IsFiniteSet(Threads) /\ Nodes \subseteq Nat \ {0}

Null == 0

VARIABLES
    freeListHead,
    next,           \* freeListNext of each node
    refs,           \* its freeListRefs: the count, and SHOULD_BE_ON_FREELIST
    held,           \* the nodes each thread owns
    th              \* what each thread is doing

vars == <<freeListHead, next, refs, held, th>>

Idle == [at |-> "idle"]
Refs(n, flag) == [count |-> n, should |-> flag]

\* Every node belongs to a thread, as blocks do before they are emptied.
Init ==
    /\ freeListHead = Null
    /\ next = [n \in Nodes |-> Null]
    /\ refs = [n \in Nodes |-> Refs(0, FALSE)]
    /\ held \in {h \in [Threads -> SUBSET Nodes] :
                    /\ UNION {h[t] : t \in Threads} = Nodes
                    /\ \A t, u \in Threads : t # u => h[t] \cap h[u] = {}}
    /\ th = [t \in Threads |-> Idle]

At(t, at) == th[t].at = at
Becomes(t, state) == th' = [th EXCEPT ![t] = state]

-----------------------------------------------------------------------------
(* add, and the loop it shares with try_get.  "then" is the head with which *)
(* the caller goes on in try_get, Null when it returns.                     *)

\* Back in try_get, or out of add.
GoesOn(then) ==
    IF then = Null THEN Idle ELSE [at |-> "count", n |-> then]

Pushes(n, then) == [at |-> "load", n |-> n, then |-> then]

Add(t) ==
    /\ At(t, "idle")
    /\ \E n \in held[t] :
         /\ held' = [held EXCEPT ![t] = @ \ {n}]
         /\ refs' = [refs EXCEPT ![n].should = TRUE]
         /\ Becomes(t, IF refs[n].count = 0 THEN Pushes(n, Null) ELSE Idle)
    /\ UNCHANGED <<freeListHead, next>>

PushLoads(t) ==
    /\ At(t, "load")
    /\ Becomes(t, [at |-> "link", n |-> th[t].n, then |-> th[t].then, head |-> freeListHead])
    /\ UNCHANGED <<freeListHead, next, refs, held>>

PushLinks(t) ==
    /\ At(t, "link")
    /\ next' = [next EXCEPT ![th[t].n] = th[t].head]
    /\ Becomes(t, [th[t] EXCEPT !.at = "open"])
    /\ UNCHANGED <<freeListHead, refs, held>>

PushOpens(t) ==
    /\ At(t, "open")
    /\ refs' = [refs EXCEPT ![th[t].n] = Refs(1, FALSE)]
    /\ Becomes(t, [th[t] EXCEPT !.at = "cas"])
    /\ UNCHANGED <<freeListHead, next, held>>

PushCas(t) ==
    /\ At(t, "cas")
    /\ IF freeListHead = th[t].head
       THEN freeListHead' = th[t].n /\ Becomes(t, GoesOn(th[t].then))
       ELSE /\ Becomes(t, [th[t] EXCEPT !.at = "back", !.head = freeListHead])
            /\ UNCHANGED freeListHead
    /\ UNCHANGED <<next, refs, held>>

Again(count) == count = 1

\* The push failed: whoever brings the count back to zero pushes it.
PushBacksOff(t) ==
    /\ At(t, "back")
    /\ LET n == th[t].n
       IN  /\ refs' = [refs EXCEPT ![n] = Refs(@.count - 1, TRUE)]
           /\ Becomes(t, IF Again(refs[n].count) THEN [th[t] EXCEPT !.at = "link"]
                         ELSE GoesOn(th[t].then))
    /\ UNCHANGED <<freeListHead, next, held>>

-----------------------------------------------------------------------------
(* try_get                                                                 *)

TryGet(t) ==
    /\ At(t, "idle") \/ At(t, "reload")
    /\ Becomes(t, GoesOn(freeListHead))
    /\ UNCHANGED <<freeListHead, next, refs, held>>

LoadCount(t) ==
    /\ At(t, "count")
    /\ Becomes(t, IF refs[th[t].n].count = 0 THEN [at |-> "reload"]
                  ELSE [at |-> "ref", n |-> th[t].n, seen |-> refs[th[t].n]])
    /\ UNCHANGED <<freeListHead, next, refs, held>>

\* Mutant: the count is not compared, only added to.
Blindly(now, seen) == TRUE
Unchanged(now, seen) == now = seen

Ref(t) ==
    /\ At(t, "ref")
    /\ IF Unchanged(refs[th[t].n], th[t].seen)
       THEN /\ refs' = [refs EXCEPT ![th[t].n].count = @ + 1]
            /\ Becomes(t, [at |-> "next", n |-> th[t].n])
       ELSE Becomes(t, [at |-> "reload"]) /\ UNCHANGED refs
    /\ UNCHANGED <<freeListHead, next, held>>

LoadNext(t) ==
    /\ At(t, "next")
    /\ Becomes(t, [at |-> "pop", n |-> th[t].n, next |-> next[th[t].n]])
    /\ UNCHANGED <<freeListHead, next, refs, held>>

\* A failed CAS gives the head with which the loop goes on.
Pop(t) ==
    /\ At(t, "pop")
    /\ IF freeListHead = th[t].n
       THEN freeListHead' = th[t].next /\ Becomes(t, [at |-> "got", n |-> th[t].n])
       ELSE /\ Becomes(t, [at |-> "unref", n |-> th[t].n, then |-> freeListHead])
            /\ UNCHANGED freeListHead
    /\ UNCHANGED <<next, refs, held>>

\* The count gives up our reference and the list's.
Got(t) ==
    /\ At(t, "got")
    /\ refs' = [refs EXCEPT ![th[t].n].count = @ - 2]
    /\ held' = [held EXCEPT ![t] = @ \cup {th[t].n}]
    /\ Becomes(t, Idle)
    /\ UNCHANGED <<freeListHead, next>>

\* Mutant: the last reference is dropped without a look at the flag.
DropsOnly(old) == FALSE
MustPush(old) == old = Refs(1, TRUE)

Unref(t) ==
    /\ At(t, "unref")
    /\ LET n == th[t].n
       IN  /\ refs' = [refs EXCEPT ![n].count = @ - 1]
           /\ Becomes(t, IF MustPush(refs[n]) THEN Pushes(n, th[t].then)
                         ELSE GoesOn(th[t].then))
    /\ UNCHANGED <<freeListHead, next, held>>

Step(t) ==
    \/ PushLoads(t) \/ PushLinks(t) \/ PushOpens(t) \/ PushCas(t) \/ PushBacksOff(t)
    \/ LoadCount(t) \/ Ref(t) \/ LoadNext(t) \/ Pop(t) \/ Got(t) \/ Unref(t)

Next == \E t \in Threads : Add(t) \/ TryGet(t) \/ Step(t)

Spec == Init /\ [][Next]_vars

-----------------------------------------------------------------------------
(* Properties                                                              *)

\* The list: the nodes that a walk from the head along freeListNext meets.
Closed(S) ==
    /\ freeListHead # Null => freeListHead \in S
    /\ \A n \in S : next[n] # Null => next[n] \in S
OnList == {n \in Nodes : \A S \in SUBSET Nodes : Closed(S) => n \in S}

\* No block is handed to two threads, and none that a thread has is in the list:
\* two producers would otherwise write their elements over each other.
OneOwner ==
    /\ \A t, u \in Threads : t # u => held[t] \cap held[u] = {}
    /\ \A t \in Threads : held[t] \cap OnList = {}
    /\ \A t \in Threads : At(t, "got") => \A u \in Threads : th[t].n \notin held[u]

\* No block is lost: when nobody is in a call, each is held or in the list.
NoneLost ==
    (\A t \in Threads : th[t] = Idle) =>
        (UNION {held[t] : t \in Threads}) \cup OnList = Nodes
=============================================================================
