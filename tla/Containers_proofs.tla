-------------------------- MODULE Containers_proofs --------------------------
(***************************************************************************)
(* For any threads and any blocks: a block of the free list has one owner  *)
(* and none is lost, whatever the interleaving.  The same holds of the     *)
(* composition that the run checks, and in it the stream is a byte queue,  *)
(* which Stream_proofs shows of the stream alone.                          *)
(***************************************************************************)
EXTENDS MCContainers, FiniteSetTheorems, TLAPS

\* What a thread is doing, by the step it is before.
ThreadState ==
    [at : {"idle", "reload"}]
    \cup [at : {"count", "next", "got"}, n : Nodes]
    \cup [at : {"ref"}, n : Nodes, seen : [count : Nat \ {0}, should : BOOLEAN]]
    \cup [at : {"pop"}, n : Nodes, next : Nodes \cup {Null}]
    \cup [at : {"unref", "load"}, n : Nodes, then : Nodes \cup {Null}]
    \cup [at : {"link", "open", "cas", "back"}, n : Nodes, then : Nodes \cup {Null},
          head : Nodes \cup {Null}]

TypeInv ==
    /\ freeListHead \in Nodes \cup {Null}
    /\ next \in [Nodes -> Nodes \cup {Null}]
    /\ refs \in [Nodes -> [count : Nat, should : BOOLEAN]]
    /\ held \in [Threads -> SUBSET Nodes]
    /\ th \in [Threads -> ThreadState]

\* Who has to do with a node: the threads that own it, that took it from the list,
\* that will put it there and have not opened it to others yet, that have, and those
\* that hold a reference because they want to take it.
With(n, ats) == {t \in Threads : th[t].at \in ats /\ th[t].n = n}
Owners(n) == {t \in Threads : n \in held[t]}
Takers(n) == With(n, {"got"})
Openers(n) == With(n, {"load", "link", "open"})
Pushers(n) == With(n, {"cas", "back"})
Users(n) == With(n, {"next", "pop", "unref"})


\* The places a node can be in, each with what its references then are: it has an
\* owner; it was taken, and the list's reference is not given up yet; it will be put on
\* the list, still closed to others, or open; it is on the list; or nobody has it
\* and the last of its users will put it there.
Fits(owners, takers, openers, pushers, users, listed, r) ==
    \/ /\ \E t \in Threads : owners = {t}
       /\ takers = {} /\ openers = {} /\ pushers = {} /\ ~ listed
       /\ r = Refs(Cardinality(users), FALSE)
    \/ /\ \E t \in Threads : takers = {t}
       /\ owners = {} /\ openers = {} /\ pushers = {} /\ ~ listed
       /\ r = Refs(Cardinality(users) + 2, FALSE)
    \/ /\ \E t \in Threads : openers = {t}
       /\ owners = {} /\ takers = {} /\ pushers = {} /\ ~ listed
       /\ users = {} /\ r = Refs(0, TRUE)
    \/ /\ \E t \in Threads : pushers = {t}
       /\ owners = {} /\ takers = {} /\ openers = {} /\ ~ listed
       /\ r = Refs(Cardinality(users) + 1, FALSE)
    \/ /\ listed
       /\ owners = {} /\ takers = {} /\ openers = {} /\ pushers = {}
       /\ r = Refs(Cardinality(users) + 1, FALSE)
    \/ /\ owners = {} /\ takers = {} /\ openers = {} /\ pushers = {} /\ ~ listed
       /\ users # {} /\ r = Refs(Cardinality(users), TRUE)

Fine(n) ==
    Fits(Owners(n), Takers(n), Openers(n), Pushers(n), Users(n), n \in OnList, refs[n])

\* The list has no branch and no way back to its head.
Chain ==
    /\ \A n \in OnList : next[n] # Null => next[n] # freeListHead
    /\ \A m, n \in OnList : next[m] = next[n] /\ next[m] # Null => m = n

\* Whoever is about to take a node, or to put it on the list, knows its successor.
Known ==
    \A t \in Threads :
        /\ th[t].at = "pop" => th[t].next = next[th[t].n]
        /\ th[t].at \in {"open", "cas"} => th[t].head = next[th[t].n]

IInv ==
    /\ TypeInv
    /\ \A n \in Nodes : Fine(n)
    /\ Chain
    /\ Known
-----------------------------------------------------------------------------
(* The list                                                                *)

\* What a walk from h meets, if nx are the successors.
Holds(S, h, nx) == (h # Null => h \in S) /\ \A n \in S : nx[n] # Null => nx[n] \in S
From(h, nx) == {n \in Nodes : \A S \in SUBSET Nodes : Holds(S, h, nx) => n \in S}

Chained(h, nx) ==
    /\ \A n \in From(h, nx) : nx[n] # Null => nx[n] # h
    /\ \A m, n \in From(h, nx) : nx[m] = nx[n] /\ nx[m] # Null => m = n

Link == Nodes \cup {Null}

\* No block is Null.
LEMMA NullApart == Null \notin Nodes
BY PoolAssumption DEF Null

LEMMA ListIs ==
    /\ OnList = From(freeListHead, next) /\ (Chain <=> Chained(freeListHead, next))
    /\ OnList' = From(freeListHead', next') /\ (Chain' <=> Chained(freeListHead', next'))
BY DEF OnList, Closed, From, Holds, Chain, Chained

\* The walk is closed, and in every closed set.
LEMMA FromLeast ==
    ASSUME NEW h \in Link, NEW nx \in [Nodes -> Link]
    PROVE  /\ From(h, nx) \in SUBSET Nodes /\ Holds(From(h, nx), h, nx)
           /\ \A S \in SUBSET Nodes : Holds(S, h, nx) => From(h, nx) \subseteq S
<1>1. h # Null => h \in From(h, nx)
  BY DEF From, Holds, Link
<1>2. ASSUME NEW n \in From(h, nx), nx[n] # Null PROVE nx[n] \in From(h, nx)
  <2>1. n \in Nodes /\ nx[n] \in Nodes
    BY <1>2 DEF From, Link
  <2>2. ASSUME NEW S \in SUBSET Nodes, Holds(S, h, nx) PROVE nx[n] \in S
    BY <1>2, <2>2 DEF From, Holds
  <2> QED BY <2>1, <2>2 DEF From
<1> QED BY <1>1, <1>2 DEF From, Holds

Relinked(nx, m, x) == [nx EXCEPT ![m] = x]

\* A node that is not on the list may have any successor.
LEMMA Linked ==
    ASSUME NEW h \in Link, NEW nx \in [Nodes -> Link], NEW m \in Nodes \ From(h, nx), NEW x \in Link,
           Chained(h, nx)
    PROVE  /\ From(h, Relinked(nx, m, x)) = From(h, nx)
           /\ Chained(h, Relinked(nx, m, x))
<1> DEFINE ny == Relinked(nx, m, x)
           L == From(h, nx)
           K == From(h, ny)
<1>1. ny \in [Nodes -> Link] /\ \A n \in Nodes \ {m} : ny[n] = nx[n]
  BY DEF Relinked
<1> HIDE DEF ny
<1>2. /\ L \in SUBSET Nodes /\ Holds(L, h, nx)
      /\ \A S \in SUBSET Nodes : Holds(S, h, nx) => L \subseteq S
  BY FromLeast
<1>3. /\ K \in SUBSET Nodes /\ Holds(K, h, ny)
      /\ \A S \in SUBSET Nodes : Holds(S, h, ny) => K \subseteq S
  BY <1>1, FromLeast
<1>4. m \notin L
  OBVIOUS
<1>5. \A n \in L : ny[n] = nx[n]
  BY <1>1, <1>2, <1>4
<1>6. Chained(h, nx) <=> (/\ \A n \in L : nx[n] # Null => nx[n] # h
                          /\ \A a, n \in L : nx[a] = nx[n] /\ nx[a] # Null => a = n)
  BY DEF Chained
<1>7. Chained(h, ny) <=> (/\ \A n \in K : ny[n] # Null => ny[n] # h
                          /\ \A a, n \in K : ny[a] = ny[n] /\ ny[a] # Null => a = n)
  BY DEF Chained
<1> HIDE DEF L, K
<1>8. Holds(L, h, ny)
  BY <1>2, <1>5 DEF Holds
<1>9. Holds(K \cap L, h, nx)
  BY <1>2, <1>3, <1>5 DEF Holds
<1>10. K = L
  BY <1>2, <1>3, <1>8, <1>9
<1>11. Chained(h, ny)
  BY <1>5, <1>6, <1>7, <1>10
<1> QED BY <1>1, <1>10, <1>11 DEF ny, K, L

\* A node whose successor is the head becomes the head.
LEMMA Pushed ==
    ASSUME NEW h \in Link, NEW nx \in [Nodes -> Link], NEW n \in Nodes \ From(h, nx), nx[n] = h,
           Chained(h, nx)
    PROVE  From(n, nx) = From(h, nx) \cup {n} /\ Chained(n, nx)
<1> DEFINE L == From(h, nx)
           K == From(n, nx)
<1>1. n \in Nodes /\ n # Null /\ n \notin L
  BY NullApart
<1>2. /\ L \in SUBSET Nodes /\ Holds(L, h, nx)
      /\ \A S \in SUBSET Nodes : Holds(S, h, nx) => L \subseteq S
  BY FromLeast
<1>3. /\ K \in SUBSET Nodes /\ Holds(K, n, nx)
      /\ \A S \in SUBSET Nodes : Holds(S, n, nx) => K \subseteq S
  BY <1>1, FromLeast DEF Link
<1>4. /\ \A a \in L : nx[a] # Null => nx[a] # h
      /\ \A a, b \in L : nx[a] = nx[b] /\ nx[a] # Null => a = b
  BY DEF Chained
<1>5. Chained(n, nx) <=> (/\ \A a \in K : nx[a] # Null => nx[a] # n
                          /\ \A a, b \in K : nx[a] = nx[b] /\ nx[a] # Null => a = b)
  BY DEF Chained
<1> HIDE DEF L, K
<1>6. Holds(L \cup {n}, n, nx)
  BY <1>2 DEF Holds
<1>7. Holds(K, h, nx)
  BY <1>1, <1>3 DEF Holds
<1>8. K = L \cup {n}
  <2>1. K \subseteq L \cup {n}
    BY <1>1, <1>2, <1>3, <1>6
  <2>2. L \subseteq K /\ n \in K
    BY <1>1, <1>2, <1>3, <1>7 DEF Holds
  <2> QED BY <2>1, <2>2
<1>9. \A a \in K : nx[a] # Null => nx[a] # n
  BY <1>1, <1>2, <1>8 DEF Holds
<1>10. \A a, b \in K : nx[a] = nx[b] /\ nx[a] # Null => a = b
  BY <1>4, <1>8
<1> QED BY <1>5, <1>8, <1>9, <1>10 DEF K, L

\* The head leaves the list.
LEMMA Popped ==
    ASSUME NEW h \in Nodes, NEW nx \in [Nodes -> Link], Chained(h, nx)
    PROVE  From(nx[h], nx) = From(h, nx) \ {h} /\ Chained(nx[h], nx) /\ h \in From(h, nx)
<1> DEFINE g == nx[h]
           L == From(h, nx)
           K == From(g, nx)
<1>1. h # Null /\ g \in Link /\ h \in Link
  BY NullApart DEF Link
<1>2. /\ L \in SUBSET Nodes /\ Holds(L, h, nx)
      /\ \A S \in SUBSET Nodes : Holds(S, h, nx) => L \subseteq S
  BY <1>1, FromLeast
<1>3. /\ K \in SUBSET Nodes /\ Holds(K, g, nx)
      /\ \A S \in SUBSET Nodes : Holds(S, g, nx) => K \subseteq S
  BY <1>1, FromLeast
<1>4. /\ \A a \in L : nx[a] # Null => nx[a] # h
      /\ \A a, b \in L : nx[a] = nx[b] /\ nx[a] # Null => a = b
  BY DEF Chained
<1>5. Chained(g, nx) <=> (/\ \A a \in K : nx[a] # Null => nx[a] # g
                          /\ \A a, b \in K : nx[a] = nx[b] /\ nx[a] # Null => a = b)
  BY DEF Chained
<1> HIDE DEF L, K
<1>6. h \in L
  BY <1>1, <1>2 DEF Holds
<1>7. Holds(L \ {h}, g, nx)
  BY <1>2, <1>4, <1>6 DEF Holds
<1>8. Holds(K \cup {h}, h, nx)
  BY <1>3 DEF Holds
<1>9. K \cup {h} \in SUBSET Nodes /\ L \ {h} \in SUBSET Nodes
  BY <1>2, <1>3
<1>10. K \subseteq L \ {h} /\ L \subseteq K \cup {h}
  BY <1>2, <1>3, <1>7, <1>8, <1>9
<1>11. K = L \ {h}
  BY <1>10
<1>12. \A a \in K : nx[a] # Null => nx[a] # g
  BY <1>4, <1>6, <1>11
<1>13. \A a, b \in K : nx[a] = nx[b] /\ nx[a] # Null => a = b
  BY <1>4, <1>11
<1> QED BY <1>5, <1>6, <1>11, <1>12, <1>13 DEF K, L
-----------------------------------------------------------------------------
(* Threads and references                                                  *)

Linking == {"link", "open", "cas", "back"}

\* The fields that a thread has where it is.
LEMMA Fields ==
    ASSUME NEW st \in ThreadState
    PROVE  /\ st.at \in {"idle", "reload", "count", "next", "got", "ref", "pop", "unref", "load"}
                         \cup Linking
           /\ st.at \notin {"idle", "reload"} => st.n \in Nodes
           /\ st.at = "ref" => st.seen.count \in Nat \ {0}
           /\ st.at = "pop" => st.next \in Link
           /\ st.at \in {"unref", "load"} \cup Linking => st.then \in Link
           /\ st.at \in Linking => st.head \in Link
BY DEF ThreadState, Link, Linking

LEMMA Linkers ==
    ASSUME NEW st \in ThreadState, st.at \in Linking
    PROVE  st \in [at : Linking, n : Nodes, then : Link, head : Link]
BY DEF ThreadState, Link, Linking

\* What a thread may become.
LEMMA Forms ==
    ASSUME NEW n \in Nodes, NEW x \in Link, NEW y \in Link
    PROVE  /\ Idle \in ThreadState /\ [at |-> "reload"] \in ThreadState
           /\ [at |-> "next", n |-> n] \in ThreadState
           /\ [at |-> "got", n |-> n] \in ThreadState
           /\ [at |-> "count", n |-> n] \in ThreadState
           /\ [at |-> "pop", n |-> n, next |-> x] \in ThreadState
           /\ [at |-> "unref", n |-> n, then |-> x] \in ThreadState
           /\ [at |-> "load", n |-> n, then |-> x] \in ThreadState
           /\ [at |-> "link", n |-> n, then |-> x, head |-> y] \in ThreadState
           /\ \A r \in [count : Nat, should : BOOLEAN] :
                r.count # 0 => [at |-> "ref", n |-> n, seen |-> r] \in ThreadState
<1>1. ASSUME NEW r \in [count : Nat, should : BOOLEAN], r.count # 0
      PROVE  [at |-> "ref", n |-> n, seen |-> r] \in ThreadState
  <2>1. r \in [count : Nat \ {0}, should : BOOLEAN]
    BY <1>1
  <2> QED BY <2>1 DEF ThreadState
<1> QED BY <1>1 DEF ThreadState, Idle, Link

LEMMA NullForms ==
    ASSUME NEW x \in Link
    PROVE  GoesOn(x) \in ThreadState /\ GoesOn(x).at \in {"idle", "count"}
BY DEF GoesOn, Idle, Link, ThreadState

\* What a step of one thread changes of who has to do with a node.
LEMMA WithAfter ==
    ASSUME TypeInv, NEW t \in Threads, NEW x, Becomes(t, x), NEW n, NEW ats
    PROVE  With(n, ats)' = IF x.at \in ats /\ x.n = n THEN With(n, ats) \cup {t}
                           ELSE With(n, ats) \ {t}
<1>1. th'[t] = x /\ \A u \in Threads \ {t} : th'[u] = th[u]
  BY DEF TypeInv, Becomes
<1> QED BY <1>1 DEF With

Plays(st, n, ats) == st.at \in ats /\ st.n = n

Parts4 == {{"got"}, {"load", "link", "open"}, {"cas", "back"}, {"next", "pop", "unref"}}

\* A node for which the thread is what it was, is as it was.
LEMMA Stays ==
    ASSUME TypeInv, NEW t \in Threads, NEW x, Becomes(t, x), NEW n \in Nodes,
           \A ats \in Parts4 : Plays(x, n, ats) <=> Plays(th[t], n, ats),
           Owners(n)' = Owners(n), n \in OnList' <=> n \in OnList, refs'[n] = refs[n], Fine(n)
    PROVE  Fine(n)'
<1>1. ASSUME NEW ats \in Parts4 PROVE With(n, ats)' = With(n, ats)
  <2> DEFINE W == With(n, ats)
  <2>1. t \in W <=> Plays(th[t], n, ats)
    BY DEF With, Plays
  <2>2. W' = IF Plays(x, n, ats) THEN W \cup {t} ELSE W \ {t}
    BY WithAfter DEF Plays
  <2>3. Plays(x, n, ats) <=> Plays(th[t], n, ats)
    OBVIOUS
  <2>4. CASE Plays(x, n, ats)
    <3> HIDE DEF W
    <3>1. W' = W
      BY <2>1, <2>2, <2>3, <2>4
    <3> QED BY <3>1 DEF W
  <2>5. CASE ~ Plays(x, n, ats)
    <3> HIDE DEF W
    <3>1. W' = W
      BY <2>1, <2>2, <2>3, <2>5
    <3> QED BY <3>1 DEF W
  <2> QED BY <2>4, <2>5
<1>2. /\ Takers(n)' = Takers(n) /\ Openers(n)' = Openers(n)
      /\ Pushers(n)' = Pushers(n) /\ Users(n)' = Users(n)
  BY <1>1 DEF Parts4, Takers, Openers, Pushers, Users
<1>3. Fine(n)' <=> Fits(Owners(n)', Takers(n)', Openers(n)', Pushers(n)', Users(n)',
                        n \in OnList', refs'[n])
  BY DEF Fine
<1> QED BY <1>2, <1>3 DEF Fine

\* What a thread is says who is what to a node.
LEMMA Roles ==
    ASSUME NEW t \in Threads, NEW n
    PROVE  /\ t \in Takers(n) <=> th[t].at = "got" /\ th[t].n = n
           /\ t \in Openers(n) <=> th[t].at \in {"load", "link", "open"} /\ th[t].n = n
           /\ t \in Pushers(n) <=> th[t].at \in {"cas", "back"} /\ th[t].n = n
           /\ t \in Users(n) <=> th[t].at \in {"next", "pop", "unref"} /\ th[t].n = n
           /\ t \in Owners(n) <=> n \in held[t]
BY DEF Takers, Openers, Pushers, Users, Owners, With

\* Counting with one thread more or less.
Counts(U, t) ==
    /\ Cardinality(U) \in Nat /\ (Cardinality(U) = 0 <=> U = {})
    /\ t \notin U => Cardinality(U \cup {t}) = Cardinality(U) + 1 /\ U \ {t} = U
    /\ t \in U => Cardinality(U \ {t}) = Cardinality(U) - 1 /\ U \cup {t} = U

LEMMA Counted ==
    ASSUME NEW n, NEW t \in Threads
    PROVE  Counts(Users(n), t)
<1> DEFINE U == Users(n)
<1>1. U \in SUBSET Threads
  BY DEF Users, With
<1> HIDE DEF U
<1>2. IsFiniteSet(U)
  BY <1>1, PoolAssumption, FS_Subset
<1>3. /\ Cardinality(U) \in Nat /\ (Cardinality(U) = 0 <=> U = {})
      /\ t \notin U => Cardinality(U \cup {t}) = Cardinality(U) + 1
      /\ t \in U => Cardinality(U \ {t}) = Cardinality(U) - 1
  BY <1>2, FS_CardinalityType, FS_EmptySet, FS_AddElement, FS_RemoveElement
<1>4. (t \notin U => U \ {t} = U) /\ (t \in U => U \cup {t} = U)
  OBVIOUS
<1>5. Counts(U, t)
  BY <1>3, <1>4 DEF Counts
<1> QED BY <1>5 DEF U

Turns(t, x, n) ==
    /\ Takers(n)' = IF x.at = "got" /\ x.n = n THEN Takers(n) \cup {t} ELSE Takers(n) \ {t}
    /\ Openers(n)' = IF x.at \in {"load", "link", "open"} /\ x.n = n
                     THEN Openers(n) \cup {t} ELSE Openers(n) \ {t}
    /\ Pushers(n)' = IF x.at \in {"cas", "back"} /\ x.n = n
                     THEN Pushers(n) \cup {t} ELSE Pushers(n) \ {t}
    /\ Users(n)' = IF x.at \in {"next", "pop", "unref"} /\ x.n = n
                   THEN Users(n) \cup {t} ELSE Users(n) \ {t}

\* What a step of one thread makes of all that have to do with a node.
LEMMA RolesAfter ==
    ASSUME TypeInv, NEW t \in Threads, NEW x, Becomes(t, x), NEW n
    PROVE  Turns(t, x, n)
<1> DEFINE A == {"got"}
           B == {"load", "link", "open"}
           C == {"cas", "back"}
           D == {"next", "pop", "unref"}
           After(ats) == With(n, ats)' = IF x.at \in ats /\ x.n = n THEN With(n, ats) \cup {t}
                                         ELSE With(n, ats) \ {t}
<1>1. After(A) /\ After(B) /\ After(C) /\ After(D)
  <2> HIDE DEF A, B, C, D
  <2> QED BY WithAfter
<1>2. Takers(n)' = IF x.at = "got" /\ x.n = n THEN Takers(n) \cup {t} ELSE Takers(n) \ {t}
  BY <1>1 DEF Takers
<1>3. /\ Openers(n)' = IF x.at \in B /\ x.n = n THEN Openers(n) \cup {t} ELSE Openers(n) \ {t}
      /\ Pushers(n)' = IF x.at \in C /\ x.n = n THEN Pushers(n) \cup {t} ELSE Pushers(n) \ {t}
      /\ Users(n)' = IF x.at \in D /\ x.n = n THEN Users(n) \cup {t} ELSE Users(n) \ {t}
  BY <1>1 DEF Openers, Pushers, Users
<1> QED BY <1>2, <1>3 DEF Turns

Busy == {"got", "load", "link", "open", "cas", "back", "next", "pop", "unref"}

\* A step that has to do with one node leaves the others as they are.
LEMMA Elsewhere ==
    ASSUME TypeInv, NEW t \in Threads, NEW x, Becomes(t, x), NEW m, NEW n \in Nodes \ {m},
           x.at \in Busy => x.n = m, th[t].at \in Busy => th[t].n = m,
           Owners(n)' = Owners(n), n \in OnList' <=> n \in OnList, refs'[n] = refs[n], Fine(n)
    PROVE  Fine(n)'
<1>1. \A ats \in Parts4 : ats \subseteq Busy
  BY DEF Parts4, Busy
<1>2. \A ats \in Parts4 : ~ Plays(x, n, ats) /\ ~ Plays(th[t], n, ats)
  BY <1>1 DEF Plays
<1> QED BY <1>2, Stays

\* The others know what they knew.
LEMMA KnownStays ==
    ASSUME TypeInv, NEW t \in Threads, NEW x, Becomes(t, x), next' = next,
           Known,
           x.at = "pop" => x.next = next[x.n], x.at \in {"open", "cas"} => x.head = next[x.n]
    PROVE  Known'
<1>1. th'[t] = x /\ \A u \in Threads \ {t} : th'[u] = th[u]
  BY DEF TypeInv, Becomes
<1> QED BY <1>1 DEF Known

\* A step that changes nothing but what the thread is doing, and that no role.
LEMMA OnlyThread ==
    ASSUME IInv, NEW t \in Threads, NEW x \in ThreadState, Becomes(t, x),
           UNCHANGED <<freeListHead, next, refs, held>>,
           \A ats \in Parts4, n \in Nodes : Plays(x, n, ats) <=> Plays(th[t], n, ats),
           x.at = "pop" => x.next = next[x.n], x.at \in {"open", "cas"} => x.head = next[x.n]
    PROVE  IInv'
<1>1. TypeInv'
  BY DEF IInv, TypeInv, Becomes
<1>2. OnList' = OnList /\ Chain'
  BY ListIs DEF IInv
<1>3. \A n \in Nodes : Owners(n)' = Owners(n) /\ refs'[n] = refs[n]
  BY DEF Owners
<1>4. \A n \in Nodes : Fine(n)'
  BY <1>2, <1>3, Stays DEF IInv
<1>5. Known'
  BY KnownStays DEF IInv
<1> QED BY <1>1, <1>2, <1>4, <1>5 DEF IInv

\* What a step that has to do with one node leaves alone.
Only(m) ==
    \A n \in Nodes \ {m} :
        Owners(n)' = Owners(n) /\ refs'[n] = refs[n] /\ (n \in OnList' <=> n \in OnList)

LEMMA OneNode ==
    ASSUME IInv, NEW t \in Threads, NEW m \in Nodes, NEW x \in ThreadState, Becomes(t, x),
           x.at \in Busy => x.n = m, th[t].at \in Busy => th[t].n = m,
           freeListHead' \in Link, next' \in [Nodes -> Link],
           refs' \in [Nodes -> [count : Nat, should : BOOLEAN]],
           held' \in [Threads -> SUBSET Nodes],
           Only(m), Fine(m)', Chain', Known'
    PROVE  IInv'
<1>1. th' \in [Threads -> ThreadState]
  BY DEF IInv, TypeInv, Becomes
<1>2. TypeInv'
  BY <1>1 DEF TypeInv, Link
<1>3. ASSUME NEW n \in Nodes \ {m} PROVE Fine(n)'
  <2>1. TypeInv /\ Fine(n)
    BY DEF IInv
  <2>2. Owners(n)' = Owners(n) /\ refs'[n] = refs[n] /\ (n \in OnList' <=> n \in OnList)
    BY DEF Only
  <2> QED BY <2>1, <2>2, Elsewhere
<1>4. \A n \in Nodes : Fine(n)'
  BY <1>3
<1> QED BY <1>2, <1>4 DEF IInv

LEMMA FineThen ==
    ASSUME NEW n
    PROVE  Fine(n)' <=> Fits(Owners(n)', Takers(n)', Openers(n)', Pushers(n)', Users(n)',
                             n \in OnList', refs'[n])
BY DEF Fine

-----------------------------------------------------------------------------
(* Steps                                                                   *)

\* An owner gives its block up: it pushes it itself, or its last user will.
LEMMA AddKeeps ==
    ASSUME IInv, NEW t \in Threads, Add(t)
    PROVE  IInv'
<1>1. PICK m \in held[t] :
        /\ held' = [held EXCEPT ![t] = @ \ {m}]
        /\ refs' = [refs EXCEPT ![m].should = TRUE]
        /\ Becomes(t, IF refs[m].count = 0 THEN Pushes(m, Null) ELSE Idle)
  BY DEF Add
<1>2. PICK x \in {Pushes(m, Null), Idle} :
        Becomes(t, x) /\ x = IF refs[m].count = 0 THEN Pushes(m, Null) ELSE Idle
  BY <1>1
<1>3. /\ TypeInv /\ m \in Nodes /\ th[t].at = "idle" /\ Fine(m)
      /\ freeListHead' = freeListHead /\ next' = next
  BY <1>1 DEF IInv, TypeInv, Add, At
<1>4. /\ x \in ThreadState
      /\ refs[m].count = 0 => x.at = "load" /\ x.n = m
      /\ refs[m].count # 0 => x.at = "idle"
  <2>1. Pushes(m, Null) \in ThreadState /\ Idle \in ThreadState
    BY <1>3, Forms DEF Pushes, Link
  <2> QED BY <1>2, <2>1 DEF Pushes, Idle
<1>5. /\ refs'[m] = Refs(refs[m].count, TRUE) /\ refs' \in [Nodes -> [count : Nat, should : BOOLEAN]]
      /\ \A n \in Nodes \ {m} : refs'[n] = refs[n]
  BY <1>1, <1>3 DEF TypeInv, Refs
<1>6. OnList' = OnList /\ Chain'
  BY <1>3, ListIs DEF IInv
<1>7. Owners(m)' = Owners(m) \ {t} /\ \A n \in Nodes \ {m} : Owners(n)' = Owners(n)
  BY <1>1, <1>3 DEF Owners, TypeInv
<1>8. Only(m)
  BY <1>5, <1>6, <1>7 DEF Only
<1>9. Fine(m)'
  <2>1. t \in Owners(m)
    BY <1>1 DEF Owners
  <2>2. /\ Owners(m) = {t} /\ Takers(m) = {} /\ Openers(m) = {} /\ Pushers(m) = {} /\ m \notin OnList
        /\ refs[m] = Refs(Cardinality(Users(m)), FALSE)
    BY <1>3, <2>1 DEF Fine, Fits
  <2>3. Turns(t, x, m)
    BY <1>2, <1>3, RolesAfter
  <2>4. /\ Owners(m)' = {} /\ Takers(m)' = {} /\ Pushers(m)' = {} /\ m \notin OnList'
        /\ Openers(m)' = (IF refs[m].count = 0 THEN {t} ELSE {})
    <3>1. CASE refs[m].count = 0
      BY <1>4, <1>6, <1>7, <2>2, <2>3, <3>1 DEF Turns
    <3>2. CASE refs[m].count # 0
      BY <1>4, <1>6, <1>7, <2>2, <2>3, <3>2 DEF Turns
    <3> QED BY <3>1, <3>2
  <2>5. Counts(Users(m), t)
    BY Counted
  <2>6. Users(m)' = Users(m)
    <3>1. x.at \notin {"next", "pop", "unref"} /\ th[t].at = "idle"
      BY <1>3, <1>4
    <3>2. t \notin Users(m)
      BY <3>1, Roles
    <3> QED BY <2>3, <2>5, <3>1, <3>2 DEF Turns, Counts
  <2>7. refs[m].count = Cardinality(Users(m)) /\ (Cardinality(Users(m)) = 0 <=> Users(m) = {})
    BY <2>2, <2>5 DEF Refs, Counts
  <2> QED BY <1>5, <2>4, <2>6, <2>7, FineThen DEF Fits
<1>10. Known'
  BY <1>2, <1>3, <1>4, KnownStays DEF IInv
<1>11. (x.at \in Busy => x.n = m) /\ (th[t].at \in Busy => th[t].n = m)
  BY <1>3, <1>4 DEF Busy
<1>12. held' \in [Threads -> SUBSET Nodes] /\ freeListHead' \in Link /\ next' \in [Nodes -> Link]
  BY <1>1, <1>3 DEF TypeInv, Link
<1> QED BY <1>2, <1>3, <1>4, <1>5, <1>6, <1>8, <1>9, <1>10, <1>11, <1>12, OneNode

\* A thread that reads the head, the next node or the count changes no node.
LEMMA ReadsKeep ==
    ASSUME IInv, NEW t \in Threads, PushLoads(t) \/ TryGet(t) \/ LoadCount(t) \/ LoadNext(t)
    PROVE  IInv'
<1>1. TypeInv /\ th[t] \in ThreadState /\ freeListHead \in Link
  BY DEF IInv, TypeInv, Link
<1>2. UNCHANGED <<freeListHead, next, refs, held>>
  BY DEF PushLoads, TryGet, LoadCount, LoadNext
<1>3. CASE PushLoads(t)
  <2>1. PICK x : /\ Becomes(t, x)
                 /\ x = [at |-> "link", n |-> th[t].n, then |-> th[t].then, head |-> freeListHead]
    BY <1>3 DEF PushLoads
  <2>2. th[t].at = "load" /\ th[t].n \in Nodes /\ th[t].then \in Link
    BY <1>1, <1>3, Fields DEF PushLoads, At
  <2>3. x \in ThreadState /\ x.at = "link" /\ x.n = th[t].n
    BY <1>1, <2>1, <2>2, Forms
  <2>4. \A ats \in Parts4, n \in Nodes : Plays(x, n, ats) <=> Plays(th[t], n, ats)
    BY <2>2, <2>3 DEF Plays, Parts4
  <2> QED BY <1>2, <2>1, <2>3, <2>4, OnlyThread
<1>4. CASE TryGet(t)
  <2>1. Becomes(t, GoesOn(freeListHead)) /\ th[t].at \in {"idle", "reload"}
    BY <1>4 DEF TryGet, At
  <2>2. PICK x : Becomes(t, x) /\ x = GoesOn(freeListHead)
    BY <2>1
  <2>3. x \in ThreadState /\ x.at \in {"idle", "count"}
    BY <1>1, <2>2, NullForms
  <2>4. \A ats \in Parts4, n \in Nodes : Plays(x, n, ats) <=> Plays(th[t], n, ats)
    BY <2>1, <2>3 DEF Plays, Parts4
  <2> QED BY <1>2, <2>2, <2>3, <2>4, OnlyThread
<1>5. CASE LoadCount(t)
  <2>1. th[t].at = "count" /\ th[t].n \in Nodes
    BY <1>1, <1>5, Fields DEF LoadCount, At
  <2>2. PICK x : /\ Becomes(t, x)
                 /\ x = IF refs[th[t].n].count = 0 THEN [at |-> "reload"]
                        ELSE [at |-> "ref", n |-> th[t].n, seen |-> refs[th[t].n]]
    BY <1>5 DEF LoadCount
  <2>3. x \in ThreadState /\ x.at \in {"reload", "ref"}
    <3>1. refs[th[t].n] \in [count : Nat, should : BOOLEAN]
      BY <1>1, <2>1 DEF TypeInv
    <3>2. Null \in Link
      BY DEF Link
    <3> QED BY <2>1, <2>2, <3>1, <3>2, Forms
  <2>4. \A ats \in Parts4, n \in Nodes : Plays(x, n, ats) <=> Plays(th[t], n, ats)
    BY <2>1, <2>3 DEF Plays, Parts4
  <2> QED BY <1>2, <2>2, <2>3, <2>4, OnlyThread
<1>6. CASE LoadNext(t)
  <2>1. th[t].at = "next" /\ th[t].n \in Nodes
    BY <1>1, <1>6, Fields DEF LoadNext, At
  <2>2. PICK x : Becomes(t, x) /\ x = [at |-> "pop", n |-> th[t].n, next |-> next[th[t].n]]
    BY <1>6 DEF LoadNext
  <2>3. x \in ThreadState /\ x.at = "pop" /\ x.n = th[t].n /\ x.next = next[x.n]
    <3>1. next[th[t].n] \in Link
      BY <1>1, <2>1 DEF TypeInv, Link
    <3> QED BY <2>1, <2>2, <3>1, Forms
  <2>4. \A ats \in Parts4, n \in Nodes : Plays(x, n, ats) <=> Plays(th[t], n, ats)
    BY <2>1, <2>3 DEF Plays, Parts4
  <2> QED BY <1>2, <2>2, <2>3, <2>4, OnlyThread
<1> QED BY <1>3, <1>4, <1>5, <1>6

\* A thread that goes on with the push of its node.
LEMMA Relinks ==
    ASSUME NEW st \in ThreadState, st.at \in Linking, NEW a \in Linking
    PROVE  /\ [st EXCEPT !.at = a] \in ThreadState
           /\ [st EXCEPT !.at = a].at = a /\ [st EXCEPT !.at = a].n = st.n
           /\ [st EXCEPT !.at = a].head = st.head
<1>1. st \in [at : Linking, n : Nodes, then : Link, head : Link]
  BY Linkers
<1>2. [st EXCEPT !.at = a] \in [at : Linking, n : Nodes, then : Link, head : Link]
  BY <1>1
<1>3. [at : Linking, n : Nodes, then : Link, head : Link] \subseteq ThreadState
  BY DEF ThreadState, Linking, Link
<1> QED BY <1>1, <1>2, <1>3

RefsOf(m) ==
    /\ refs' \in [Nodes -> [count : Nat, should : BOOLEAN]]
    /\ \A n \in Nodes \ {m} : refs'[n] = refs[n]

\* A step that changes the references of one node only.
LEMMA OnlyRefs ==
    ASSUME IInv, NEW t \in Threads, NEW m \in Nodes, NEW x \in ThreadState, Becomes(t, x),
           x.at \in Busy => x.n = m, th[t].at \in Busy => th[t].n = m,
           UNCHANGED <<freeListHead, next, held>>, RefsOf(m), Fine(m)',
           x.at # "pop", x.at \in {"open", "cas"} => x.head = next[x.n]
    PROVE  IInv'
<1>1. TypeInv /\ freeListHead' \in Link /\ next' \in [Nodes -> Link]
      /\ held' \in [Threads -> SUBSET Nodes] /\ next' = next
  BY DEF IInv, TypeInv, Link
<1>2. refs' \in [Nodes -> [count : Nat, should : BOOLEAN]]
  BY DEF RefsOf
<1>3. OnList' = OnList /\ Chain'
  BY ListIs DEF IInv
<1>4. Only(m)
  BY <1>3 DEF Only, RefsOf, Owners
<1>5. Known'
  BY <1>1, KnownStays DEF IInv
<1> QED BY <1>1, <1>2, <1>3, <1>4, <1>5, OneNode

\* The pusher opens its node to the others, which have let go of it.
LEMMA PushOpensKeeps ==
    ASSUME IInv, NEW t \in Threads, PushOpens(t)
    PROVE  IInv'
<1>0. /\ TypeInv /\ th[t] \in ThreadState /\ th[t].at = "open"
      /\ refs \in [Nodes -> [count : Nat, should : BOOLEAN]]
  BY DEF IInv, TypeInv, PushOpens, At
<1>m. PICK m \in Nodes : m = th[t].n
  BY <1>0, Fields DEF Linking
<1>1. /\ th[t].n = m /\ Fine(m)
  BY <1>0, <1>m, Fields DEF IInv, Linking
<1>2. PICK x : Becomes(t, x) /\ x = [th[t] EXCEPT !.at = "cas"]
  BY <1>1 DEF PushOpens
<1>3. x \in ThreadState /\ x.at = "cas" /\ x.n = m /\ x.head = next[x.n]
  <2>1. th[t].head = next[m]
    BY <1>0, <1>1 DEF IInv, Known
  <2>2. th[t].at \in Linking /\ "cas" \in Linking /\ Null \in Link
    BY <1>0, <1>1 DEF Linking, Link
  <2> QED BY <1>0, <1>1, <1>2, <2>1, <2>2, Relinks
<1>4. UNCHANGED <<freeListHead, next, held>> /\ refs' = [refs EXCEPT ![m] = Refs(1, FALSE)]
  BY <1>1 DEF PushOpens
<1>5. RefsOf(m) /\ refs'[m] = Refs(1, FALSE)
  BY <1>0, <1>1, <1>4 DEF RefsOf, TypeInv, Refs
<1>6. Owners(m)' = Owners(m) /\ OnList' = OnList
  BY <1>4, ListIs DEF Owners
<1>7. Fine(m)'
  <2>1. t \in Openers(m) /\ t \notin Users(m)
    BY <1>0, <1>1, Roles
  <2>2. /\ Owners(m) = {} /\ Takers(m) = {} /\ Openers(m) = {t} /\ Pushers(m) = {}
        /\ m \notin OnList /\ Users(m) = {}
    BY <1>0, <1>1, <2>1 DEF Fine, Fits
  <2>3. Turns(t, x, m)
    BY <1>0, <1>1, <1>2, RolesAfter
  <2>4. /\ Owners(m)' = {} /\ Takers(m)' = {} /\ Openers(m)' = {} /\ Pushers(m)' = {t}
        /\ m \notin OnList' /\ Users(m)' = {}
    BY <1>3, <1>6, <2>2, <2>3 DEF Turns
  <2>5. refs'[m] = Refs(Cardinality(Users(m)') + 1, FALSE)
    <3>1. Cardinality(Users(m)') + 1 = 1
      BY <2>4, FS_EmptySet
    <3> QED BY <1>5, <3>1
  <2> QED BY <2>4, <2>5, FineThen DEF Fits
<1> QED BY <1>0, <1>1, <1>2, <1>3, <1>4, <1>5, <1>7, OnlyRefs

\* The push failed: the pusher starts again if nobody uses the node, or leaves it to
\* the last of its users.
LEMMA PushBacksOffKeeps ==
    ASSUME IInv, NEW t \in Threads, PushBacksOff(t)
    PROVE  IInv'
<1>0. /\ TypeInv /\ th[t] \in ThreadState /\ th[t].at = "back"
      /\ refs \in [Nodes -> [count : Nat, should : BOOLEAN]]
  BY DEF IInv, TypeInv, PushBacksOff, At
<1>m. PICK m \in Nodes : m = th[t].n
  BY <1>0, Fields DEF Linking
<1>1. /\ th[t].n = m /\ Fine(m)
      /\ th[t].then \in Link
  BY <1>0, <1>m, Fields DEF IInv, Linking
<1>2. t \in Pushers(m) /\ t \notin Users(m)
  BY <1>0, <1>1, Roles
<1>3. /\ Owners(m) = {} /\ Takers(m) = {} /\ Openers(m) = {} /\ Pushers(m) = {t}
      /\ m \notin OnList /\ refs[m] = Refs(Cardinality(Users(m)) + 1, FALSE)
  BY <1>0, <1>1, <1>2 DEF Fine, Fits
<1>4. Counts(Users(m), t)
  BY Counted
<1>5. /\ refs[m].count = Cardinality(Users(m)) + 1 /\ Cardinality(Users(m)) \in Nat
      /\ Cardinality(Users(m)) = 0 <=> Users(m) = {}
      /\ Users(m) \ {t} = Users(m)
  BY <1>2, <1>3, <1>4 DEF Refs, Counts
<1>6. PICK x : /\ Becomes(t, x)
               /\ x = IF Again(refs[m].count) THEN [th[t] EXCEPT !.at = "link"]
                      ELSE GoesOn(th[t].then)
  BY <1>1 DEF PushBacksOff
<1>7. /\ x \in ThreadState
      /\ Users(m) = {} => x.at = "link" /\ x.n = m
      /\ Users(m) # {} => x.at \in {"idle", "count"}
  <2>1. th[t].at \in Linking /\ "link" \in Linking /\ Null \in Link
    BY <1>0, <1>1 DEF Linking, Link
  <2>2. CASE Users(m) = {}
    <3>1. x = [th[t] EXCEPT !.at = "link"]
      BY <1>5, <1>6, <2>2 DEF Again
    <3> QED BY <1>0, <1>1, <2>1, <2>2, <3>1, Relinks
  <2>3. CASE Users(m) # {}
    <3>1. x = GoesOn(th[t].then)
      BY <1>5, <1>6, <2>3 DEF Again
    <3> QED BY <1>0, <1>1, <2>3, <3>1, NullForms
  <2> QED BY <2>2, <2>3
<1>8. /\ UNCHANGED <<freeListHead, next, held>>
      /\ refs' = [refs EXCEPT ![m] = Refs(refs[m].count - 1, TRUE)]
  BY <1>1 DEF PushBacksOff
<1>9. RefsOf(m) /\ refs'[m] = Refs(Cardinality(Users(m)), TRUE)
  <2>1. refs[m].count - 1 \in Nat /\ refs[m].count - 1 = Cardinality(Users(m))
    BY <1>5
  <2>2. RefsOf(m) /\ refs'[m] = Refs(refs[m].count - 1, TRUE)
    BY <1>0, <1>8, <2>1 DEF RefsOf, Refs
  <2> QED BY <2>1, <2>2
<1>10. Owners(m)' = Owners(m) /\ OnList' = OnList
  BY <1>8, ListIs DEF Owners
<1>11. Fine(m)'
  <2>1. Turns(t, x, m)
    BY <1>0, <1>1, <1>6, RolesAfter
  <2>2. /\ Owners(m)' = {} /\ Takers(m)' = {} /\ Pushers(m)' = {} /\ m \notin OnList'
        /\ Users(m)' = Users(m)
        /\ Openers(m)' = (IF Users(m) = {} THEN {t} ELSE {})
    <3>1. CASE Users(m) = {}
      BY <1>3, <1>5, <1>7, <1>10, <2>1, <3>1 DEF Turns
    <3>2. CASE Users(m) # {}
      BY <1>3, <1>5, <1>7, <1>10, <2>1, <3>2 DEF Turns
    <3> QED BY <3>1, <3>2
  <2> QED BY <1>5, <1>9, <2>2, FineThen DEF Fits
<1>12. x.at \in Busy => x.n = m
  BY <1>7 DEF Busy
<1>13. x.at \notin {"pop", "open", "cas"}
  BY <1>7
<1> QED BY <1>0, <1>1, <1>6, <1>7, <1>8, <1>9, <1>11, <1>12, <1>13, OnlyRefs

\* A thread takes a reference only if the count is what it saw, and not zero.
LEMMA RefKeeps ==
    ASSUME IInv, NEW t \in Threads, Ref(t)
    PROVE  IInv'
<1>0. /\ TypeInv /\ th[t] \in ThreadState /\ th[t].at = "ref"
      /\ refs \in [Nodes -> [count : Nat, should : BOOLEAN]]
  BY DEF IInv, TypeInv, Ref, At
<1>m. PICK m \in Nodes : m = th[t].n
  BY <1>0, Fields DEF Linking
<1>1. /\ th[t].n = m /\ Fine(m)
      /\ th[t].seen.count \in Nat \ {0}
  BY <1>0, <1>m, Fields DEF IInv, Linking
<1>2. Null \in Link
  BY DEF Link
<1>3. CASE Unchanged(refs[m], th[t].seen)
  <2>1. PICK x : Becomes(t, x) /\ x = [at |-> "next", n |-> m]
    BY <1>1, <1>3 DEF Ref
  <2>2. x \in ThreadState /\ x.at = "next" /\ x.n = m
    BY <1>0, <1>1, <1>2, <2>1, Forms
  <2>3. refs[m].count # 0
    BY <1>0, <1>1, <1>3 DEF Unchanged
  <2>4. UNCHANGED <<freeListHead, next, held>> /\ refs' = [refs EXCEPT ![m].count = @ + 1]
    BY <1>1, <1>3 DEF Ref
  <2>5. t \notin Takers(m) /\ t \notin Openers(m) /\ t \notin Pushers(m) /\ t \notin Users(m)
    BY <1>0, <1>1, Roles
  <2>6. RefsOf(m) /\ refs'[m] = Refs(refs[m].count + 1, refs[m].should)
    BY <1>0, <1>1, <2>4 DEF RefsOf, TypeInv, Refs
  <2>7. Owners(m)' = Owners(m) /\ OnList' = OnList
    BY <2>4, ListIs DEF Owners
  <2>8. Turns(t, x, m)
    BY <1>0, <1>1, <2>1, RolesAfter
  <2>9. Counts(Users(m), t)
    BY Counted
  <2>10. /\ Takers(m)' = Takers(m) /\ Openers(m)' = Openers(m) /\ Pushers(m)' = Pushers(m)
         /\ Users(m)' = Users(m) \cup {t}
    BY <2>2, <2>5, <2>8 DEF Turns
  <2>11. /\ Cardinality(Users(m)') = Cardinality(Users(m)) + 1 /\ Cardinality(Users(m)) \in Nat
         /\ Users(m)' # {}
    BY <2>5, <2>9, <2>10 DEF Counts
  <2>12. Fine(m)'
    <3> DEFINE k == Cardinality(Users(m))
    <3>1. Fits(Owners(m), Takers(m), Openers(m), Pushers(m), Users(m), m \in OnList, refs[m])
      BY <1>0, <1>1 DEF Fine
    <3>2. ~ (Users(m) = {} /\ refs[m] = Refs(0, TRUE))
      BY <2>3 DEF Refs
    <3>3. k \in Nat /\ \A b \in BOOLEAN, i \in Nat : refs[m] = Refs(i, b) => refs'[m] = Refs(i + 1, b)
      BY <2>6, <2>11 DEF Refs
    <3> HIDE DEF k
    <3>4. /\ refs[m] = Refs(k, FALSE) => refs'[m] = Refs(k + 1, FALSE)
          /\ refs[m] = Refs(k + 2, FALSE) => refs'[m] = Refs((k + 1) + 2, FALSE)
          /\ refs[m] = Refs(k + 1, FALSE) => refs'[m] = Refs((k + 1) + 1, FALSE)
          /\ refs[m] = Refs(k, TRUE) => refs'[m] = Refs(k + 1, TRUE)
      <4>1. k + 1 \in Nat /\ k + 2 \in Nat /\ (k + 2) + 1 = (k + 1) + 2
        BY <3>3
      <4> QED BY <3>3, <4>1
    <3>5. Fits(Owners(m), Takers(m), Openers(m), Pushers(m), Users(m)', m \in OnList, refs'[m])
      BY <2>11, <3>1, <3>2, <3>4 DEF Fits, k
    <3> QED BY <2>7, <2>10, <3>5, FineThen
  <2> QED BY <1>0, <1>1, <2>1, <2>2, <2>4, <2>6, <2>12, OnlyRefs
<1>4. CASE ~ Unchanged(refs[m], th[t].seen)
  <2>1. PICK x : Becomes(t, x) /\ x = [at |-> "reload"]
    BY <1>1, <1>4 DEF Ref
  <2>2. x \in ThreadState /\ x.at = "reload"
    BY <1>0, <1>1, <1>2, <2>1, Forms
  <2>3. UNCHANGED <<freeListHead, next, refs, held>>
    BY <1>1, <1>4 DEF Ref
  <2>4. \A ats \in Parts4, n \in Nodes : Plays(x, n, ats) <=> Plays(th[t], n, ats)
    BY <1>0, <1>1, <2>2 DEF Plays, Parts4
  <2> QED BY <2>1, <2>2, <2>3, <2>4, OnlyThread
<1> QED BY <1>3, <1>4

\* The last user of a node that nobody has puts it on the list.
LEMMA UnrefKeeps ==
    ASSUME IInv, NEW t \in Threads, Unref(t)
    PROVE  IInv'
<1>0. /\ TypeInv /\ th[t] \in ThreadState /\ th[t].at = "unref"
      /\ refs \in [Nodes -> [count : Nat, should : BOOLEAN]]
  BY DEF IInv, TypeInv, Unref, At
<1>m. PICK m \in Nodes : m = th[t].n
  BY <1>0, Fields
<1>1. th[t].n = m /\ Fine(m) /\ th[t].then \in Link
  BY <1>0, <1>m, Fields DEF IInv
<1>2. t \in Users(m) /\ t \notin Takers(m) /\ t \notin Openers(m) /\ t \notin Pushers(m)
  BY <1>0, <1>1, Roles
<1>3. Counts(Users(m), t)
  BY Counted
<1>4. PICK k \in Nat : /\ Cardinality(Users(m)) = k + 1
                       /\ k = 0 <=> Users(m) \ {t} = {}
  <2>1. Counts(Users(m) \ {t}, t)
    <3>1. IsFiniteSet(Users(m))
      <4>1. Users(m) \subseteq Threads
        BY DEF Users, With
      <4> QED BY <4>1, PoolAssumption, FS_Subset
    <3>2. IsFiniteSet(Users(m) \ {t}) /\ t \notin Users(m) \ {t}
      BY <3>1, FS_RemoveElement
    <3> QED BY <3>2, FS_CardinalityType, FS_EmptySet, FS_AddElement DEF Counts
  <2>2. Cardinality(Users(m) \ {t}) \in Nat
    BY <2>1 DEF Counts
  <2>3. Cardinality(Users(m)) = Cardinality(Users(m) \ {t}) + 1
    BY <1>2, <1>3, <2>2 DEF Counts
  <2> QED BY <2>1, <2>2, <2>3 DEF Counts
<1>5. PICK x : /\ Becomes(t, x)
               /\ x = IF MustPush(refs[m]) THEN Pushes(m, th[t].then) ELSE GoesOn(th[t].then)
  BY <1>1 DEF Unref
<1>6. /\ x \in ThreadState
      /\ MustPush(refs[m]) => x.at = "load" /\ x.n = m
      /\ ~ MustPush(refs[m]) => x.at \in {"idle", "count"}
  <2>1. /\ Pushes(m, th[t].then) \in ThreadState
        /\ Pushes(m, th[t].then).at = "load" /\ Pushes(m, th[t].then).n = m
    BY <1>1, Forms DEF Pushes
  <2>2. GoesOn(th[t].then) \in ThreadState /\ GoesOn(th[t].then).at \in {"idle", "count"}
    BY <1>1, NullForms
  <2> QED BY <1>5, <2>1, <2>2
<1>7. /\ UNCHANGED <<freeListHead, next, held>>
      /\ refs' = [refs EXCEPT ![m].count = @ - 1]
  BY <1>1 DEF Unref
<1>8. Fits(Owners(m), Takers(m), Openers(m), Pushers(m), Users(m), m \in OnList, refs[m])
  BY <1>1 DEF Fine
<1>9. refs[m].count \in Nat \ {0}
  BY <1>2, <1>4, <1>8 DEF Fits, Refs
<1>10. RefsOf(m) /\ refs'[m] = Refs(refs[m].count - 1, refs[m].should)
  <2>1. refs[m].count - 1 \in Nat
    BY <1>9
  <2> QED BY <1>0, <1>7, <2>1 DEF RefsOf, Refs
<1>11. Owners(m)' = Owners(m) /\ OnList' = OnList
  BY <1>7, ListIs DEF Owners
<1>12. Turns(t, x, m)
  BY <1>0, <1>5, RolesAfter
<1>13. /\ Takers(m)' = Takers(m) /\ Pushers(m)' = Pushers(m) /\ Users(m)' = Users(m) \ {t}
       /\ MustPush(refs[m]) => Openers(m)' = Openers(m) \cup {t}
       /\ ~ MustPush(refs[m]) => Openers(m)' = Openers(m)
  <2>1. CASE MustPush(refs[m])
    BY <1>2, <1>6, <1>12, <2>1 DEF Turns
  <2>2. CASE ~ MustPush(refs[m])
    BY <1>2, <1>6, <1>12, <2>2 DEF Turns
  <2> QED BY <2>1, <2>2
<1>14. Cardinality(Users(m)') = k
  <2>1. Cardinality(Users(m) \ {t}) = Cardinality(Users(m)) - 1
    BY <1>2, <1>3 DEF Counts
  <2> QED BY <1>4, <1>13, <2>1
<1>15. /\ refs[m] = Refs(k + 1, FALSE) => refs'[m] = Refs(k, FALSE)
       /\ refs[m] = Refs((k + 1) + 2, FALSE) => refs'[m] = Refs(k + 2, FALSE)
       /\ refs[m] = Refs((k + 1) + 1, FALSE) => refs'[m] = Refs(k + 1, FALSE)
       /\ refs[m] = Refs(k + 1, TRUE) => refs'[m] = Refs(k, TRUE)
  <2>1. \A b \in BOOLEAN, i \in Nat : refs[m] = Refs(i + 1, b) => refs'[m] = Refs(i, b)
    BY <1>10 DEF Refs
  <2>2. k + 1 \in Nat /\ k + 2 \in Nat /\ (k + 1) + 2 = (k + 2) + 1
    OBVIOUS
  <2> QED BY <2>1, <2>2
<1>16. MustPush(refs[m]) <=> refs[m] = Refs(k + 1, TRUE) /\ k = 0
  <2>1. MustPush(refs[m]) => refs[m] = Refs(1, TRUE)
    BY DEF MustPush
  <2>2. refs[m] = Refs(1, TRUE) => refs[m] = Refs(k + 1, TRUE) /\ k = 0
    BY <1>4, <1>8 DEF Fits, Refs
  <2>3. k = 0 /\ refs[m] = Refs(k + 1, TRUE) => MustPush(refs[m])
    BY DEF MustPush
  <2> QED BY <2>1, <2>2, <2>3
<1>17. Fine(m)'
  <2>1. CASE MustPush(refs[m])
    <3>1. refs[m] = Refs(k + 1, TRUE) /\ k = 0 /\ refs[m].should
      BY <1>16, <2>1 DEF Refs
    <3>2. /\ Owners(m) = {} /\ Takers(m) = {} /\ Openers(m) = {} /\ Pushers(m) = {}
          /\ m \notin OnList
      BY <1>2, <1>8, <3>1 DEF Fits, Refs
    <3>3. /\ Owners(m)' = {} /\ Takers(m)' = {} /\ Openers(m)' = {t} /\ Pushers(m)' = {}
          /\ m \notin OnList' /\ Users(m)' = {} /\ refs'[m] = Refs(0, TRUE)
      BY <1>4, <1>11, <1>13, <1>15, <2>1, <3>1, <3>2
    <3> QED BY <3>3, FineThen DEF Fits
  <2>2. CASE ~ MustPush(refs[m])
    <3>1. refs[m] = Refs(k + 1, TRUE) => Users(m)' # {}
      BY <1>4, <1>13, <1>16, <2>2
    <3>2. Fits(Owners(m), Takers(m), Openers(m), Pushers(m), Users(m)', m \in OnList, refs'[m])
      BY <1>2, <1>4, <1>8, <1>14, <1>15, <3>1 DEF Fits
    <3>3. Openers(m)' = Openers(m)
      BY <1>13, <2>2
    <3> QED BY <1>11, <1>13, <3>2, <3>3, FineThen
  <2> QED BY <2>1, <2>2
<1>18. (x.at \in Busy => x.n = m) /\ x.at \notin {"pop", "open", "cas"}
  BY <1>6 DEF Busy
<1> QED BY <1>0, <1>1, <1>5, <1>6, <1>7, <1>10, <1>17, <1>18, OnlyRefs

\* The taker of a node gives up the list's reference and its own, and owns it.
LEMMA GotKeeps ==
    ASSUME IInv, NEW t \in Threads, Got(t)
    PROVE  IInv'
<1>0. /\ TypeInv /\ th[t] \in ThreadState /\ th[t].at = "got"
      /\ refs \in [Nodes -> [count : Nat, should : BOOLEAN]]
      /\ held \in [Threads -> SUBSET Nodes]
  BY DEF IInv, TypeInv, Got, At
<1>m. PICK m \in Nodes : m = th[t].n
  BY <1>0, Fields
<1>1. th[t].n = m /\ Fine(m)
  BY <1>0, <1>m DEF IInv
<1>2. t \in Takers(m) /\ t \notin Users(m)
  BY <1>0, <1>1, Roles
<1>3. /\ Owners(m) = {} /\ Takers(m) = {t} /\ Openers(m) = {} /\ Pushers(m) = {}
      /\ m \notin OnList /\ refs[m] = Refs(Cardinality(Users(m)) + 2, FALSE)
  BY <1>1, <1>2 DEF Fine, Fits
<1>4. Counts(Users(m), t)
  BY Counted
<1>5. /\ refs[m].count - 2 = Cardinality(Users(m)) /\ refs[m].count - 2 \in Nat
      /\ ~ refs[m].should /\ Users(m) \ {t} = Users(m)
  BY <1>2, <1>3, <1>4 DEF Refs, Counts
<1>6. PICK x : Becomes(t, x) /\ x = Idle
  BY DEF Got
<1>7. x \in ThreadState /\ x.at = "idle"
  <2>1. Null \in Link
    BY DEF Link
  <2> QED BY <1>6, <2>1, <1>0, <1>m, Forms DEF Idle
<1>8. /\ UNCHANGED <<freeListHead, next>>
      /\ refs' = [refs EXCEPT ![m].count = @ - 2]
      /\ held' = [held EXCEPT ![t] = @ \cup {m}]
  BY <1>1 DEF Got
<1>9. RefsOf(m) /\ refs'[m] = Refs(Cardinality(Users(m)), FALSE)
  <2>1. RefsOf(m) /\ refs'[m] = Refs(refs[m].count - 2, FALSE)
    BY <1>0, <1>5, <1>8 DEF RefsOf, Refs
  <2> QED BY <1>5, <2>1
<1>10. OnList' = OnList /\ Chain'
  BY <1>8, ListIs DEF IInv
<1>11. Owners(m)' = Owners(m) \cup {t} /\ \A n \in Nodes \ {m} : Owners(n)' = Owners(n)
  BY <1>0, <1>8 DEF Owners
<1>12. Only(m)
  BY <1>9, <1>10, <1>11 DEF Only, RefsOf
<1>13. Fine(m)'
  <2>1. Turns(t, x, m)
    BY <1>0, <1>6, RolesAfter
  <2>2. /\ Owners(m)' = {t} /\ Takers(m)' = {} /\ Openers(m)' = {} /\ Pushers(m)' = {}
        /\ m \notin OnList' /\ Users(m)' = Users(m)
    BY <1>3, <1>5, <1>7, <1>10, <1>11, <2>1 DEF Turns
  <2> QED BY <1>9, <2>2, FineThen DEF Fits
<1>14. Known'
  BY <1>0, <1>6, <1>7, <1>8, KnownStays DEF IInv
<1>15. x.at \notin Busy
  BY <1>7 DEF Busy
<1>16. /\ freeListHead' \in Link /\ next' \in [Nodes -> Link]
       /\ refs' \in [Nodes -> [count : Nat, should : BOOLEAN]]
       /\ held' \in [Threads -> SUBSET Nodes]
  BY <1>0, <1>8, <1>9 DEF TypeInv, Link, RefsOf
<1> QED BY <1>0, <1>1, <1>6, <1>7, <1>10, <1>12, <1>13, <1>14, <1>15, <1>16, OneNode

\* The pusher links its node, which is not on the list and that nobody uses.
LEMMA PushLinksKeeps ==
    ASSUME IInv, NEW t \in Threads, PushLinks(t)
    PROVE  IInv'
<1>0. /\ TypeInv /\ th[t] \in ThreadState /\ th[t].at = "link"
      /\ next \in [Nodes -> Link] /\ freeListHead \in Link /\ th[t].head \in Link
  BY Fields DEF IInv, TypeInv, PushLinks, At, Link, Linking
<1>m. PICK m \in Nodes : m = th[t].n
  BY <1>0, Fields DEF Linking
<1>1. th[t].n = m /\ Fine(m)
  BY <1>0, <1>m DEF IInv
<1>2. t \in Openers(m)
  BY <1>0, <1>1, Roles
<1>3. Openers(m) = {t} /\ Pushers(m) = {} /\ Users(m) = {} /\ m \notin OnList
  BY <1>1, <1>2 DEF Fine, Fits
<1>4. PICK x : Becomes(t, x) /\ x = [th[t] EXCEPT !.at = "open"]
  BY DEF PushLinks
<1>5. x \in ThreadState /\ x.at = "open" /\ x.n = m /\ x.head = th[t].head
  <2>1. th[t].at \in Linking /\ "open" \in Linking /\ Null \in Link
    BY <1>0 DEF Linking, Link
  <2> QED BY <1>0, <1>1, <1>4, <2>1, Relinks
<1>6. UNCHANGED <<freeListHead, refs, held>> /\ next' = [next EXCEPT ![m] = th[t].head]
  BY <1>1 DEF PushLinks
<1>7. next' \in [Nodes -> Link] /\ next'[m] = th[t].head /\ \A n \in Nodes \ {m} : next'[n] = next[n]
  BY <1>0, <1>6
<1>8. OnList' = OnList /\ Chain'
  <2>1. m \in Nodes \ From(freeListHead, next) /\ Chained(freeListHead, next)
    BY <1>3, ListIs DEF IInv
  <2>2. next' = Relinked(next, m, th[t].head) /\ freeListHead' = freeListHead
    BY <1>6 DEF Relinked
  <2>3. From(freeListHead, next') = From(freeListHead, next) /\ Chained(freeListHead, next')
    BY <1>0, <2>1, <2>2, Linked
  <2> QED BY <2>2, <2>3, ListIs
<1>9. Owners(m)' = Owners(m) /\ Only(m) /\ refs'[m] = refs[m]
  BY <1>6, <1>8 DEF Only, Owners
<1>10. Fine(m)'
  <2>1. \A ats \in Parts4 : Plays(x, m, ats) <=> Plays(th[t], m, ats)
    BY <1>0, <1>1, <1>5 DEF Parts4, Plays
  <2> QED BY <1>0, <1>1, <1>4, <1>8, <1>9, <2>1, Stays
<1>11. Known'
  <2>1. th'[t] = x /\ \A u \in Threads \ {t} : th'[u] = th[u]
    BY <1>4 DEF Becomes, IInv, TypeInv
  <2>2. ASSUME NEW u \in Threads \ {t}, th[u].at \in {"pop", "open", "cas"} PROVE th[u].n # m
    <3>1. u \notin Openers(m) /\ u \notin Pushers(m) /\ u \notin Users(m)
      BY <1>3
    <3> QED BY <2>2, <3>1, Roles
  <2>3. ASSUME NEW u \in Threads \ {t}, th[u].at \in {"pop", "open", "cas"}
        PROVE  th[u].n \in Nodes /\ next'[th[u].n] = next[th[u].n]
    <3>1. th[u] \in ThreadState
      BY <1>0 DEF TypeInv
    <3> QED BY <1>7, <2>2, <2>3, <3>1, Fields
  <2> QED BY <1>5, <1>7, <2>1, <2>3 DEF IInv, Known
<1>12. /\ freeListHead' \in Link /\ refs' \in [Nodes -> [count : Nat, should : BOOLEAN]]
       /\ held' \in [Threads -> SUBSET Nodes]
  BY <1>0, <1>6 DEF TypeInv
<1> QED BY <1>0, <1>1, <1>4, <1>5, <1>7, <1>8, <1>9, <1>10, <1>11, <1>12, OneNode

\* A push that finds the head it linked its node to puts the node on the list.
LEMMA PushCasKeeps ==
    ASSUME IInv, NEW t \in Threads, PushCas(t)
    PROVE  IInv'
<1>0. /\ TypeInv /\ th[t] \in ThreadState /\ th[t].at = "cas"
      /\ next \in [Nodes -> Link] /\ freeListHead \in Link /\ th[t].then \in Link
  BY Fields DEF IInv, TypeInv, PushCas, At, Link, Linking
<1>m. PICK m \in Nodes : m = th[t].n
  BY <1>0, Fields DEF Linking
<1>1. th[t].n = m /\ Fine(m) /\ UNCHANGED <<next, refs, held>>
  BY <1>0, <1>m DEF IInv, PushCas
<1>2. CASE freeListHead = th[t].head
  <2>1. t \in Pushers(m) /\ t \notin Users(m)
    BY <1>0, <1>1, Roles
  <2>2. /\ Owners(m) = {} /\ Takers(m) = {} /\ Openers(m) = {} /\ Pushers(m) = {t}
        /\ m \notin OnList /\ refs[m] = Refs(Cardinality(Users(m)) + 1, FALSE)
    BY <1>1, <2>1 DEF Fine, Fits
  <2>3. PICK x : Becomes(t, x) /\ x = GoesOn(th[t].then)
    BY <1>2 DEF PushCas
  <2>4. x \in ThreadState /\ x.at \in {"idle", "count"}
    BY <1>0, <2>3, NullForms
  <2>5. freeListHead' = m
    BY <1>1, <1>2 DEF PushCas
  <2>6. OnList' = OnList \cup {m} /\ Chain'
    <3>1. m \in Nodes \ From(freeListHead, next) /\ Chained(freeListHead, next)
      BY <2>2, ListIs DEF IInv
    <3>2. next[m] = freeListHead
      BY <1>0, <1>1, <1>2 DEF IInv, Known
    <3>3. From(m, next) = From(freeListHead, next) \cup {m} /\ Chained(m, next)
      BY <1>0, <3>1, <3>2, Pushed
    <3> QED BY <1>1, <2>5, <3>3, ListIs
  <2>7. Owners(m)' = Owners(m) /\ Only(m) /\ refs'[m] = refs[m]
    BY <1>1, <2>6 DEF Only, Owners
  <2>8. Fine(m)'
    <3>1. Turns(t, x, m)
      BY <1>0, <2>3, RolesAfter
    <3>2. Users(m) \ {t} = Users(m)
      BY <2>1
    <3>3. /\ Owners(m)' = {} /\ Takers(m)' = {} /\ Openers(m)' = {} /\ Pushers(m)' = {}
          /\ m \in OnList' /\ Users(m)' = Users(m)
      BY <2>2, <2>4, <2>6, <2>7, <3>1, <3>2 DEF Turns
    <3> QED BY <2>2, <2>7, <3>3, FineThen DEF Fits
  <2>9. Known'
    BY <1>0, <1>1, <2>3, <2>4, KnownStays DEF IInv
  <2>10. x.at \notin Busy
    BY <2>4 DEF Busy
  <2>11. /\ freeListHead' \in Link /\ next' \in [Nodes -> Link]
         /\ refs' \in [Nodes -> [count : Nat, should : BOOLEAN]]
         /\ held' \in [Threads -> SUBSET Nodes]
    BY <1>0, <1>1, <2>5 DEF TypeInv, Link
  <2> QED BY <1>0, <1>1, <2>3, <2>4, <2>6, <2>7, <2>8, <2>9, <2>10, <2>11, OneNode
<1>3. CASE freeListHead # th[t].head
  <2>1. PICK x : Becomes(t, x) /\ x = [th[t] EXCEPT !.at = "back", !.head = freeListHead]
    BY <1>3 DEF PushCas
  <2>2. x \in ThreadState /\ x.at = "back" /\ x.n = m
    <3>1. th[t].at \in Linking /\ "back" \in Linking
      BY <1>0 DEF Linking
    <3>2. th[t] \in [at : Linking, n : Nodes, then : Link, head : Link]
      BY <1>0, <3>1, Linkers
    <3>3. /\ x \in [at : Linking, n : Nodes, then : Link, head : Link]
          /\ x.at = "back" /\ x.n = th[t].n
      BY <1>0, <2>1, <3>1, <3>2
    <3>4. x \in ThreadState
      BY <3>3 DEF ThreadState, Linking, Link
    <3> QED BY <1>1, <3>3, <3>4
  <2>3. UNCHANGED <<freeListHead, next, refs, held>>
    BY <1>1, <1>3 DEF PushCas
  <2>4. \A ats \in Parts4, n \in Nodes : Plays(x, n, ats) <=> Plays(th[t], n, ats)
    BY <1>0, <1>1, <2>2 DEF Plays, Parts4
  <2> QED BY <2>1, <2>2, <2>3, <2>4, OnlyThread
<1> QED BY <1>2, <1>3

\* Whoever finds its node at the head takes it, and its successor becomes the head.
LEMMA PopKeeps ==
    ASSUME IInv, NEW t \in Threads, Pop(t)
    PROVE  IInv'
<1>0. /\ TypeInv /\ th[t] \in ThreadState /\ th[t].at = "pop"
      /\ next \in [Nodes -> Link] /\ freeListHead \in Link
  BY DEF IInv, TypeInv, Pop, At, Link
<1>m. PICK m \in Nodes : m = th[t].n
  BY <1>0, Fields
<1>1. th[t].n = m /\ Fine(m) /\ UNCHANGED <<next, refs, held>>
  BY <1>0, <1>m DEF IInv, Pop
<1>2. Null \in Link
  BY DEF Link
<1>3. CASE freeListHead = m
  <2>1. PICK x : Becomes(t, x) /\ x = [at |-> "got", n |-> m]
    BY <1>1, <1>3 DEF Pop
  <2>2. x \in ThreadState /\ x.at = "got" /\ x.n = m
    BY <1>2, <2>1, Forms
  <2>3. freeListHead' = next[m]
    BY <1>0, <1>1, <1>3 DEF Pop, IInv, Known
  <2>4. OnList' = OnList \ {m} /\ Chain' /\ m \in OnList
    <3>1. Chained(m, next)
      BY <1>3, ListIs DEF IInv
    <3>2. From(next[m], next) = From(m, next) \ {m} /\ Chained(next[m], next) /\ m \in From(m, next)
      BY <1>0, <3>1, Popped
    <3> QED BY <1>1, <1>3, <2>3, <3>2, ListIs
  <2>5. Owners(m)' = Owners(m) /\ Only(m) /\ refs'[m] = refs[m]
    BY <1>1, <2>4 DEF Only, Owners
  <2>6. /\ Owners(m) = {} /\ Takers(m) = {} /\ Openers(m) = {} /\ Pushers(m) = {}
        /\ refs[m] = Refs(Cardinality(Users(m)) + 1, FALSE)
    BY <1>1, <2>4 DEF Fine, Fits
  <2>7. t \in Users(m)
    BY <1>0, <1>1, Roles
  <2>8. Fine(m)'
    <3>1. Turns(t, x, m)
      BY <1>0, <2>1, RolesAfter
    <3>2. /\ Owners(m)' = {} /\ Takers(m)' = {t} /\ Openers(m)' = {} /\ Pushers(m)' = {}
          /\ m \notin OnList' /\ Users(m)' = Users(m) \ {t}
      BY <2>2, <2>4, <2>5, <2>6, <3>1 DEF Turns
    <3>3. refs[m] = Refs(Cardinality(Users(m)') + 2, FALSE)
      <4>1. Counts(Users(m), t)
        BY Counted
      <4>2. Cardinality(Users(m) \ {t}) + 2 = Cardinality(Users(m)) + 1
        BY <2>7, <4>1 DEF Counts
      <4> QED BY <2>6, <3>2, <4>2
    <3> QED BY <2>5, <3>2, <3>3, FineThen DEF Fits
  <2>9. Known'
    BY <1>0, <1>1, <2>1, <2>2, KnownStays DEF IInv
  <2>10. next[m] \in Link
    BY <1>0
  <2>11. /\ freeListHead' \in Link /\ next' \in [Nodes -> Link]
         /\ refs' \in [Nodes -> [count : Nat, should : BOOLEAN]]
         /\ held' \in [Threads -> SUBSET Nodes]
    BY <1>0, <1>1, <2>3, <2>10 DEF TypeInv
  <2> QED BY <1>0, <1>1, <2>1, <2>2, <2>4, <2>5, <2>8, <2>9, <2>11, OneNode
<1>4. CASE freeListHead # m
  <2>1. PICK x : Becomes(t, x) /\ x = [at |-> "unref", n |-> m, then |-> freeListHead]
    BY <1>1, <1>4 DEF Pop
  <2>2. x \in ThreadState /\ x.at = "unref" /\ x.n = m
    BY <1>0, <2>1, Forms
  <2>3. UNCHANGED <<freeListHead, next, refs, held>>
    BY <1>1, <1>4 DEF Pop
  <2>4. \A ats \in Parts4, n \in Nodes : Plays(x, n, ats) <=> Plays(th[t], n, ats)
    BY <1>0, <1>1, <2>2 DEF Plays, Parts4
  <2> QED BY <2>1, <2>2, <2>3, <2>4, OnlyThread
<1> QED BY <1>3, <1>4

\* At first every block has its owner, and the list is empty.
LEMMA InitKeeps ==
    ASSUME Init
    PROVE  IInv
<1>1. TypeInv
  <2>1. Null \in Link /\ Idle \in ThreadState
    BY DEF Link, Idle, ThreadState
  <2>2. Refs(0, FALSE) \in [count : Nat, should : BOOLEAN]
    BY DEF Refs
  <2> QED BY <2>1, <2>2 DEF Init, TypeInv, Link
<1>2. OnList = {}
  <2>1. Null \in Link /\ next \in [Nodes -> Link] /\ freeListHead = Null
    BY DEF Init, Link
  <2>2. {} \in SUBSET Nodes /\ Holds({}, Null, next)
    BY DEF Holds
  <2> QED BY <2>1, <2>2, FromLeast, ListIs
<1>3. ASSUME NEW n \in Nodes PROVE Fine(n)
  <2>1. \A t \in Threads : th[t].at = "idle"
    BY DEF Init, Idle
  <2>2. Takers(n) = {} /\ Openers(n) = {} /\ Pushers(n) = {} /\ Users(n) = {}
    BY <2>1 DEF Takers, Openers, Pushers, Users, With
  <2>3. PICK t \in Threads : n \in held[t]
    BY DEF Init
  <2>4. Owners(n) = {t}
    BY <2>3 DEF Owners, Init
  <2>5. refs[n] = Refs(Cardinality(Users(n)), FALSE)
    BY <2>2, FS_EmptySet DEF Init
  <2> QED BY <1>2, <2>2, <2>4, <2>5 DEF Fine, Fits
<1>4. Chain
  BY <1>2 DEF Chain
<1>5. Known
  BY DEF Known, Init, Idle
<1> QED BY <1>1, <1>3, <1>4, <1>5 DEF IInv

LEMMA StepKeeps ==
    ASSUME IInv, Next
    PROVE  IInv'
<1>1. PICK t \in Threads : Add(t) \/ TryGet(t) \/ Step(t)
  BY DEF Next
<1>2. CASE Add(t)
  BY <1>2, AddKeeps
<1>3. CASE TryGet(t) \/ PushLoads(t) \/ LoadCount(t) \/ LoadNext(t)
  BY <1>3, ReadsKeep
<1>4. CASE PushLinks(t)
  BY <1>4, PushLinksKeeps
<1>5. CASE PushOpens(t)
  BY <1>5, PushOpensKeeps
<1>6. CASE PushCas(t)
  BY <1>6, PushCasKeeps
<1>7. CASE PushBacksOff(t)
  BY <1>7, PushBacksOffKeeps
<1>8. CASE Ref(t)
  BY <1>8, RefKeeps
<1>9. CASE Pop(t)
  BY <1>9, PopKeeps
<1>10. CASE Got(t)
  BY <1>10, GotKeeps
<1>11. CASE Unref(t)
  BY <1>11, UnrefKeeps
<1> QED BY <1>1, <1>2, <1>3, <1>4, <1>5, <1>6, <1>7, <1>8, <1>9, <1>10, <1>11 DEF Step

LEMMA StutterKeeps ==
    ASSUME IInv, UNCHANGED vars
    PROVE  IInv'
<1>1. /\ freeListHead' = freeListHead /\ next' = next /\ refs' = refs /\ held' = held /\ th' = th
  BY DEF vars
<1>2. TypeInv' /\ Known'
  BY <1>1 DEF IInv, TypeInv, Known
<1>3. OnList' = OnList /\ Chain'
  BY <1>1, ListIs DEF IInv
<1>4. ASSUME NEW n \in Nodes PROVE Fine(n)'
  <2>1. /\ Owners(n)' = Owners(n) /\ Takers(n)' = Takers(n) /\ Openers(n)' = Openers(n)
        /\ Pushers(n)' = Pushers(n) /\ Users(n)' = Users(n)
    BY <1>1 DEF Owners, Takers, Openers, Pushers, Users, With
  <2> QED BY <1>1, <1>3, <2>1, FineThen DEF Fine, IInv
<1> QED BY <1>2, <1>3, <1>4 DEF IInv

LEMMA GivesOneOwner ==
    ASSUME IInv
    PROVE  OneOwner
<1>1. \A n \in Nodes : Fine(n)
  BY DEF IInv
<1>2. held \in [Threads -> SUBSET Nodes] /\ th \in [Threads -> ThreadState]
  BY DEF IInv, TypeInv
<1>3. ASSUME NEW t \in Threads, NEW n \in held[t]
      PROVE  Owners(n) = {t} /\ Takers(n) = {} /\ n \notin OnList
  <2>1. n \in Nodes /\ t \in Owners(n)
    BY <1>2 DEF Owners
  <2> QED BY <1>1, <2>1 DEF Fine, Fits
<1>4. \A t, u \in Threads : t # u => held[t] \cap held[u] = {}
  <2> SUFFICES ASSUME NEW t \in Threads, NEW u \in Threads, t # u, NEW n \in held[t], n \in held[u]
               PROVE  FALSE
    OBVIOUS
  <2>1. Owners(n) = {t} /\ Owners(n) = {u}
    BY <1>3
  <2> QED BY <2>1
<1>5. \A t \in Threads : held[t] \cap OnList = {}
  BY <1>3
<1>6. ASSUME NEW t \in Threads, At(t, "got"), NEW u \in Threads PROVE th[t].n \notin held[u]
  <2>1. t \in Takers(th[t].n)
    BY <1>6, Roles DEF At
  <2> QED BY <1>3, <2>1
<1> QED BY <1>4, <1>5, <1>6 DEF OneOwner

LEMMA GivesNoneLost ==
    ASSUME IInv
    PROVE  NoneLost
<1> SUFFICES ASSUME \A t \in Threads : th[t] = Idle
             PROVE  (UNION {held[t] : t \in Threads}) \cup OnList = Nodes
  BY DEF NoneLost
<1> DEFINE H == UNION {held[t] : t \in Threads}
<1>0. /\ \A t \in Threads : \A n \in held[t] : n \in H
      /\ \A n \in H : \E t \in Threads : n \in held[t]
  OBVIOUS
<1> HIDE DEF H
<1>1. \A t \in Threads : th[t].at = "idle"
  BY DEF Idle
<1>2. ASSUME NEW n \in Nodes PROVE n \in H \/ n \in OnList
  <2>1. Takers(n) = {} /\ Openers(n) = {} /\ Pushers(n) = {} /\ Users(n) = {}
    BY <1>1 DEF Takers, Openers, Pushers, Users, With
  <2>2. (\E t \in Threads : Owners(n) = {t}) \/ n \in OnList
    <3>1. Fine(n)
      BY DEF IInv
    <3>2. Fits(Owners(n), {}, {}, {}, {}, n \in OnList, refs[n])
      BY <2>1, <3>1 DEF Fine
    <3>3. ~ \E t \in Threads : {} = {t}
      OBVIOUS
    <3> DEFINE Alone(S) == \E t \in Threads : S = {t}
    <3>4. ~ Alone({}) /\ (Alone(Owners(n)) \/ Alone({}) \/ n \in OnList)
      BY <3>2, <3>3 DEF Fits
    <3> QED BY <3>4
  <2>3. CASE \E t \in Threads : Owners(n) = {t}
    <3>1. PICK t \in Threads : Owners(n) = {t}
      BY <2>3
    <3>2. n \in held[t]
      BY <3>1 DEF Owners
    <3> QED BY <1>0, <3>2
  <2> QED BY <2>2, <2>3
<1>3. OnList \subseteq Nodes /\ H \subseteq Nodes
  BY <1>0 DEF OnList, IInv, TypeInv
<1>4. H \cup OnList = Nodes
  BY <1>2, <1>3
<1> QED BY <1>4 DEF H

-----------------------------------------------------------------------------
(* The theorems                                                            *)

\* What holds of the list alone holds of it beside the other structures.
LEMMA Beside ==
    ASSUME [MCNext]_all
    PROVE  [Next]_vars
BY DEF MCNext, all

\* IInv holds in every state, of the list alone and of the composition.
THEOREM ListInvariant == (Spec => []IInv) /\ (MCSpec => []IInv)
<1>1. Init => IInv
  BY InitKeeps
<1>2. IInv /\ [Next]_vars => IInv'
  BY StepKeeps, StutterKeeps
<1>3. MCInit => Init
  BY DEF MCInit
<1>4. [MCNext]_all => [Next]_vars
  BY Beside
<1>5. Spec => []IInv
  BY <1>1, <1>2, PTL DEF Spec
<1>6. MCSpec => []IInv
  BY <1>1, <1>2, <1>3, <1>4, PTL DEF MCSpec
<1> QED BY <1>5, <1>6

\* No block has two owners, and none that a thread owns is in the list: the reference
\* count of concurrentqueue.h's FreeList keeps a taken block from coming back under a
\* thread that is about to take it (no ABA).
THEOREM NoTwoOwners == (Spec => []OneOwner) /\ (MCSpec => []OneOwner)
<1>1. IInv => OneOwner
  BY GivesOneOwner
<1> QED BY <1>1, ListInvariant, PTL

\* No block is lost: whoever drops the last reference of a block that was to go to the
\* list puts it there.
THEOREM NoBlockLost == (Spec => []NoneLost) /\ (MCSpec => []NoneLost)
<1>1. IInv => NoneLost
  BY GivesNoneLost
<1> QED BY <1>1, ListInvariant, PTL

-----------------------------------------------------------------------------
(* The stream beside the other structures                                  *)

Proved == INSTANCE Stream_proofs

\* What Stream_proofs assumes holds.
LEMMA StreamAssumptions ==
    Proved!ByteAssumption /\ Proved!BlockAssumption /\ Proved!ChunksAssumption
BY ByteAssumption, BlockAssumption, ContainersAssumption
DEF Proved!ByteAssumption, Proved!BlockAssumption, Proved!ChunksAssumption, Streams!ChunksAssumption

LEMMA SameContents == Proved!Contents(s) = Streams!Contents(s)
BY DEF Proved!Contents, Streams!Contents, Proved!StreamLen, Streams!StreamLen

LEMMA SameInit == MCInit => Proved!Init
BY DEF MCInit, Streams!Init, Proved!Init, Streams!NewStream, Proved!NewStream,
       Streams!Fresh, Proved!Fresh

LEMMA SameNext == [MCNext]_all => [Proved!Next]_s
<1> SUFFICES ASSUME Streams!Next PROVE Proved!Next
  BY DEF MCNext, all
<1>1. Proved!Sizes = Streams!Sizes
  BY DEF Proved!Sizes, Streams!Sizes
<1>2. ASSUME NEW n \in Streams!Sizes, NEW d \in Chunks, Streams!WriteSome(n, d)
      PROVE  Proved!WriteSome(n, d)
  BY <1>2 DEF Streams!WriteSome, Proved!WriteSome, Streams!Write, Proved!Write,
       Streams!AddSize, Proved!AddSize, Streams!Copied, Proved!Copied,
       Streams!EnsureWritable, Proved!EnsureWritable, Streams!Writable, Proved!Writable,
       Streams!Grow, Proved!Grow, Streams!Shrink, Proved!Shrink,
       Streams!Capacity, Proved!Capacity, Streams!StreamLen, Proved!StreamLen,
       Streams!RoundUp, Proved!RoundUp
<1>3. ASSUME NEW n \in Streams!Sizes, Streams!WriteRefused(n)
      PROVE  Proved!WriteRefused(n)
  BY <1>3 DEF Streams!WriteRefused, Proved!WriteRefused,
       Streams!EnsureWritable, Proved!EnsureWritable, Streams!Writable, Proved!Writable,
       Streams!Grow, Proved!Grow, Streams!Shrink, Proved!Shrink,
       Streams!Capacity, Proved!Capacity, Streams!StreamLen, Proved!StreamLen,
       Streams!RoundUp, Proved!RoundUp
<1>4. ASSUME NEW d \in Chunks, Streams!DoAppend(d)
      PROVE  Proved!DoAppend(d)
  BY <1>4 DEF Streams!DoAppend, Proved!DoAppend, Streams!AppendData, Proved!AppendData,
       Streams!Copied, Proved!Copied,
       Streams!EnsureWritable, Proved!EnsureWritable, Streams!Writable, Proved!Writable,
       Streams!Grow, Proved!Grow, Streams!Shrink, Proved!Shrink,
       Streams!Capacity, Proved!Capacity, Streams!StreamLen, Proved!StreamLen,
       Streams!RoundUp, Proved!RoundUp
<1>5. ASSUME NEW n \in Streams!Sizes, Streams!DoSkip(n)
      PROVE  Proved!DoSkip(n)
  BY <1>5 DEF Streams!DoSkip, Proved!DoSkip, Streams!Skip, Proved!Skip
<1>6. Streams!DoReset => Proved!DoReset
  BY DEF Streams!DoReset, Proved!DoReset, Streams!Reset, Proved!Reset
<1> QED BY <1>1, <1>2, <1>3, <1>4, <1>5, <1>6 DEF Streams!Next, Proved!Next

\* The queue of Stream_proofs is the queue of the composition.
LEMMA SameQueue == Proved!IsByteQueue => IsByteQueue
<1>1. Proved!Queue!Init => Queue!Init
  BY SameContents DEF Proved!Queue!Init, Queue!Init
<1>2. [Proved!Queue!Next]_(Proved!Contents(s)) => [Queue!Next]_(Streams!Contents(s))
  BY DEF Proved!Queue!Next, Queue!Next, Proved!Queue!Put, Queue!Put,
         Proved!Queue!Take, Queue!Take, Proved!Contents, Streams!Contents,
         Proved!StreamLen, Streams!StreamLen
<1> QED BY <1>1, <1>2, PTL DEF Proved!Queue!Spec, Queue!Spec, Proved!IsByteQueue, IsByteQueue

\* The stream, with its moving and growing buffer (stream.cpp), is a queue of bytes.
THEOREM StreamBesideIsByteQueue == MCSpec => IsByteQueue
<1>1. Proved!Spec => Proved!IsByteQueue
  BY StreamAssumptions, Proved!StreamIsByteQueue
<1>2. MCSpec => Proved!Spec
  BY SameInit, SameNext, PTL DEF MCSpec, Proved!Spec
<1> QED BY <1>1, <1>2, SameQueue, PTL

-----------------------------------------------------------------------------
(* The queue beside the other structures: Queue_proofs proves it for any    *)
(* threads and sizes, and the two queues of the composition are instances.  *)

SoleConsumer == INSTANCE Queue_proofs WITH
    Producers <- {1, 2}, Consumers <- {1}, BLOCK_SIZE <- 2, InitialIndexSize <- 1,
    PoolSize <- 1, MaxBlocks <- 3, MaxSent <- 3, MaxTries <- 3

\* What Queue_proofs assumes holds of the queue with one consumer.
LEMMA SoleConsumerAssumption == SoleConsumer!QueueAssumption
BY ContainersAssumption
DEF One!QueueAssumption, SoleConsumer!QueueAssumption, One!IsFiniteSet,
    SoleConsumer!IsFiniteSet

LEMMA SoleConsumerInit == One!Init => SoleConsumer!Init
BY DEF One!Init, SoleConsumer!Init, One!Idle, SoleConsumer!Idle, One!FreshSlots,
    SoleConsumer!FreshSlots, One!Empty, SoleConsumer!Empty, One!Blocks,
    SoleConsumer!Blocks, One!FreshEntry, SoleConsumer!FreshEntry, One!Null,
    SoleConsumer!Null, One!INVALID_BLOCK_BASE, SoleConsumer!INVALID_BLOCK_BASE,
    One!FirstHeader, SoleConsumer!FirstHeader

LEMMA SoleConsumerNext == [One!Next]_queue => [SoleConsumer!Next]_(SoleConsumer!vars)
<1>1. One!Next => SoleConsumer!Next
  BY
  DEF One!Next, SoleConsumer!Next, One!TryDequeue, SoleConsumer!TryDequeue, One!Free,
      SoleConsumer!Free, One!counters, SoleConsumer!counters, One!Idle, SoleConsumer!Idle,
      One!Becomes, SoleConsumer!Becomes, One!At, SoleConsumer!At, One!Unlink,
      SoleConsumer!Unlink, One!Null, SoleConsumer!Null, One!SetEmpty,
      SoleConsumer!SetEmpty, One!AllEmptied, SoleConsumer!AllEmptied, One!Move,
      SoleConsumer!Move, One!Empty, SoleConsumer!Empty, One!Find, SoleConsumer!Find,
      One!memory, SoleConsumer!memory, One!Size, SoleConsumer!Size, One!Base,
      SoleConsumer!Base, One!Locate, SoleConsumer!Locate, One!Current,
      SoleConsumer!Current, One!Last, SoleConsumer!Last, One!Take, SoleConsumer!Take,
      One!Undo, SoleConsumer!Undo, One!Fails, SoleConsumer!Fails, One!Tries,
      SoleConsumer!Tries, One!Min, SoleConsumer!Min, One!Recheck, SoleConsumer!Recheck,
      One!LessThan, SoleConsumer!LessThan, One!Bump, SoleConsumer!Bump, One!Guess,
      SoleConsumer!Guess, One!LoadTail, SoleConsumer!LoadTail, One!Choose,
      SoleConsumer!Choose, One!Scan, SoleConsumer!Scan, One!Max, SoleConsumer!Max,
      One!Start, SoleConsumer!Start, One!Enqueue, SoleConsumer!Enqueue, One!Publish,
      SoleConsumer!Publish, One!NoBlock, SoleConsumer!NoBlock, One!FreeBlocks,
      SoleConsumer!FreeBlocks, One!Blocks, SoleConsumer!Blocks, One!FillBlock,
      SoleConsumer!FillBlock, One!ResetEmpty, SoleConsumer!ResetEmpty, One!Item,
      SoleConsumer!Item, One!Obtainable, SoleConsumer!Obtainable, One!Unmade,
      SoleConsumer!Unmade, One!MoveIndexTail, SoleConsumer!MoveIndexTail, One!After,
      SoleConsumer!After, One!ClaimEntry, SoleConsumer!ClaimEntry, One!NextEntry,
      SoleConsumer!NextEntry, One!Reusable, SoleConsumer!Reusable, One!INVALID_BLOCK_BASE,
      SoleConsumer!INVALID_BLOCK_BASE, One!BlockStart, SoleConsumer!BlockStart,
      One!Contains, SoleConsumer!Contains, One!GrowIndex, SoleConsumer!GrowIndex,
      One!FreshEntry, SoleConsumer!FreshEntry, One!Grown, SoleConsumer!Grown,
      One!EnqueueInBlock, SoleConsumer!EnqueueInBlock, One!AddProducer,
      SoleConsumer!AddProducer, One!Added, SoleConsumer!Added
<1>2. UNCHANGED queue => UNCHANGED SoleConsumer!vars
  BY DEF queue, SoleConsumer!vars, SoleConsumer!counters, SoleConsumer!memory
<1> QED BY <1>1, <1>2

\* The invariant of Queue_proofs gives the properties of this queue.
LEMMA SoleConsumerSafe == SoleConsumer!IInv => One!InOrder /\ One!OnceOnly /\ One!BlocksReturn
<1> SUFFICES ASSUME SoleConsumer!IInv PROVE One!InOrder /\ One!OnceOnly /\ One!BlocksReturn
  OBVIOUS
<1>1. SoleConsumer!InOrder /\ SoleConsumer!OnceOnly
  BY DEF SoleConsumer!IInv
<1>2. SoleConsumer!BlocksReturn
  BY SoleConsumerAssumption, SoleConsumer!ReturnedBlocks
<1>3. One!InOrder /\ One!OnceOnly
  BY <1>1 DEF One!InOrder, SoleConsumer!InOrder, One!OnceOnly, SoleConsumer!OnceOnly, One!Empty, SoleConsumer!Empty
<1>4. One!BlocksReturn
  BY <1>2 DEF One!BlocksReturn, SoleConsumer!BlocksReturn, One!InUse, SoleConsumer!InUse,
              One!Blocks, SoleConsumer!Blocks, One!Empty, SoleConsumer!Empty
<1> QED BY <1>3, <1>4

TwoConsumers == INSTANCE Queue_proofs WITH
    Producers <- {1}, Consumers <- {1, 2}, BLOCK_SIZE <- 2, InitialIndexSize <- 1,
    PoolSize <- 1, MaxBlocks <- 3, MaxSent <- 4, MaxTries <- 5

\* What Queue_proofs assumes holds of the queue with two consumers.
LEMMA TwoConsumersAssumption == TwoConsumers!QueueAssumption
BY ContainersAssumption
DEF Two!QueueAssumption, TwoConsumers!QueueAssumption, Two!IsFiniteSet,
    TwoConsumers!IsFiniteSet

LEMMA TwoConsumersInit == Two!Init => TwoConsumers!Init
BY DEF Two!Init, TwoConsumers!Init, Two!Idle, TwoConsumers!Idle, Two!FreshSlots,
    TwoConsumers!FreshSlots, Two!Empty, TwoConsumers!Empty, Two!Blocks,
    TwoConsumers!Blocks, Two!FreshEntry, TwoConsumers!FreshEntry, Two!Null,
    TwoConsumers!Null, Two!INVALID_BLOCK_BASE, TwoConsumers!INVALID_BLOCK_BASE,
    Two!FirstHeader, TwoConsumers!FirstHeader

LEMMA TwoConsumersNext == [Two!Next]_queue => [TwoConsumers!Next]_(TwoConsumers!vars)
<1>1. Two!Next => TwoConsumers!Next
  BY
  DEF Two!Next, TwoConsumers!Next, Two!TryDequeue, TwoConsumers!TryDequeue, Two!Free,
      TwoConsumers!Free, Two!counters, TwoConsumers!counters, Two!Idle, TwoConsumers!Idle,
      Two!Becomes, TwoConsumers!Becomes, Two!At, TwoConsumers!At, Two!Unlink,
      TwoConsumers!Unlink, Two!Null, TwoConsumers!Null, Two!SetEmpty,
      TwoConsumers!SetEmpty, Two!AllEmptied, TwoConsumers!AllEmptied, Two!Move,
      TwoConsumers!Move, Two!Empty, TwoConsumers!Empty, Two!Find, TwoConsumers!Find,
      Two!memory, TwoConsumers!memory, Two!Size, TwoConsumers!Size, Two!Base,
      TwoConsumers!Base, Two!Locate, TwoConsumers!Locate, Two!Current,
      TwoConsumers!Current, Two!Last, TwoConsumers!Last, Two!Take, TwoConsumers!Take,
      Two!Undo, TwoConsumers!Undo, Two!Fails, TwoConsumers!Fails, Two!Tries,
      TwoConsumers!Tries, Two!Min, TwoConsumers!Min, Two!Recheck, TwoConsumers!Recheck,
      Two!LessThan, TwoConsumers!LessThan, Two!Bump, TwoConsumers!Bump, Two!Guess,
      TwoConsumers!Guess, Two!LoadTail, TwoConsumers!LoadTail, Two!Choose,
      TwoConsumers!Choose, Two!Scan, TwoConsumers!Scan, Two!Max, TwoConsumers!Max,
      Two!Start, TwoConsumers!Start, Two!Enqueue, TwoConsumers!Enqueue, Two!Publish,
      TwoConsumers!Publish, Two!NoBlock, TwoConsumers!NoBlock, Two!FreeBlocks,
      TwoConsumers!FreeBlocks, Two!Blocks, TwoConsumers!Blocks, Two!FillBlock,
      TwoConsumers!FillBlock, Two!ResetEmpty, TwoConsumers!ResetEmpty, Two!Item,
      TwoConsumers!Item, Two!Obtainable, TwoConsumers!Obtainable, Two!Unmade,
      TwoConsumers!Unmade, Two!MoveIndexTail, TwoConsumers!MoveIndexTail, Two!After,
      TwoConsumers!After, Two!ClaimEntry, TwoConsumers!ClaimEntry, Two!NextEntry,
      TwoConsumers!NextEntry, Two!Reusable, TwoConsumers!Reusable, Two!INVALID_BLOCK_BASE,
      TwoConsumers!INVALID_BLOCK_BASE, Two!BlockStart, TwoConsumers!BlockStart,
      Two!Contains, TwoConsumers!Contains, Two!GrowIndex, TwoConsumers!GrowIndex,
      Two!FreshEntry, TwoConsumers!FreshEntry, Two!Grown, TwoConsumers!Grown,
      Two!EnqueueInBlock, TwoConsumers!EnqueueInBlock, Two!AddProducer,
      TwoConsumers!AddProducer, Two!Added, TwoConsumers!Added
<1>2. UNCHANGED queue => UNCHANGED TwoConsumers!vars
  BY DEF queue, TwoConsumers!vars, TwoConsumers!counters, TwoConsumers!memory
<1> QED BY <1>1, <1>2

\* The invariant of Queue_proofs gives the properties of this queue.
LEMMA TwoConsumersSafe == TwoConsumers!IInv => Two!InOrder /\ Two!OnceOnly /\ Two!BlocksReturn
<1> SUFFICES ASSUME TwoConsumers!IInv PROVE Two!InOrder /\ Two!OnceOnly /\ Two!BlocksReturn
  OBVIOUS
<1>1. TwoConsumers!InOrder /\ TwoConsumers!OnceOnly
  BY DEF TwoConsumers!IInv
<1>2. TwoConsumers!BlocksReturn
  BY TwoConsumersAssumption, TwoConsumers!ReturnedBlocks
<1>3. Two!InOrder /\ Two!OnceOnly
  BY <1>1 DEF Two!InOrder, TwoConsumers!InOrder, Two!OnceOnly, TwoConsumers!OnceOnly, Two!Empty, TwoConsumers!Empty
<1>4. Two!BlocksReturn
  BY <1>2 DEF Two!BlocksReturn, TwoConsumers!BlocksReturn, Two!InUse, TwoConsumers!InUse,
              Two!Blocks, TwoConsumers!Blocks, Two!Empty, TwoConsumers!Empty
<1> QED BY <1>3, <1>4

\* The invariant of the queue that a behaviour exercises.
QueueInv ==
    /\ part \in Parts
    /\ part = "one consumer" => SoleConsumer!IInv
    /\ part = "two consumers" => TwoConsumers!IInv

LEMMA QueuesBegin == MCInit => QueueInv
<1> SUFFICES ASSUME MCInit PROVE QueueInv
  OBVIOUS
<1>1. part \in Parts
  BY DEF MCInit
<1>2. CASE part = "one consumer"
  <2>1. SoleConsumer!IInv
    BY <1>2, SoleConsumerAssumption, SoleConsumerInit, SoleConsumer!IInvInit DEF MCInit
  <2> QED BY <1>1, <1>2, <2>1 DEF QueueInv
<1>3. CASE part = "two consumers"
  <2>1. TwoConsumers!IInv
    BY <1>3, TwoConsumersAssumption, TwoConsumersInit, TwoConsumers!IInvInit DEF MCInit
  <2> QED BY <1>1, <1>3, <2>1 DEF QueueInv
<1> QED BY <1>1, <1>2, <1>3 DEF QueueInv

LEMMA QueuesStep == QueueInv /\ [MCNext]_all => QueueInv'
<1> SUFFICES ASSUME QueueInv, [MCNext]_all PROVE QueueInv'
  OBVIOUS
<1>1. part' = part /\ part \in Parts
  BY DEF MCNext, all, QueueInv
<1>2. CASE part = "one consumer"
  <2>1. [One!Next]_queue
    BY <1>2 DEF MCNext, all
  <2>2. SoleConsumer!IInv'
    BY <1>2, <2>1, SoleConsumerAssumption, SoleConsumerNext, SoleConsumer!IInvStep DEF QueueInv
  <2> QED BY <1>1, <1>2, <2>2 DEF QueueInv
<1>3. CASE part = "two consumers"
  <2>1. [Two!Next]_queue
    BY <1>3 DEF MCNext, all
  <2>2. TwoConsumers!IInv'
    BY <1>3, <2>1, TwoConsumersAssumption, TwoConsumersNext, TwoConsumers!IInvStep DEF QueueInv
  <2> QED BY <1>1, <1>3, <2>2 DEF QueueInv
<1> QED BY <1>1, <1>2, <1>3 DEF QueueInv

LEMMA QueuesInvariant == MCSpec => []QueueInv
BY QueuesBegin, QueuesStep, PTL DEF MCSpec

\* Each consumer takes the elements of a producer in the order in which they were
\* enqueued (concurrentqueue.h:2240-2330).
THEOREM TakenInOrder == MCSpec => []InOrder
<1>1. QueueInv => InOrder
  BY SoleConsumerSafe, TwoConsumersSafe DEF QueueInv, InOrder
<1> QED BY <1>1, QueuesInvariant, PTL

\* Nothing is taken twice, and no slot is read that nothing was built in.
THEOREM TakenOnce == MCSpec => []OnceOnly
<1>1. QueueInv => OnceOnly
  BY SoleConsumerSafe, TwoConsumersSafe DEF QueueInv, OnceOnly
<1> QED BY <1>1, QueuesInvariant, PTL

\* A block is given back when its last element is gone, not before and not later.
THEOREM NoBlockLeaks == MCSpec => []BlocksReturn
<1>1. QueueInv => BlocksReturn
  BY SoleConsumerSafe, TwoConsumersSafe DEF QueueInv, BlocksReturn
<1> QED BY <1>1, QueuesInvariant, PTL
=============================================================================
