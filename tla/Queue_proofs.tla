---------------------------- MODULE Queue_proofs ----------------------------
(***************************************************************************)
(* For any threads, any block size, any number of elements: whatever the   *)
(* interleaving of enqueue and try_dequeue, no element is taken twice or   *)
(* out of order, no slot is read that nothing was built in, and a block is *)
(* given back exactly when its last element is gone.                       *)
(***************************************************************************)
EXTENDS ClientQueue, FiniteSetTheorems, SequenceTheorems, WellFoundedInduction, TLAPS

Slots == 0 .. BLOCK_SIZE - 1

-----------------------------------------------------------------------------
(* What each variable can be                                               *)

Header == [tail : Nat, index : Seq(Nat)]
Entry == [key : Nat, value : Blocks \cup {Null}]
Memory == [slots : [Slots -> Nat \X Nat], emptied : Nat, at : {"pool", "heap", "free", "used"}]
Seen == [Producers -> Nat]

Scanning == [at : {"scan"}, todo : Seq(Producers), best : Producers \cup {Null}, size : Nat,
             count : Nat, seen : Seen]
Checking == [at : {"check"}, p : Producers, todo : Seq(Producers), best : Producers,
             first : BOOLEAN, seen : Seen]
Guessing == [at : {"guess", "bump"}, p : Producers, todo : Seq(Producers), best : Producers,
             first : BOOLEAN, seen : Seen, tail : Nat, over : Nat]
Trying == [at : {"recheck", "take", "undo"}, p : Producers, todo : Seq(Producers),
           best : Producers, first : BOOLEAN, seen : Seen, over : Nat, my : Nat]
Locating == [at : {"locate"}, p : Producers, i : Nat]
Seeking == [at : {"find"}, p : Producers, i : Nat, h : Nat, t : Nat]
Moving == [at : {"move"}, p : Producers, i : Nat, entry : Nat]
Going == [at : {"empty", "unlink", "free"}, p : Producers, entry : Nat, b : Blocks]

ConsumerState ==
    {Idle} \cup Scanning \cup Checking \cup Guessing \cup Trying
    \cup Locating \cup Seeking \cup Moving \cup Going

TypeInv ==
    /\ list \in Seq(Producers)
    /\ tail \in [Producers -> Nat] /\ head \in [Producers -> Nat]
    /\ optimistic \in [Producers -> Nat] /\ overcommit \in [Producers -> Nat]
    /\ headers \in [Producers -> Seq(Header)]
    /\ entries \in [Producers -> Seq(Entry)]
    /\ block \in [Blocks -> Memory]
    /\ pooled \in 0 .. PoolSize
    /\ prod \in [Producers -> [at : {"idle", "link", "block", "publish"}]]
    /\ cons \in [Consumers -> ConsumerState]
    /\ got \in [Consumers -> Seq(Nat \X Nat)]

\* A scan that counted a producer has one to begin with.
Chosen(c) == At(c, "scan") => (cons[c].count = 0 /\ cons[c].size = 0) \/ cons[c].best \in Producers

-----------------------------------------------------------------------------
(* The counters                                                            *)

Busy(p, at) == {c \in Consumers : At(c, at) /\ cons[c].p = p}
Rechecking(p) == Busy(p, "recheck")

\* The elements that are promised: taken, or about to be.
Promised(p) == head[p] + Cardinality(Busy(p, "take"))

\* Those who got their place in the count not after c did, c included.
Before(c) == {d \in Rechecking(cons[c].p) : cons[d].my <= cons[c].my}

Counts(p) ==
    /\ Promised(p) <= tail[p]
    /\ optimistic[p] = Promised(p) + overcommit[p] + Cardinality(Busy(p, "undo"))
                       + Cardinality(Rechecking(p))
    /\ \A c \in Consumers :
           cons[c].at \in {"guess", "bump", "recheck"} /\ cons[c].p = p => cons[c].over <= overcommit[p]
    /\ \A c \in Rechecking(p) :
           /\ cons[c].my < optimistic[p]
           /\ LET n == Promised(p) + Cardinality(Before(c))
              IN  n <= tail[p] \/ n <= cons[c].my + 1 - cons[c].over
    /\ \A c, d \in Rechecking(p) : cons[c].my = cons[d].my => c = d

-----------------------------------------------------------------------------
(* The block index of one producer, which has made the headers hs, shared  *)
(* the entries es, published n elements, and is before the step at.        *)

Multiple(a, n) == a % n = 0

\* The headers: each has a tail and names entries, the last one names each entry once.
Headers(hs, es) ==
    /\ hs # <<>>
    /\ \A h \in DOMAIN hs :
           /\ hs[h].tail \in DOMAIN hs[h].index
           /\ \A x \in DOMAIN hs[h].index : hs[h].index[x] \in DOMAIN es
    /\ LET now == Last(hs).index
       IN  /\ Len(now) = Len(es)
           /\ \A x, y \in DOMAIN now : now[x] = now[y] => x = y
           /\ \A e \in DOMAIN es : \E x \in DOMAIN now : now[x] = e

\* Around an older header, entries are as far from each other as around the last one.
Spaced(old, now) ==
    /\ Multiple(Len(now), Len(old))
    /\ \A x, y \in DOMAIN old, u, v \in DOMAIN now :
           old[x] = now[u] /\ old[y] = now[v] => Multiple((x - y) - (u - v), Len(old))

\* How many places the place x is behind the tail.
Behind(header, x) ==
    IF x <= header.tail THEN header.tail - x ELSE header.tail - x + Size(header)

\* The base of the block that the tail's entry is for, and the first base without a block.
AtStart(n) == n % BLOCK_SIZE = 0
Newest(n, at) == IF AtStart(n) /\ at \in {"idle", "link"} THEN n - BLOCK_SIZE ELSE Base(n)
Filled(n, at) == IF AtStart(n) /\ at # "publish" THEN n ELSE Base(n) + BLOCK_SIZE

\* Around the last header, the keys go down by a block at each place; only the next
\* entry may be claimed already, for a block that was not there (or not yet).
Keyed(hs, es, n, at) ==
    LET now == Last(hs)
    IN  \A x \in DOMAIN now.index :
            LET e == es[now.index[x]]
            IN  /\ e.key = INVALID_BLOCK_BASE => e.value = Null
                /\ \/ e.key = INVALID_BLOCK_BASE
                   \/ e.key = Newest(n, at) - BLOCK_SIZE * Behind(now, x)
                   \/ /\ AtStart(n) /\ at \in {"idle", "link"}
                      /\ x = After(now, now.tail) /\ e.key = n /\ e.value = Null

\* The entry at the tail has been claimed once something was enqueued; an entry is claimed
\* before the tail moves to it, and has no block until there is one.
Linked(hs, es, n, at) ==
    LET now == Last(hs)
        newest == es[now.index[now.tail]]
        next == es[now.index[After(now, now.tail)]]
        Previous(x) == IF x = 1 THEN Size(now) ELSE x - 1
    IN  /\ at \in {"link", "block"} => AtStart(n)
        /\ at # "block" /\ (n > 0 \/ at = "publish") => newest.key # INVALID_BLOCK_BASE
        /\ at = "link" => next.key = n /\ next.value = Null
        /\ at = "block" =>
               /\ newest.key = n /\ newest.value = Null
               /\ n > 0 => es[now.index[Previous(now.tail)]].key # INVALID_BLOCK_BASE

Ring(hs, es, n, at) ==
    /\ Headers(hs, es)
    /\ \A h \in DOMAIN hs : Spaced(hs[h].index, Last(hs).index)
    /\ Keyed(hs, es, n, at)
    /\ Linked(hs, es, n, at)

-----------------------------------------------------------------------------
(* Elements and blocks                                                     *)

\* c has taken the number i of p, and will move the element.
Claims(c, p, i) == cons[c].at \in {"locate", "find", "move"} /\ cons[c].p = p /\ cons[c].i = i

\* The element i of p has been moved out.
Moved(p, i) == i < head[p] /\ \A c \in Consumers : ~ Claims(c, p, i)

\* The first number of p that no element was built for.
Built(p) == IF prod[p].at = "publish" THEN tail[p] + 1 ELSE tail[p]

\* An entry leads to a block.
Holds(e, base) == e.value # Null /\ e.key = base

\* Those that claim an element claim different ones, and find its block.
Taking ==
    \A c, d \in Consumers : \A p \in Producers, i \in Nat :
        Claims(c, p, i) => i < head[p] /\ (Claims(d, p, i) => c = d)

Finds(s, hs, es) ==
    /\ s.h \in DOMAIN hs
    /\ s.t \in DOMAIN hs[s.h].index
    /\ es[hs[s.h].index[s.t]].key # INVALID_BLOCK_BASE
    /\ \E x \in DOMAIN hs[s.h].index : Holds(es[hs[s.h].index[x]], Base(s.i))

Finding ==
    \A c \in Consumers :
        /\ At(c, "find") => Finds(cons[c], headers[cons[c].p], entries[cons[c].p])
        /\ At(c, "move") =>
               /\ cons[c].entry \in DOMAIN entries[cons[c].p]
               /\ Holds(entries[cons[c].p][cons[c].entry], Base(cons[c].i))

\* What is not moved out yet has a block, built or not.
Present(p) ==
    \A i \in 0 .. Filled(tail[p], prod[p].at) - 1 :
        ~ Moved(p, i) => \E e \in DOMAIN entries[p] : Holds(entries[p][e], Base(i))

Users(b, ats) == {c \in Consumers : cons[c].at \in ats /\ cons[c].b = b}
Left(p, base) == {k \in Slots : ~ Moved(p, base + k)}

\* A block that an entry leads to: what is in it, and how many of its elements are gone.
Kept(p, e) ==
    LET base == entries[p][e].key
        b == entries[p][e].value
    IN  /\ block[b].at = "used"
        /\ \A k \in Slots :
               block[b].slots[k] = IF base + k < Built(p) /\ ~ Moved(p, base + k)
                                   THEN <<p, base + k + 1>> ELSE Empty
        /\ block[b].emptied + Cardinality(Users(b, {"empty"})) + Cardinality(Left(p, base))
           = BLOCK_SIZE

Keeping ==
    /\ \A p \in Producers : \A e \in DOMAIN entries[p] : entries[p][e].value # Null => Kept(p, e)
    /\ \A p, q \in Producers : \A e \in DOMAIN entries[p], f \in DOMAIN entries[q] :
           entries[p][e].value # Null /\ entries[p][e].value = entries[q][f].value => p = q /\ e = f

\* Those that have moved an element out, and whoever finds the block empty.
Leaves(c) ==
    /\ cons[c].at \in {"empty", "unlink"} =>
           /\ cons[c].entry \in DOMAIN entries[cons[c].p]
           /\ entries[cons[c].p][cons[c].entry].value = cons[c].b
    /\ At(c, "free") =>
           /\ block[cons[c].b].at = "used"
           /\ block[cons[c].b].slots = FreshSlots
           /\ \A p \in Producers : \A e \in DOMAIN entries[p] : entries[p][e].value # cons[c].b
    /\ cons[c].at \in {"unlink", "free"} => block[cons[c].b].emptied = BLOCK_SIZE

Leaving ==
    /\ \A c \in Consumers : Leaves(c)
    /\ \A c, d \in Consumers :
           {cons[c].at, cons[d].at} \subseteq {"unlink", "free"} /\ cons[c].b = cons[d].b => c = d

Returned ==
    \A b \in Blocks :
        /\ block[b].at # "used" => block[b].slots = FreshSlots
        /\ block[b].at = "used" /\ block[b].emptied = BLOCK_SIZE => Users(b, {"unlink", "free"}) # {}
        /\ b \in pooled + 1 .. PoolSize => block[b].at = "pool"

-----------------------------------------------------------------------------
(* What was taken                                                          *)

Taken ==
    /\ \A c \in Consumers : \A j \in DOMAIN got[c] :
           got[c][j][1] \in Producers /\ got[c][j][2] > 0 /\ Moved(got[c][j][1], got[c][j][2] - 1)
    /\ \A c \in Consumers : \A j \in DOMAIN got[c] : \A p \in Producers, i \in Nat :
           Claims(c, p, i) /\ got[c][j][1] = p => got[c][j][2] <= i

AllChosen == \A c \in Consumers : Chosen(c)
AllCounts == \A p \in Producers : Counts(p)
Rings == \A p \in Producers : Ring(headers[p], entries[p], tail[p], prod[p].at)
Accounted == (\A p \in Producers : Present(p)) /\ Keeping /\ Leaving /\ Returned

IInv ==
    /\ TypeInv /\ AllChosen /\ AllCounts /\ Rings
    /\ Taking /\ Finding /\ Accounted
    /\ Taken /\ InOrder /\ OnceOnly
-----------------------------------------------------------------------------
(* Arithmetic                                                              *)

\* What a division leaves.
LEMMA Divided ==
    ASSUME NEW a \in Int, NEW n \in Nat \ {0}
    PROVE  a \div n \in Int /\ a % n \in 0 .. n - 1 /\ a = n * (a \div n) + (a % n)
OBVIOUS

LEMMA TimesInt ==
    ASSUME NEW a \in Int, NEW b \in Int
    PROVE  a * b \in Int /\ a * b = b * a
OBVIOUS

LEMMA TimesSum ==
    ASSUME NEW a \in Int, NEW b \in Int, NEW n \in Int
    PROVE  n * (a + b) = n * a + n * b /\ n * (a - b) = n * a - n * b
OBVIOUS

LEMMA TimesOrder ==
    ASSUME NEW a \in Int, NEW b \in Int, NEW n \in Nat \ {0}, a < b
    PROVE  n * a + n <= n * b
<1>1. b - a >= 1
  OBVIOUS
<1>2. n * (b - a) >= n
  BY <1>1
<1> QED BY <1>2, TimesSum, TimesInt

\* A quotient and a remainder are the only ones.
LEMMA DividedOnce ==
    ASSUME NEW n \in Nat \ {0}, NEW a \in Int, NEW b \in Int, NEW r \in 0 .. n - 1, NEW t \in 0 .. n - 1,
           n * a + r = n * b + t
    PROVE  a = b /\ r = t
<1> DEFINE u == n * a
           v == n * b
<1>1. u \in Int /\ v \in Int /\ u + r = v + t
  BY TimesInt
<1>2. ~ (a < b)
  <2> SUFFICES ASSUME a < b PROVE FALSE
    OBVIOUS
  <2>1. u + n <= v
    BY TimesOrder
  <2> HIDE DEF u, v
  <2> QED BY <1>1, <2>1
<1>3. ~ (b < a)
  <2> SUFFICES ASSUME b < a PROVE FALSE
    OBVIOUS
  <2>1. v + n <= u
    BY TimesOrder
  <2> HIDE DEF u, v
  <2> QED BY <1>1, <2>1
<1>4. a = b
  BY <1>2, <1>3
<1> HIDE DEF u, v
<1>5. u = v
  BY <1>4 DEF u, v
<1> QED BY <1>1, <1>4, <1>5

LEMMA Quotient ==
    ASSUME NEW n \in Nat \ {0}, NEW a \in Int, NEW r \in 0 .. n - 1
    PROVE  (n * a + r) \div n = a /\ (n * a + r) % n = r
<1> DEFINE c == n * a + r
<1>1. c \in Int
  BY TimesInt
<1> HIDE DEF c
<1>2. c \div n \in Int /\ c % n \in 0 .. n - 1 /\ c = n * (c \div n) + (c % n)
  BY <1>1, Divided
<1>3. n * a + r = n * (c \div n) + (c % n)
  BY <1>2 DEF c
<1>4. a = c \div n /\ r = c % n
  BY <1>2, <1>3, DividedOnce
<1> QED BY <1>4 DEF c

\* Multiples.
LEMMA MultipleIs ==
    ASSUME NEW n \in Nat \ {0}, NEW a \in Int
    PROVE  Multiple(a, n) <=> \E q \in Int : a = n * q
<1>1. ASSUME Multiple(a, n) PROVE \E q \in Int : a = n * q
  <2> DEFINE q == a \div n
  <2>1. q \in Int /\ a % n \in 0 .. n - 1 /\ a = n * q + (a % n)
    BY Divided
  <2>2. a % n = 0
    BY <1>1 DEF Multiple
  <2>3. n * q \in Int
    BY <2>1, TimesInt
  <2> HIDE DEF q
  <2>4. a = n * q
    BY <2>1, <2>2, <2>3
  <2> QED BY <2>1, <2>4
<1>2. ASSUME NEW q \in Int, a = n * q PROVE Multiple(a, n)
  <2>1. n * q + 0 = a /\ (n * q + 0) % n = 0
    BY <1>2, Quotient, TimesInt
  <2> QED BY <2>1 DEF Multiple
<1> QED BY <1>1, <1>2

LEMMA MultipleSum ==
    ASSUME NEW n \in Nat \ {0}, NEW a \in Int, NEW b \in Int, Multiple(a, n), Multiple(b, n)
    PROVE  Multiple(a + b, n) /\ Multiple(a - b, n)
<1>1. PICK q \in Int : a = n * q
  BY MultipleIs
<1>2. PICK r \in Int : b = n * r
  BY MultipleIs
<1>3. a + b = n * (q + r) /\ a - b = n * (q - r)
  BY <1>1, <1>2, TimesSum
<1>4. q + r \in Int /\ q - r \in Int /\ a + b \in Int /\ a - b \in Int
  OBVIOUS
<1> QED BY <1>3, <1>4, MultipleIs

LEMMA MultipleOf ==
    ASSUME NEW n \in Nat \ {0}, NEW m \in Nat \ {0}, NEW a \in Int, Multiple(a, m), Multiple(m, n)
    PROVE  Multiple(a, n)
<1>1. PICK q \in Int : a = m * q
  BY MultipleIs
<1>2. PICK r \in Int : m = n * r
  BY MultipleIs
<1>3. a = n * (r * q) /\ r * q \in Int
  BY <1>1, <1>2
<1> QED BY <1>3, MultipleIs

LEMMA MultipleSelf ==
    ASSUME NEW n \in Nat \ {0}
    PROVE  Multiple(0, n) /\ Multiple(n, n) /\ Multiple(- n, n)
<1>1. 0 = n * 0 /\ n = n * 1 /\ - n = n * (-1)
  OBVIOUS
<1> QED BY <1>1, MultipleIs

\* The base of a number.
LEMMA BlockSize ==
    ASSUME QueueAssumption
    PROVE  BLOCK_SIZE \in Nat /\ BLOCK_SIZE > 1 /\ BLOCK_SIZE \in Nat \ {0} /\ BLOCK_SIZE \in Int
BY DEF QueueAssumption

LEMMA BaseIs ==
    ASSUME QueueAssumption, NEW i \in Nat
    PROVE  /\ Base(i) \in Nat /\ Base(i) <= i /\ i < Base(i) + BLOCK_SIZE
           /\ i % BLOCK_SIZE \in Slots /\ i = Base(i) + (i % BLOCK_SIZE)
           /\ Multiple(Base(i), BLOCK_SIZE)
           /\ AtStart(i) <=> Base(i) = i
<1> DEFINE q == i \div BLOCK_SIZE
           r == i % BLOCK_SIZE
<1>1. q \in Int /\ r \in 0 .. BLOCK_SIZE - 1 /\ i = BLOCK_SIZE * q + r
  <2>1. BLOCK_SIZE \in Nat \ {0} /\ i \in Int
    BY BlockSize
  <2> QED BY <2>1, Divided
<1>2. Base(i) = i - r /\ (AtStart(i) <=> r = 0)
  BY DEF Base, AtStart
<1> HIDE DEF q, r
<1>3. Base(i) = BLOCK_SIZE * q
  BY <1>1, <1>2, BlockSize, TimesInt
<1>4. q >= 0
  <2> SUFFICES ASSUME q < 0 PROVE FALSE
    BY <1>1
  <2>1. BLOCK_SIZE * q + BLOCK_SIZE <= BLOCK_SIZE * 0
    BY <1>1, BlockSize, TimesOrder
  <2>2. BLOCK_SIZE * q \in Int
    BY <1>1, BlockSize, TimesInt
  <2> QED BY <1>1, <2>1, <2>2, BlockSize
<1>5. BLOCK_SIZE * q \in Nat
  BY <1>1, <1>4, BlockSize
<1>6. Multiple(Base(i), BLOCK_SIZE)
  BY <1>1, <1>3, <1>5, BlockSize, MultipleIs
<1>7. r \in Slots /\ i = Base(i) + r
  BY <1>1, <1>2, <1>3, <1>5, BlockSize DEF Slots
<1>8. Base(i) \in Nat /\ Base(i) <= i /\ i < Base(i) + BLOCK_SIZE
  BY <1>1, <1>2, <1>3, <1>5, BlockSize
<1>9. AtStart(i) <=> Base(i) = i
  BY <1>1, <1>2
<1> QED BY <1>6, <1>7, <1>8, <1>9 DEF r

LEMMA BaseAt ==
    ASSUME QueueAssumption, NEW base \in Nat, Multiple(base, BLOCK_SIZE), NEW k \in Slots
    PROVE  base + k \in Nat /\ Base(base + k) = base /\ (base + k) % BLOCK_SIZE = k
<1> BLOCK_SIZE \in Nat \ {0} /\ base \in Int
  BY BlockSize
<1>1. PICK q \in Int : base = BLOCK_SIZE * q
  BY MultipleIs
<1>2. k \in 0 .. BLOCK_SIZE - 1
  BY DEF Slots
<1>3. (base + k) % BLOCK_SIZE = k
  BY <1>1, <1>2, BlockSize, Quotient
<1> QED BY <1>2, <1>3, BlockSize DEF Base
-----------------------------------------------------------------------------
(* The types                                                               *)

\* What a consumer is doing gives the fields it has.
LEMMA Forms ==
    ASSUME NEW s \in ConsumerState
    PROVE  /\ s.at = "idle" => s = Idle
           /\ s.at = "scan" => s \in Scanning
           /\ s.at = "check" => s \in Checking
           /\ s.at \in {"guess", "bump"} => s \in Guessing
           /\ s.at \in {"recheck", "take", "undo"} => s \in Trying
           /\ s.at = "locate" => s \in Locating
           /\ s.at = "find" => s \in Seeking
           /\ s.at = "move" => s \in Moving
           /\ s.at \in {"empty", "unlink", "free"} => s \in Going
BY DEF ConsumerState, Idle, Scanning, Checking, Guessing, Trying, Locating, Seeking, Moving, Going

LEMMA Consumer ==
    ASSUME TypeInv, NEW c \in Consumers
    PROVE  /\ cons[c] \in ConsumerState
           /\ cons[c].at = "idle" => cons[c] = Idle
           /\ cons[c].at = "scan" => cons[c] \in Scanning
           /\ cons[c].at = "check" => cons[c] \in Checking
           /\ cons[c].at \in {"guess", "bump"} => cons[c] \in Guessing
           /\ cons[c].at \in {"recheck", "take", "undo"} => cons[c] \in Trying
           /\ cons[c].at = "locate" => cons[c] \in Locating
           /\ cons[c].at = "find" => cons[c] \in Seeking
           /\ cons[c].at = "move" => cons[c] \in Moving
           /\ cons[c].at \in {"empty", "unlink", "free"} => cons[c] \in Going
<1>1. cons[c] \in ConsumerState
  BY DEF TypeInv
<1> QED BY <1>1, Forms

\* A step of one consumer.
LEMMA Became ==
    ASSUME TypeInv, NEW c \in Consumers, NEW s \in ConsumerState, Becomes(c, s)
    PROVE  /\ cons' \in [Consumers -> ConsumerState]
           /\ cons'[c] = s
           /\ \A d \in Consumers \ {c} : cons'[d] = cons[d]
BY DEF TypeInv, Becomes

LEMMA InState ==
    /\ Idle \in ConsumerState /\ Scanning \subseteq ConsumerState /\ Checking \subseteq ConsumerState
    /\ Guessing \subseteq ConsumerState /\ Trying \subseteq ConsumerState
    /\ Locating \subseteq ConsumerState /\ Seeking \subseteq ConsumerState
    /\ Moving \subseteq ConsumerState /\ Going \subseteq ConsumerState
BY DEF ConsumerState

\* The least of some numbers is one of them.
LEMMA LeastIs ==
    ASSUME NEW T, T \subseteq Nat, T # {}
    PROVE  Min(T) \in T
<1> DEFINE U == {0 .. n : n \in T}
           R == StrictSubsetOrdering(Nat)
<1>1. IsWellFoundedOn(R, FiniteSubsetsOf(Nat))
  BY FS_StrictSubsetOrderingWellFounded
<1>2. U \subseteq FiniteSubsetsOf(Nat) /\ U # {}
  <2>1. \A n \in T : 0 .. n \in FiniteSubsetsOf(Nat)
    <3> TAKE n \in T
    <3>1. IsFiniteSet(0 .. n) /\ 0 .. n \subseteq Nat
      BY FS_Interval
    <3> QED BY <3>1 DEF FiniteSubsetsOf
  <2> QED BY <2>1
<1>3. PICK A \in U : \A B \in U : ~ (<<B, A>> \in R)
  <2> HIDE DEF U, R
  <2> QED BY <1>1, <1>2, WFMin
<1>4. PICK m \in T : A = 0 .. m
  OBVIOUS
<1>5. \A n \in T : m <= n
  <2> SUFFICES ASSUME NEW n \in T, n < m PROVE FALSE
    OBVIOUS
  <2>1. 0 .. n \in U /\ 0 .. n \subseteq 0 .. m /\ 0 .. n # 0 .. m
    OBVIOUS
  <2>2. <<0 .. n, A>> \in R
    BY <1>2, <1>4, <2>1 DEF StrictSubsetOrdering, FiniteSubsetsOf
  <2> QED BY <1>3, <2>1, <2>2
<1> QED BY <1>5 DEF Min

LEMMA Greater ==
    ASSUME NEW a \in Int, NEW b \in Int
    PROVE  Max({a, b}) \in {a, b} /\ Max({a, b}) >= a /\ Max({a, b}) >= b
<1> DEFINE S == {a, b}
<1>1. \E x \in S : \A y \in S : x >= y
  OBVIOUS
<1>2. Max(S) \in S /\ \A y \in S : Max(S) >= y
  BY <1>1 DEF Max
<1> QED BY <1>2

LEMMA Lesser ==
    ASSUME NEW a \in Int, NEW b \in Int
    PROVE  Min({a, b}) \in {a, b} /\ Min({a, b}) <= a /\ Min({a, b}) <= b
<1> DEFINE S == {a, b}
<1>1. \E x \in S : \A y \in S : x <= y
  OBVIOUS
<1>2. Min(S) \in S /\ \A y \in S : Min(S) <= y
  BY <1>1 DEF Min
<1> QED BY <1>2
-----------------------------------------------------------------------------
(* Headers and entries                                                     *)

\* The last header, and what it names.
LEMMA LastHeader ==
    ASSUME NEW hs \in Seq(Header), NEW es \in Seq(Entry), Headers(hs, es)
    PROVE  LET now == Last(hs)
               n == Size(now)
           IN  /\ Len(hs) \in DOMAIN hs /\ hs[Len(hs)] = now /\ now \in Header
               /\ n \in Nat \ {0} /\ n = Len(es) /\ DOMAIN now.index = 1 .. n /\ DOMAIN es = 1 .. n
               /\ now.tail \in 1 .. n
               /\ \A x \in 1 .. n :
                      now.index[x] \in 1 .. n /\ es[now.index[x]] \in Entry /\ After(now, x) \in 1 .. n
               /\ \A x, y \in 1 .. n : now.index[x] = now.index[y] => x = y
               /\ \A e \in 1 .. n : \E x \in 1 .. n : now.index[x] = e
<1> DEFINE now == Last(hs)
           n == Size(now)
<1>1. hs # <<>> /\ Len(hs) \in DOMAIN hs /\ hs[Len(hs)] = now /\ now \in Header
  <2>1. hs # <<>>
    BY DEF Headers
  <2> QED BY <2>1 DEF Last
<1>2. now.index \in Seq(Nat) /\ n = Len(now.index) /\ n \in Nat /\ DOMAIN now.index = 1 .. n
  BY <1>1 DEF Header, Size
<1>3. n = Len(es) /\ DOMAIN es = 1 .. n
  BY <1>2 DEF Headers, Size
<1>4. now.tail \in 1 .. n
  BY <1>1, <1>2 DEF Headers
<1>5. n \in Nat \ {0}
  BY <1>2, <1>4
<1>6. \A x \in 1 .. n : now.index[x] \in 1 .. n
  BY <1>1, <1>2, <1>3 DEF Headers
<1>7. \A x \in 1 .. n : es[now.index[x]] \in Entry
  BY <1>3, <1>6
<1>8. \A x \in 1 .. n : After(now, x) \in 1 .. n
  <2> TAKE x \in 1 .. n
  <2>1. x % n \in 0 .. n - 1
    BY <1>5
  <2>2. After(now, x) = (x % n) + 1
    BY DEF After
  <2> HIDE DEF now, n
  <2> QED BY <1>5, <2>1, <2>2
<1>9. /\ \A x, y \in 1 .. n : now.index[x] = now.index[y] => x = y
      /\ \A e \in 1 .. n : \E x \in 1 .. n : now.index[x] = e
  BY <1>2, <1>3 DEF Headers
<1> HIDE DEF now, n
<1>10. /\ Len(hs) \in DOMAIN hs /\ hs[Len(hs)] = now /\ now \in Header
       /\ n \in Nat \ {0} /\ n = Len(es) /\ DOMAIN now.index = 1 .. n /\ DOMAIN es = 1 .. n
       /\ now.tail \in 1 .. n
       /\ \A x \in 1 .. n :
              now.index[x] \in 1 .. n /\ es[now.index[x]] \in Entry /\ After(now, x) \in 1 .. n
  BY <1>1, <1>2, <1>3, <1>4, <1>5, <1>6, <1>7, <1>8
<1> QED BY <1>9, <1>10 DEF now, n

\* The place after another, and the one before.
LEMMA AfterIs ==
    ASSUME NEW header, NEW n \in Nat \ {0}, Size(header) = n, NEW x \in 1 .. n
    PROVE  After(header, x) = IF x = n THEN 1 ELSE x + 1
<1>1. CASE x = n
  <2>1. n = n * 1 + 0
    OBVIOUS
  <2>2. (n * 1 + 0) % n = 0
    BY Quotient
  <2> QED BY <1>1, <2>1, <2>2 DEF After
<1>2. CASE x # n
  <2>1. x = n * 0 + x /\ x \in 0 .. n - 1
    BY <1>2
  <2>2. (n * 0 + x) % n = x
    BY <2>1, Quotient
  <2> QED BY <1>2, <2>1, <2>2 DEF After
<1> QED BY <1>1, <1>2

\* One entry changes, and has the key k and the value v.
Changed(es, fs, e, k, v) ==
    /\ fs \in Seq(Entry) /\ DOMAIN fs = DOMAIN es
    /\ fs[e].key = k /\ fs[e].value = v
    /\ \A f \in DOMAIN es \ {e} : fs[f] = es[f]

\* One header changes its tail.
LEMMA TailSet ==
    ASSUME NEW hs \in Seq(Header), hs # <<>>, NEW t \in Nat
    PROVE  LET h == Len(hs)
               gs == [hs EXCEPT ![h].tail = t]
           IN  /\ gs \in Seq(Header) /\ Len(gs) = h /\ DOMAIN gs = DOMAIN hs /\ gs # <<>>
               /\ Last(gs) = [tail |-> t, index |-> Last(hs).index]
               /\ gs[h].tail = t /\ \A k \in DOMAIN hs : gs[k].index = hs[k].index
               /\ \A k \in DOMAIN hs \ {h} : gs[k] = hs[k]
<1> DEFINE h == Len(hs)
           new == [hs[h] EXCEPT !.tail = t]
           gs == [hs EXCEPT ![h] = new]
<1>1. h \in DOMAIN hs /\ h \in Nat /\ hs[h] \in Header
  OBVIOUS
<1>2. new \in Header /\ new = [tail |-> t, index |-> hs[h].index]
  BY <1>1 DEF Header
<1> HIDE DEF new
<1>3. /\ gs \in Seq(Header) /\ Len(gs) = h /\ DOMAIN gs = DOMAIN hs /\ gs # <<>>
      /\ gs[h] = new /\ \A k \in DOMAIN hs \ {h} : gs[k] = hs[k]
  BY <1>1, <1>2
<1>4. Last(gs) = new /\ Last(hs) = hs[h]
  BY <1>3 DEF Last
<1>5. gs = [hs EXCEPT ![h].tail = t]
  BY DEF new
<1> HIDE DEF gs
<1> QED BY <1>2, <1>3, <1>4, <1>5
-----------------------------------------------------------------------------
(* The block index                                                         *)

\* The block of the next number.
LEMMA NextBase ==
    ASSUME QueueAssumption, NEW n \in Nat
    PROVE  \/ /\ ~ AtStart(n + 1) /\ Base(n + 1) = Base(n)
           \/ /\ AtStart(n + 1) /\ Base(n + 1) = n + 1 /\ n + 1 = Base(n) + BLOCK_SIZE /\ ~ AtStart(n)
<1> DEFINE b == Base(n)
           k == n % BLOCK_SIZE
<1>1. b \in Nat /\ k \in Slots /\ n = b + k /\ Multiple(b, BLOCK_SIZE) /\ (AtStart(n) <=> k = 0)
  BY BaseIs DEF AtStart
<1> HIDE DEF b, k
<1>2. CASE k + 1 \in Slots
  <2>1. Base(b + (k + 1)) = b /\ (b + (k + 1)) % BLOCK_SIZE = k + 1
    BY <1>1, <1>2, BaseAt
  <2>2. b + (k + 1) = n + 1
    BY <1>1, BlockSize DEF Slots
  <2>3. k + 1 # 0
    BY <1>1 DEF Slots
  <2> QED BY <2>1, <2>2, <2>3 DEF AtStart, b
<1>3. CASE k + 1 \notin Slots
  <2>1. k + 1 = BLOCK_SIZE /\ n + 1 = b + BLOCK_SIZE /\ k # 0
    BY <1>1, <1>3, BlockSize DEF Slots
  <2>2. BLOCK_SIZE \in Nat \ {0} /\ b \in Int /\ BLOCK_SIZE \in Int
    BY <1>1, BlockSize
  <2>3. Multiple(b + BLOCK_SIZE, BLOCK_SIZE)
    BY <1>1, <2>2, MultipleSelf, MultipleSum
  <2>4. AtStart(n + 1)
    BY <2>1, <2>3 DEF Multiple, AtStart
  <2>5. Base(n + 1) = n + 1
    BY <2>4, BaseIs
  <2> QED BY <1>1, <2>1, <2>4, <2>5 DEF b
<1> QED BY <1>2, <1>3

\* What the tail's entry is for, and what has a block, in each state of the producer.
LEMMA NewestIs ==
    ASSUME QueueAssumption, NEW n \in Nat
    PROVE  /\ AtStart(n) =>
                  /\ Base(n) = n
                  /\ \A at \in {"idle", "link"} : Newest(n, at) = n - BLOCK_SIZE /\ Filled(n, at) = n
                  /\ Newest(n, "block") = n /\ Filled(n, "block") = n
           /\ ~ AtStart(n) =>
                  \A at : Newest(n, at) = Base(n) /\ Filled(n, at) = Base(n) + BLOCK_SIZE
           /\ Newest(n, "publish") = Base(n) /\ Filled(n, "publish") = Base(n) + BLOCK_SIZE
           /\ Newest(n + 1, "idle") = Newest(n, "publish")
           /\ Filled(n + 1, "idle") = Filled(n, "publish")
           /\ \A at : Newest(n, at) \in Int /\ Filled(n, at) \in Nat
<1>1. BLOCK_SIZE \in Nat /\ BLOCK_SIZE > 1 /\ Base(n) \in Nat /\ (AtStart(n) => Base(n) = n)
  BY BlockSize, BaseIs
<1>2. /\ AtStart(n) =>
                  /\ \A at \in {"idle", "link"} : Newest(n, at) = n - BLOCK_SIZE /\ Filled(n, at) = n
                  /\ Newest(n, "block") = n /\ Filled(n, "block") = n
      /\ ~ AtStart(n) =>
                  \A at : Newest(n, at) = Base(n) /\ Filled(n, at) = Base(n) + BLOCK_SIZE
      /\ Newest(n, "publish") = Base(n) /\ Filled(n, "publish") = Base(n) + BLOCK_SIZE
  BY <1>1 DEF Newest, Filled
<1>3. \A at : Newest(n, at) \in Int /\ Filled(n, at) \in Nat
  BY <1>1 DEF Newest, Filled
<1>4. Newest(n + 1, "idle") = Newest(n, "publish") /\ Filled(n + 1, "idle") = Filled(n, "publish")
  <2>1. CASE ~ AtStart(n + 1) /\ Base(n + 1) = Base(n)
    BY <1>1, <1>2, <2>1 DEF Newest, Filled
  <2>2. CASE AtStart(n + 1) /\ n + 1 = Base(n) + BLOCK_SIZE
    BY <1>1, <1>2, <2>2 DEF Newest, Filled
  <2> QED BY <2>1, <2>2, NextBase
<1> QED BY <1>1, <1>2, <1>3, <1>4

\* How far places are behind the tail.
LEMMA BehindIs ==
    ASSUME NEW header, NEW n \in Nat \ {0}, Size(header) = n, header.tail \in 1 .. n
    PROVE  /\ \A x \in 1 .. n : Behind(header, x) \in 0 .. n - 1
           /\ \A x, y \in 1 .. n : Behind(header, x) = Behind(header, y) => x = y
           /\ Behind(header, header.tail) = 0
           /\ Behind(header, After(header, header.tail)) = n - 1
<1>1. \A x \in 1 .. n : Behind(header, x) \in 0 .. n - 1
  BY DEF Behind
<1>2. \A x, y \in 1 .. n : Behind(header, x) = Behind(header, y) => x = y
  BY DEF Behind
<1>3. Behind(header, header.tail) = 0
  BY DEF Behind
<1>4. Behind(header, After(header, header.tail)) = n - 1
  BY AfterIs DEF Behind
<1> QED BY <1>1, <1>2, <1>3, <1>4

\* Nothing but the tail of the last header changes in the headers.
TailAt(hs, t) == [hs EXCEPT ![Len(hs)].tail = t]

LEMMA HeadersTail ==
    ASSUME NEW hs \in Seq(Header), NEW es \in Seq(Entry), Headers(hs, es),
           \A h \in DOMAIN hs : Spaced(hs[h].index, Last(hs).index),
           NEW t \in DOMAIN Last(hs).index, NEW gs, gs = TailAt(hs, t)
    PROVE  /\ gs \in Seq(Header) /\ Len(gs) = Len(hs) /\ DOMAIN gs = DOMAIN hs
           /\ Last(gs) = [tail |-> t, index |-> Last(hs).index]
           /\ \A h \in DOMAIN hs : gs[h].index = hs[h].index
           /\ Headers(gs, es)
           /\ \A h \in DOMAIN gs : Spaced(gs[h].index, Last(gs).index)
<1>1. hs # <<>> /\ t \in Nat
  BY LastHeader DEF Headers
<1>2. /\ gs \in Seq(Header) /\ Len(gs) = Len(hs) /\ DOMAIN gs = DOMAIN hs /\ gs # <<>>
      /\ Last(gs) = [tail |-> t, index |-> Last(hs).index]
      /\ gs[Len(hs)].tail = t /\ \A h \in DOMAIN hs : gs[h].index = hs[h].index
      /\ \A h \in DOMAIN hs \ {Len(hs)} : gs[h] = hs[h]
  BY <1>1, TailSet DEF TailAt
<1>3. Len(hs) \in DOMAIN hs /\ hs[Len(hs)] = Last(hs)
  BY LastHeader
<1>4. \A h \in DOMAIN gs : gs[h].tail \in DOMAIN gs[h].index
  <2> TAKE h \in DOMAIN gs
  <2>1. CASE h = Len(hs)
    BY <1>2, <1>3, <2>1
  <2>2. CASE h # Len(hs)
    BY <1>2, <2>2 DEF Headers
  <2> QED BY <2>1, <2>2
<1>5. Headers(gs, es)
  <2>1. Last(gs).index = Last(hs).index
    BY <1>2
  <2>2. \A h \in DOMAIN gs : \A x \in DOMAIN gs[h].index : gs[h].index[x] \in DOMAIN es
    BY <1>2 DEF Headers
  <2>3. LET now == Last(gs).index
        IN  /\ Len(now) = Len(es)
            /\ \A x, y \in DOMAIN now : now[x] = now[y] => x = y
            /\ \A e \in DOMAIN es : \E x \in DOMAIN now : now[x] = e
    BY <2>1 DEF Headers
  <2> QED BY <1>2, <1>4, <2>2, <2>3 DEF Headers
<1>6. \A h \in DOMAIN gs : Spaced(gs[h].index, Last(gs).index)
  BY <1>2
<1> QED BY <1>2, <1>5, <1>6

\* An entry changes, and nothing else.
LEMMA HeadersEntry ==
    ASSUME NEW hs \in Seq(Header), NEW es \in Seq(Entry), Headers(hs, es),
           NEW fs \in Seq(Entry), DOMAIN fs = DOMAIN es
    PROVE  Headers(hs, fs)
<1>1. Len(fs) = Len(es)
  OBVIOUS
<1> QED BY <1>1 DEF Headers

\* No block begins at INVALID_BLOCK_BASE.
LEMMA NotInvalid ==
    ASSUME QueueAssumption, NEW n \in Nat, AtStart(n)
    PROVE  n # INVALID_BLOCK_BASE
<1>1. 0 \in Nat /\ 1 \in Slots /\ Multiple(0, BLOCK_SIZE)
  BY BlockSize, MultipleSelf DEF Slots
<1>2. Base(0 + 1) = 0
  BY <1>1, BaseAt
<1>3. Base(n) = n
  BY BaseIs
<1> QED BY <1>2, <1>3 DEF INVALID_BLOCK_BASE

\* ClaimEntry
LEMMA RingClaim ==
    ASSUME QueueAssumption, NEW hs \in Seq(Header), NEW es \in Seq(Entry), NEW n \in Nat,
           Ring(hs, es, n, "idle"), AtStart(n),
           NEW e, e = Last(hs).index[After(Last(hs), Last(hs).tail)], Reusable(es[e]),
           NEW fs, Changed(es, fs, e, n, es[e].value)
    PROVE  Ring(hs, fs, n, "link") /\ es[e].value = Null
<1> DEFINE now == Last(hs)
           m == Size(now)
           next == After(now, now.tail)
<1>1. Headers(hs, es) /\ Keyed(hs, es, n, "idle") /\ Linked(hs, es, n, "idle")
      /\ \A h \in DOMAIN hs : Spaced(hs[h].index, Last(hs).index)
  BY DEF Ring
<1>2. /\ m \in Nat \ {0} /\ DOMAIN now.index = 1 .. m /\ DOMAIN es = 1 .. m
      /\ now.tail \in 1 .. m /\ next \in 1 .. m /\ e \in 1 .. m
      /\ \A x \in 1 .. m : now.index[x] \in 1 .. m /\ es[now.index[x]] \in Entry
      /\ \A x, y \in 1 .. m : now.index[x] = now.index[y] => x = y
  <2>1. LET M == Size(now)
        IN  /\ M \in Nat \ {0} /\ DOMAIN now.index = 1 .. M /\ DOMAIN es = 1 .. M
            /\ now.tail \in 1 .. M
            /\ \A x \in 1 .. M :
                   now.index[x] \in 1 .. M /\ es[now.index[x]] \in Entry /\ After(now, x) \in 1 .. M
            /\ \A x, y \in 1 .. M : now.index[x] = now.index[y] => x = y
    BY <1>1, LastHeader
  <2>2. e = now.index[next]
    OBVIOUS
  <2> HIDE DEF now, m
  <2> QED BY <2>1, <2>2 DEF m, next
<1>3. es[e] \in Entry /\ n # INVALID_BLOCK_BASE
  BY <1>2, NotInvalid
<1>4. es[e].value = Null
  BY <1>1, <1>2 DEF Reusable, Keyed
<1>5. /\ fs \in Seq(Entry) /\ DOMAIN fs = DOMAIN es
      /\ fs[e].key = n /\ fs[e].value = Null /\ \A f \in DOMAIN es \ {e} : fs[f] = es[f]
  BY <1>4 DEF Changed
<1>6. Headers(hs, fs)
  BY <1>1, <1>5, HeadersEntry
<1>7. Newest(n, "link") = Newest(n, "idle")
  BY DEF Newest
<1>8. Keyed(hs, fs, n, "link")
  <2> SUFFICES ASSUME NEW x \in 1 .. m
               PROVE  LET f == fs[now.index[x]]
                      IN  /\ f.key = INVALID_BLOCK_BASE => f.value = Null
                          /\ \/ f.key = INVALID_BLOCK_BASE
                             \/ f.key = Newest(n, "link") - BLOCK_SIZE * Behind(now, x)
                             \/ x = After(now, now.tail) /\ f.key = n /\ f.value = Null
    BY <1>2 DEF Keyed
  <2>1. CASE x = next
    BY <1>5, <2>1
  <2>2. CASE x # next
    <3>1. now.index[x] \in DOMAIN es \ {e}
      BY <1>2, <2>2
    <3> QED BY <1>1, <1>2, <1>5, <1>7, <2>2, <3>1 DEF Keyed
  <2> QED BY <2>1, <2>2
<1>9. Linked(hs, fs, n, "link")
  <2>1. n > 0 => fs[now.index[now.tail]].key # INVALID_BLOCK_BASE
    <3>1. n > 0 => es[now.index[now.tail]].key # INVALID_BLOCK_BASE
      BY <1>1 DEF Linked
    <3>2. now.index[now.tail] \in DOMAIN es
      BY <1>2
    <3> QED BY <1>3, <1>5, <3>1, <3>2
  <2> QED BY <1>5, <2>1 DEF Linked
<1> QED BY <1>1, <1>4, <1>6, <1>8, <1>9 DEF Ring

\* MoveIndexTail
LEMMA RingMove ==
    ASSUME QueueAssumption, NEW hs \in Seq(Header), NEW es \in Seq(Entry), NEW n \in Nat,
           Ring(hs, es, n, "link"),
           NEW gs, gs = TailAt(hs, After(Last(hs), Last(hs).tail))
    PROVE  Ring(gs, es, n, "block")
<1> DEFINE now == Last(hs)
           new == Last(gs)
           m == Size(now)
           next == After(now, now.tail)
<1>1. Headers(hs, es) /\ Keyed(hs, es, n, "link") /\ Linked(hs, es, n, "link") /\ AtStart(n)
      /\ \A h \in DOMAIN hs : Spaced(hs[h].index, Last(hs).index)
  BY DEF Ring, Linked
<1>2. /\ m \in Nat \ {0} /\ DOMAIN now.index = 1 .. m
      /\ now.tail \in 1 .. m /\ next \in 1 .. m
  BY <1>1, LastHeader
<1>3. /\ Headers(gs, es) /\ \A h \in DOMAIN gs : Spaced(gs[h].index, Last(gs).index)
      /\ new = [tail |-> next, index |-> now.index]
  BY <1>1, <1>2, HeadersTail
<1>4. new.tail = next /\ new.index = now.index /\ Size(new) = m
  BY <1>3 DEF Size
<1>5. Newest(n, "block") = Newest(n, "link") + BLOCK_SIZE /\ Newest(n, "block") = n /\ Newest(n, "link") \in Int
      /\ BLOCK_SIZE \in Nat \ {0} /\ BLOCK_SIZE \in Int
  BY <1>1, BlockSize, NewestIs
<1>6. /\ Behind(new, next) = 0
      /\ \A x \in 1 .. m \ {next} : Behind(new, x) = Behind(now, x) + 1 /\ Behind(now, x) \in Int
  <2>1. \A x \in 1 .. m : Behind(now, x) \in Int
    BY <1>2, BehindIs
  <2>2. Size(now) = m
    OBVIOUS
  <2>3. new.tail = After(now, now.tail) /\ new.tail = next /\ Size(new) = m
    BY <1>4
  <2> HIDE DEF now, new, m, next
  <2>4. /\ \A x \in 1 .. m \ {new.tail} : Behind(new, x) = Behind(now, x) + 1
        /\ Behind(new, new.tail) = 0
    <3>1. new.tail = IF now.tail = m THEN 1 ELSE now.tail + 1
      BY <1>2, <2>2, <2>3, AfterIs
    <3>2. \A x : /\ Behind(new, x) = IF x <= new.tail THEN new.tail - x ELSE new.tail - x + m
                 /\ Behind(now, x) = IF x <= now.tail THEN now.tail - x ELSE now.tail - x + m
      BY <2>2, <2>3 DEF Behind
    <3> DEFINE t == now.tail
               u == new.tail
    <3>3. m \in Nat \ {0} /\ t \in 1 .. m
      BY <1>2
    <3>4. Behind(new, u) = 0
      BY <2>3, <3>1, <3>2, <3>3
    <3>5. \A x \in 1 .. m \ {u} : Behind(new, x) = Behind(now, x) + 1
      <4> TAKE x \in 1 .. m \ {u}
      <4>1. Behind(new, x) = IF x <= u THEN u - x ELSE u - x + m
        BY <3>2
      <4>2. Behind(now, x) = IF x <= t THEN t - x ELSE t - x + m
        BY <3>2
      <4>3. u = IF t = m THEN 1 ELSE t + 1
        BY <3>1
      <4> HIDE DEF t, u
      <4> QED BY <3>3, <4>1, <4>2, <4>3
    <3> QED BY <3>4, <3>5
  <2> QED BY <2>1, <2>3, <2>4
<1>7. es[now.index[next]].key = n /\ es[now.index[next]].value = Null /\ n # INVALID_BLOCK_BASE
  BY <1>1, NotInvalid DEF Linked
<1>8. Keyed(gs, es, n, "block")
  <2> SUFFICES ASSUME NEW x \in 1 .. m
               PROVE  LET e == es[now.index[x]]
                      IN  /\ e.key = INVALID_BLOCK_BASE => e.value = Null
                          /\ \/ e.key = INVALID_BLOCK_BASE
                             \/ e.key = Newest(n, "block") - BLOCK_SIZE * Behind(new, x)
    BY <1>2, <1>4 DEF Keyed
  <2>1. CASE x = next
    <3>1. BLOCK_SIZE * 0 = 0
      BY <1>5
    <3>2. n - 0 = n
      OBVIOUS
    <3> QED BY <1>5, <1>6, <1>7, <2>1, <3>1, <3>2
  <2>2. CASE x # next
    <3> DEFINE k == Behind(now, x)
    <3>1. Behind(new, x) = k + 1 /\ k \in Int
      BY <1>6, <2>2
    <3>2. BLOCK_SIZE * (k + 1) = BLOCK_SIZE * k + BLOCK_SIZE * 1 /\ BLOCK_SIZE * k \in Int
      <4>1. k \in Int /\ BLOCK_SIZE \in Int
        BY <1>5, <3>1
      <4> HIDE DEF k
      <4> QED BY <4>1
    <3>3. Newest(n, "block") - BLOCK_SIZE * (k + 1) = Newest(n, "link") - BLOCK_SIZE * k
      BY <1>5, <3>2
    <3> QED BY <1>1, <1>2, <2>2, <3>1, <3>3 DEF Keyed
  <2> QED BY <2>1, <2>2
<1>9. Linked(gs, es, n, "block")
  <2>1. ASSUME n > 0 PROVE es[now.index[IF next = 1 THEN m ELSE next - 1]].key # INVALID_BLOCK_BASE
    <3>1. es[now.index[now.tail]].key # INVALID_BLOCK_BASE
      BY <1>1, <2>1 DEF Linked
    <3>2. (IF next = 1 THEN m ELSE next - 1) = now.tail
      <4>1. next = IF now.tail = m THEN 1 ELSE now.tail + 1
        BY <1>2, AfterIs
      <4> HIDE DEF now, m, next
      <4> QED BY <1>2, <4>1
    <3> QED BY <3>1, <3>2
  <2> HIDE DEF now, new, next, m
  <2> QED BY <1>1, <1>4, <1>7, <2>1 DEF Linked, new
<1> QED BY <1>3, <1>8, <1>9 DEF Ring

\* FillBlock
LEMMA RingFill ==
    ASSUME QueueAssumption, NEW hs \in Seq(Header), NEW es \in Seq(Entry), NEW n \in Nat,
           Ring(hs, es, n, "block"), NEW b \in Blocks,
           NEW e, e = Last(hs).index[Last(hs).tail],
           NEW fs, Changed(es, fs, e, es[e].key, b)
    PROVE  Ring(hs, fs, n, "publish") /\ es[e].key = n /\ es[e].value = Null /\ AtStart(n)
<1> DEFINE now == Last(hs)
           m == Size(now)
<1>1. Headers(hs, es) /\ Keyed(hs, es, n, "block") /\ Linked(hs, es, n, "block") /\ AtStart(n)
      /\ \A h \in DOMAIN hs : Spaced(hs[h].index, Last(hs).index)
  BY DEF Ring, Linked
<1>2. /\ m \in Nat \ {0} /\ DOMAIN now.index = 1 .. m /\ DOMAIN es = 1 .. m
      /\ now.tail \in 1 .. m
      /\ \A x \in 1 .. m : now.index[x] \in 1 .. m /\ es[now.index[x]] \in Entry
      /\ \A x, y \in 1 .. m : now.index[x] = now.index[y] => x = y
  BY <1>1, LastHeader
<1>3. e = now.index[now.tail]
  OBVIOUS
<1>4. es[e].key = n /\ es[e].value = Null /\ n # INVALID_BLOCK_BASE
  BY <1>1, NotInvalid DEF Linked
<1> HIDE DEF now
<1>5. e \in DOMAIN es /\ es[e] \in Entry
  BY <1>2, <1>3
<1>6. /\ fs \in Seq(Entry) /\ DOMAIN fs = DOMAIN es
      /\ fs[e].key = n /\ fs[e].value = b /\ \A f \in DOMAIN es \ {e} : fs[f] = es[f]
  BY <1>4 DEF Changed
<1>7. \A x \in 1 .. m : fs[now.index[x]].key = es[now.index[x]].key
                        /\ (x # now.tail => fs[now.index[x]] = es[now.index[x]])
  BY <1>2, <1>3, <1>4, <1>6
<1>8. Newest(n, "publish") = Newest(n, "block")
  BY DEF Newest
<1>9. Headers(hs, fs)
  BY <1>1, <1>6, HeadersEntry
<1>10. Keyed(hs, fs, n, "publish")
  <2> SUFFICES ASSUME NEW x \in 1 .. m
               PROVE  LET f == fs[now.index[x]]
                      IN  /\ f.key = INVALID_BLOCK_BASE => f.value = Null
                          /\ \/ f.key = INVALID_BLOCK_BASE
                             \/ f.key = Newest(n, "publish") - BLOCK_SIZE * Behind(now, x)
    BY <1>2 DEF Keyed, now
  <2>1. LET f == es[now.index[x]]
        IN  /\ f.key = INVALID_BLOCK_BASE => f.value = Null
            /\ \/ f.key = INVALID_BLOCK_BASE
               \/ f.key = Newest(n, "block") - BLOCK_SIZE * Behind(now, x)
    BY <1>1, <1>2 DEF Keyed, now
  <2>2. CASE x = now.tail
    BY <1>3, <1>4, <1>6, <1>8, <2>1, <2>2
  <2>3. CASE x # now.tail
    BY <1>7, <1>8, <2>1, <2>3
  <2> QED BY <2>2, <2>3
<1>11. Linked(hs, fs, n, "publish")
  <2>1. fs[now.index[now.tail]].key # INVALID_BLOCK_BASE
    BY <1>2, <1>3, <1>4, <1>6
  <2> QED BY <2>1 DEF Linked, now
<1> QED BY <1>1, <1>4, <1>9, <1>10, <1>11 DEF Ring

\* With the tail one place back, every other place is behind it by one less.
LEMMA OneBack ==
    ASSUME NEW m \in Nat \ {0}, NEW t \in 1 .. m, NEW x \in (1 .. m) \ {t},
           NEW u, u = IF t = 1 THEN m ELSE t - 1
    PROVE  /\ (IF x <= u THEN u - x ELSE u - x + m) \in Int
           /\ (IF x <= t THEN t - x ELSE t - x + m) = (IF x <= u THEN u - x ELSE u - x + m) + 1
<1>1. CASE t = 1
  <2>1. x <= u /\ ~ (x <= t) /\ u = m
    BY <1>1
  <2> QED BY <1>1, <2>1
<1>2. CASE t # 1
  <2>1. u = t - 1 /\ (x <= u <=> x <= t)
    BY <1>2
  <2> QED BY <1>2, <2>1
<1> QED BY <1>1, <1>2

\* NoBlock
LEMMA RingNoBlock ==
    ASSUME QueueAssumption, NEW hs \in Seq(Header), NEW es \in Seq(Entry), NEW n \in Nat,
           Ring(hs, es, n, "block"),
           NEW u, u = IF Last(hs).tail = 1 THEN Size(Last(hs)) ELSE Last(hs).tail - 1,
           NEW gs, gs = TailAt(hs, u)
    PROVE  Ring(gs, es, n, "idle")
<1> DEFINE now == Last(hs)
           new == Last(gs)
           m == Size(now)
           t == now.tail
<1>1. Headers(hs, es) /\ Keyed(hs, es, n, "block") /\ Linked(hs, es, n, "block") /\ AtStart(n)
      /\ \A h \in DOMAIN hs : Spaced(hs[h].index, Last(hs).index)
  BY DEF Ring, Linked
<1>2. m \in Nat \ {0} /\ DOMAIN now.index = 1 .. m /\ t \in 1 .. m
  BY <1>1, LastHeader
<1>3. u \in 1 .. m
  <2>1. u = IF t = 1 THEN m ELSE t - 1
    OBVIOUS
  <2> HIDE DEF m, t
  <2> QED BY <1>2, <2>1
<1>4. /\ Headers(gs, es) /\ \A h \in DOMAIN gs : Spaced(gs[h].index, Last(gs).index)
      /\ new = [tail |-> u, index |-> now.index]
  <2>1. u \in DOMAIN Last(hs).index
    BY <1>2, <1>3
  <2>2. /\ Headers(gs, es)
        /\ \A h \in DOMAIN gs : Spaced(gs[h].index, Last(gs).index)
        /\ Last(gs) = [tail |-> u, index |-> Last(hs).index]
    BY <1>1, <2>1, HeadersTail
  <2> QED BY <2>2
<1>5. new.tail = u /\ new.index = now.index /\ Size(new) = m /\ Size(now) = m
  BY <1>4 DEF Size
<1>6. Newest(n, "idle") + BLOCK_SIZE = Newest(n, "block") /\ Newest(n, "block") = n /\ Newest(n, "idle") \in Int
      /\ BLOCK_SIZE \in Nat \ {0} /\ BLOCK_SIZE \in Int
  BY <1>1, BlockSize, NewestIs
<1>7. \A x \in 1 .. m \ {t} : Behind(now, x) = Behind(new, x) + 1 /\ Behind(new, x) \in Int
  <2> TAKE x \in 1 .. m \ {t}
  <2>1. Behind(new, x) = IF x <= u THEN u - x ELSE u - x + m
    BY <1>5 DEF Behind
  <2>2. Behind(now, x) = IF x <= t THEN t - x ELSE t - x + m
    BY <1>5 DEF Behind
  <2>3. u = IF t = 1 THEN m ELSE t - 1
    OBVIOUS
  <2> HIDE DEF t, m, new, now
  <2>4. /\ (IF x <= u THEN u - x ELSE u - x + m) \in Int
        /\ (IF x <= t THEN t - x ELSE t - x + m) = (IF x <= u THEN u - x ELSE u - x + m) + 1
    BY <1>2, <2>3, OneBack
  <2> QED BY <2>1, <2>2, <2>4
<1>8. After(new, new.tail) = t
  <2>1. After(new, u) = IF u = m THEN 1 ELSE u + 1
    <3> HIDE DEF m, new
    <3> QED BY <1>2, <1>3, <1>5, AfterIs
  <2>2. u = IF t = 1 THEN m ELSE t - 1
    OBVIOUS
  <2>3. (IF u = m THEN 1 ELSE u + 1) = t
    <3> HIDE DEF t, m
    <3> QED BY <1>2, <2>2
  <2> QED BY <1>5, <2>1, <2>3
<1>9. es[now.index[t]].key = n /\ es[now.index[t]].value = Null
  BY <1>1 DEF Linked
<1>10. Keyed(gs, es, n, "idle")
  <2> SUFFICES ASSUME NEW x \in 1 .. m
               PROVE  LET e == es[now.index[x]]
                      IN  /\ e.key = INVALID_BLOCK_BASE => e.value = Null
                          /\ \/ e.key = INVALID_BLOCK_BASE
                             \/ e.key = Newest(n, "idle") - BLOCK_SIZE * Behind(new, x)
                             \/ x = t /\ e.key = n /\ e.value = Null
    BY <1>1, <1>2, <1>5, <1>8 DEF Keyed
  <2>1. CASE x = t
    BY <1>9, <2>1
  <2>2. CASE x # t
    <3> DEFINE k == Behind(new, x)
    <3>1. Behind(now, x) = k + 1 /\ k \in Int
      BY <1>7, <2>2
    <3>2. BLOCK_SIZE * (k + 1) = BLOCK_SIZE * k + BLOCK_SIZE * 1 /\ BLOCK_SIZE * k \in Int
      <4>1. k \in Int /\ BLOCK_SIZE \in Int
        BY <1>6, <3>1
      <4> HIDE DEF k
      <4> QED BY <4>1
    <3>3. Newest(n, "block") - BLOCK_SIZE * (k + 1) = Newest(n, "idle") - BLOCK_SIZE * k
      BY <1>6, <3>2
    <3> QED BY <1>1, <1>2, <2>2, <3>1, <3>3 DEF Keyed
  <2> QED BY <2>1, <2>2
<1>11. Linked(gs, es, n, "idle")
  <2>1. n > 0 => es[now.index[u]].key # INVALID_BLOCK_BASE
    BY <1>1 DEF Linked
  <2> HIDE DEF now, m, t
  <2> QED BY <1>5, <2>1 DEF Linked, new
<1> QED BY <1>4, <1>10, <1>11 DEF Ring

\* EnqueueInBlock and Publish
LEMMA RingBuilt ==
    ASSUME QueueAssumption, NEW hs \in Seq(Header), NEW es \in Seq(Entry), NEW n \in Nat
    PROVE  /\ Ring(hs, es, n, "idle") /\ ~ AtStart(n) => Ring(hs, es, n, "publish")
           /\ Ring(hs, es, n, "publish") => Ring(hs, es, n + 1, "idle")
<1>1. ASSUME Ring(hs, es, n, "idle"), ~ AtStart(n) PROVE Ring(hs, es, n, "publish")
  <2>1. Newest(n, "publish") = Newest(n, "idle") /\ n > 0
    <3>1. AtStart(0)
      <4>1. 0 \in Nat /\ Base(0) \in Nat /\ Base(0) <= 0
        BY BaseIs
      <4>2. Base(0) = 0
        BY <4>1
      <4> QED BY <4>2, BaseIs
    <3> QED BY <1>1, <3>1 DEF Newest
  <2>2. Keyed(hs, es, n, "publish")
    BY <1>1, <2>1 DEF Ring, Keyed
  <2>3. Linked(hs, es, n, "publish")
    BY <1>1, <2>1 DEF Ring, Linked
  <2> QED BY <1>1, <2>2, <2>3 DEF Ring
<1>2. ASSUME Ring(hs, es, n, "publish") PROVE Ring(hs, es, n + 1, "idle")
  <2>1. Newest(n + 1, "idle") = Newest(n, "publish")
    BY NewestIs
  <2>2. Keyed(hs, es, n + 1, "idle")
    BY <1>2, <2>1 DEF Ring, Keyed
  <2>3. Linked(hs, es, n + 1, "idle")
    BY <1>2, <2>1 DEF Ring, Linked
  <2> QED BY <1>2, <2>2, <2>3 DEF Ring
<1> QED BY <1>1, <1>2

\* Unlink
LEMMA RingUnlink ==
    ASSUME NEW hs \in Seq(Header), NEW es \in Seq(Entry), NEW n \in Nat, NEW at,
           Ring(hs, es, n, at), NEW e \in DOMAIN es,
           NEW fs, Changed(es, fs, e, es[e].key, Null)
    PROVE  Ring(hs, fs, n, at)
<1> DEFINE now == Last(hs)
           m == Size(now)
<1>1. Headers(hs, es) /\ Keyed(hs, es, n, at) /\ Linked(hs, es, n, at)
      /\ \A h \in DOMAIN hs : Spaced(hs[h].index, Last(hs).index)
  BY DEF Ring
<1>2. /\ m \in Nat \ {0} /\ DOMAIN now.index = 1 .. m /\ DOMAIN es = 1 .. m
      /\ now.tail \in 1 .. m
      /\ \A x \in 1 .. m : now.index[x] \in 1 .. m /\ After(now, x) \in 1 .. m
  BY <1>1, LastHeader
<1>3. es[e] \in Entry
  OBVIOUS
<1>4. /\ fs \in Seq(Entry) /\ DOMAIN fs = DOMAIN es
      /\ fs[e].key = es[e].key /\ fs[e].value = Null /\ \A f \in DOMAIN es \ {e} : fs[f] = es[f]
  BY DEF Changed
<1>5. \A f \in DOMAIN es : fs[f].key = es[f].key /\ (es[f].value = Null => fs[f].value = Null)
  BY <1>4
<1>6. Headers(hs, fs)
  BY <1>1, <1>4, HeadersEntry
<1>7. Keyed(hs, fs, n, at)
  BY <1>1, <1>2, <1>5 DEF Keyed
<1>8. Linked(hs, fs, n, at)
  <2> DEFINE Previous(x) == IF x = 1 THEN m ELSE x - 1
  <2>1. \A x \in 1 .. m : Previous(x) \in 1 .. m
    <3> TAKE x \in 1 .. m
    <3>1. m \in Nat \ {0}
      BY <1>2
    <3> HIDE DEF m
    <3> QED BY <3>1
  <2>2. \A x \in {now.tail, After(now, now.tail), Previous(now.tail)} : now.index[x] \in DOMAIN es
    BY <1>2, <2>1
  <2> QED BY <1>1, <1>5, <2>2 DEF Linked
<1> QED BY <1>1, <1>6, <1>7, <1>8 DEF Ring

\* GrowIndex: the entry that is taken over next is in use.
Ahead(t, m, x) == IF t + x <= m THEN t + x ELSE t + x - m

LEMMA AheadMod ==
    ASSUME NEW m \in Nat \ {0}, NEW t \in 1 .. m, NEW x \in 1 .. m
    PROVE  ((t + x - 1) % m) + 1 = Ahead(t, m, x)
<1>1. CASE t + x <= m
  <2>1. m * 0 + (t + x - 1) = t + x - 1 /\ t + x - 1 \in 0 .. m - 1
    BY <1>1
  <2>2. (m * 0 + (t + x - 1)) % m = t + x - 1
    BY <2>1, Quotient
  <2> QED BY <1>1, <2>1, <2>2 DEF Ahead
<1>2. CASE t + x > m
  <2>1. m * 1 + (t + x - 1 - m) = t + x - 1 /\ t + x - 1 - m \in 0 .. m - 1
    BY <1>2
  <2>2. (m * 1 + (t + x - 1 - m)) % m = t + x - 1 - m
    BY <2>1, Quotient
  <2> QED BY <1>2, <2>1, <2>2 DEF Ahead
<1> QED BY <1>1, <1>2

LEMMA AheadIs ==
    ASSUME NEW m \in Nat \ {0}, NEW t \in 1 .. m
    PROVE  /\ \A x \in 1 .. m : Ahead(t, m, x) \in 1 .. m
           /\ \A x, y \in 1 .. m : Ahead(t, m, x) = Ahead(t, m, y) => x = y
           /\ \A y \in 1 .. m : \E x \in 1 .. m : Ahead(t, m, x) = y
           /\ Ahead(t, m, m) = t
           /\ \A x, y \in 1 .. m :
                  (Ahead(t, m, x) - Ahead(t, m, y)) - (x - y) \in {0, m, - m}
<1>1. \A x \in 1 .. m : Ahead(t, m, x) \in 1 .. m
  BY DEF Ahead
<1>2. \A x, y \in 1 .. m : Ahead(t, m, x) = Ahead(t, m, y) => x = y
  BY DEF Ahead
<1>3. ASSUME NEW y \in 1 .. m PROVE \E x \in 1 .. m : Ahead(t, m, x) = y
  <2>1. CASE y > t
    <3>1. y - t \in 1 .. m /\ Ahead(t, m, y - t) = y
      BY <2>1 DEF Ahead
    <3> QED BY <3>1
  <2>2. CASE y <= t
    <3>1. y - t + m \in 1 .. m /\ Ahead(t, m, y - t + m) = y
      BY <2>2 DEF Ahead
    <3> QED BY <3>1
  <2> QED BY <2>1, <2>2
<1>4. Ahead(t, m, m) = t
  BY DEF Ahead
<1>5. \A x, y \in 1 .. m : (Ahead(t, m, x) - Ahead(t, m, y)) - (x - y) \in {0, m, - m}
  BY DEF Ahead
<1> QED BY <1>1, <1>2, <1>3, <1>4, <1>5

\* The header new_block_index makes of another, which is full.
Doubled(now) ==
    LET m == Size(now)
    IN  [tail |-> m,
         index |-> [x \in 1 .. m + m |-> IF x <= m THEN now.index[Ahead(now.tail, m, x)] ELSE x]]

FreshEntries(m) == [i \in 1 .. m |-> FreshEntry]

\* A function on 1 .. n is a sequence of length n.
LEMMA FunctionSeq ==
    ASSUME NEW S, NEW n \in Nat, NEW f \in [1 .. n -> S]
    PROVE  f \in Seq(S) /\ Len(f) = n /\ DOMAIN f = 1 .. n
OBVIOUS

LEMMA DoubledIs ==
    ASSUME NEW hs \in Seq(Header), NEW es \in Seq(Entry), Headers(hs, es)
    PROVE  LET now == Last(hs)
               new == Doubled(now)
               m == Size(now)
           IN  /\ new \in Header /\ new.tail = m /\ Size(new) = m + m /\ DOMAIN new.index = 1 .. m + m
               /\ \A x \in 1 .. m : new.index[x] = now.index[Ahead(now.tail, m, x)]
               /\ \A x \in m + 1 .. m + m : new.index[x] = x
<1> DEFINE now == Last(hs)
           new == Doubled(now)
           m == Size(now)
<1>1. /\ m \in Nat \ {0} /\ now.tail \in 1 .. m
      /\ \A x \in 1 .. m : now.index[x] \in 1 .. m
  BY LastHeader
<1>2. /\ new.tail = m
      /\ new.index = [x \in 1 .. m + m |-> IF x <= m THEN now.index[Ahead(now.tail, m, x)] ELSE x]
      /\ new = [tail |-> new.tail, index |-> new.index]
  BY DEF Doubled
<1>3. \A x \in 1 .. m : Ahead(now.tail, m, x) \in 1 .. m
  BY <1>1, AheadIs
<1> DEFINE ix == new.index
<1> HIDE DEF now, new, m, ix
<1>4. \A x \in 1 .. m + m : ix[x] \in Nat
  BY <1>1, <1>2, <1>3 DEF ix
<1>5. ix \in [1 .. m + m -> Nat]
  BY <1>1, <1>2, <1>4 DEF ix
<1>6. ix \in Seq(Nat) /\ Len(ix) = m + m /\ DOMAIN ix = 1 .. m + m
  <2>1. m + m \in Nat
    BY <1>1
  <2> QED BY <1>5, <2>1, FunctionSeq
<1>7. new \in Header /\ Size(new) = m + m
  BY <1>1, <1>2, <1>6 DEF Header, Size, ix
<1>8. /\ \A x \in 1 .. m : ix[x] = now.index[Ahead(now.tail, m, x)]
      /\ \A x \in m + 1 .. m + m : ix[x] = x
  BY <1>1, <1>2 DEF ix
<1> QED BY <1>2, <1>6, <1>7, <1>8 DEF now, new, m, ix

\* Distances around the doubled header are distances around the one before.
LEMMA SpacedDoubled ==
    ASSUME NEW hs \in Seq(Header), NEW es \in Seq(Entry), Headers(hs, es),
           \A h \in DOMAIN hs : Spaced(hs[h].index, Last(hs).index),
           NEW h \in DOMAIN hs
    PROVE  Spaced(hs[h].index, Doubled(Last(hs)).index)
<1> DEFINE now == Last(hs)
           new == Doubled(now)
           m == Size(now)
           t == now.tail
           old == hs[h].index
           k == Len(old)
<1>1. /\ m \in Nat \ {0} /\ t \in 1 .. m /\ DOMAIN now.index = 1 .. m /\ Len(now.index) = m
      /\ \A x \in 1 .. m : now.index[x] \in 1 .. m
      /\ DOMAIN es = 1 .. m
  BY LastHeader DEF Size
<1>2. /\ Len(new.index) = m + m /\ DOMAIN new.index = 1 .. m + m
      /\ \A x \in 1 .. m : new.index[x] = now.index[Ahead(t, m, x)]
      /\ \A x \in m + 1 .. m + m : new.index[x] = x
  BY DoubledIs DEF Size
<1>3. /\ k \in Nat \ {0} /\ DOMAIN old = 1 .. k
      /\ \A x \in 1 .. k : old[x] \in 1 .. m
  <2>1. hs[h] \in Header
    OBVIOUS
  <2>2. old \in Seq(Nat)
    BY <2>1 DEF Header
  <2>3. k \in Nat /\ DOMAIN old = 1 .. k
    BY <2>2
  <2>4. hs[h].tail \in 1 .. k
    BY <2>3 DEF Headers
  <2>5. \A x \in 1 .. k : old[x] \in 1 .. m
    BY <1>1, <2>3 DEF Headers
  <2> HIDE DEF k, old
  <2> QED BY <2>3, <2>4, <2>5
<1>4. Multiple(m, k) /\ Multiple(m + m, k) /\ Multiple(0, k) /\ Multiple(- m, k)
  <2>1. Multiple(m, k)
    BY <1>1 DEF Spaced
  <2>2. Multiple(0, k)
    BY <1>3, MultipleSelf
  <2> HIDE DEF m, k
  <2>3. m \in Int /\ 0 \in Int
    BY <1>1
  <2>4. Multiple(m + m, k) /\ Multiple(0 - m, k)
    BY <1>3, <2>1, <2>2, <2>3, MultipleSum
  <2>5. 0 - m = - m
    BY <1>1
  <2> QED BY <2>1, <2>2, <2>4, <2>5
<1>5. ASSUME NEW x \in DOMAIN old, NEW y \in DOMAIN old, NEW u \in DOMAIN new.index, NEW v \in DOMAIN new.index,
             old[x] = new.index[u], old[y] = new.index[v]
      PROVE  Multiple((x - y) - (u - v), k)
  <2> DEFINE a == Ahead(t, m, u)
             b == Ahead(t, m, v)
  <2>1. u \in 1 .. m /\ v \in 1 .. m
    <3>1. old[x] \in 1 .. m /\ old[y] \in 1 .. m
      BY <1>3
    <3> HIDE DEF m, old, new
    <3>2. m \in Nat
      BY <1>1
    <3> QED BY <1>2, <1>5, <3>1, <3>2
  <2>2. a \in 1 .. m /\ b \in 1 .. m /\ (a - b) - (u - v) \in {0, m, - m}
    <3> HIDE DEF m, t
    <3> QED BY <1>1, <2>1, AheadIs
  <2>3. old[x] = now.index[a] /\ old[y] = now.index[b]
    BY <1>2, <1>5, <2>1
  <2>4. Multiple((x - y) - (a - b), k)
    <3>1. Spaced(old, now.index)
      OBVIOUS
    <3> HIDE DEF old, a, b
    <3> QED BY <1>1, <1>5, <2>2, <2>3, <3>1 DEF Spaced
  <2>5. Multiple((a - b) - (u - v), k)
    BY <1>4, <2>2
  <2>6. x \in Int /\ y \in Int /\ u \in Int /\ v \in Int /\ a \in Int /\ b \in Int
    <3> HIDE DEF old, a, b, m, k
    <3> QED BY <1>1, <1>3, <1>5, <2>1, <2>2
  <2> HIDE DEF a, b, k, old, m
  <2> DEFINE c == (x - y) - (a - b)
             d == (a - b) - (u - v)
  <2>7. c \in Int /\ d \in Int /\ c + d = (x - y) - (u - v)
    BY <2>6
  <2>8. Multiple(c, k) /\ Multiple(d, k)
    BY <2>4, <2>5
  <2> HIDE DEF c, d
  <2>9. Multiple(c + d, k)
    BY <1>3, <2>7, <2>8, MultipleSum
  <2> QED BY <2>7, <2>9
<1> QED BY <1>2, <1>4, <1>5 DEF Spaced

LEMMA RingGrow ==
    ASSUME QueueAssumption, NEW hs \in Seq(Header), NEW es \in Seq(Entry), NEW n \in Nat,
           Ring(hs, es, n, "idle"),
           NEW e, e = Last(hs).index[After(Last(hs), Last(hs).tail)], ~ Reusable(es[e]),
           NEW new, new = Doubled(Last(hs)),
           NEW gs, gs = Append(hs, new), NEW fs, fs = es \o FreshEntries(Size(Last(hs)))
    PROVE  Ring(gs, fs, n, "idle")
<1> DEFINE now == Last(hs)
           m == Size(now)
           t == now.tail
           w == m + m
<1>1. Headers(hs, es) /\ Keyed(hs, es, n, "idle") /\ Linked(hs, es, n, "idle")
      /\ \A h \in DOMAIN hs : Spaced(hs[h].index, Last(hs).index)
  BY DEF Ring
<1>2. /\ m \in Nat \ {0} /\ DOMAIN now.index = 1 .. m /\ DOMAIN es = 1 .. m /\ Len(es) = m
      /\ t \in 1 .. m /\ now \in Header
      /\ \A x \in 1 .. m : now.index[x] \in 1 .. m
      /\ \A x, y \in 1 .. m : now.index[x] = now.index[y] => x = y
      /\ \A f \in 1 .. m : \E x \in 1 .. m : now.index[x] = f
  BY <1>1, LastHeader
<1>3. /\ new \in Header /\ new.tail = m /\ Size(new) = w /\ DOMAIN new.index = 1 .. w
      /\ \A x \in 1 .. m : new.index[x] = now.index[Ahead(t, m, x)]
      /\ \A x \in m + 1 .. w : new.index[x] = x
  BY <1>1, DoubledIs
<1>4. /\ gs \in Seq(Header) /\ Len(gs) = Len(hs) + 1 /\ DOMAIN gs = 1 .. Len(hs) + 1 /\ gs # <<>>
      /\ gs[Len(hs) + 1] = new /\ Last(gs) = new /\ \A h \in DOMAIN hs : gs[h] = hs[h]
      /\ DOMAIN hs = 1 .. Len(hs) /\ Len(hs) \in Nat
  <2>1. gs \in Seq(Header) /\ Len(gs) = Len(hs) + 1 /\ gs[Len(hs) + 1] = new
        /\ \A h \in DOMAIN hs : gs[h] = hs[h]
    BY <1>3
  <2> QED BY <2>1 DEF Last
<1>5. /\ fs \in Seq(Entry) /\ Len(fs) = w /\ DOMAIN fs = 1 .. w
      /\ \A f \in 1 .. m : fs[f] = es[f]
      /\ \A f \in m + 1 .. w : fs[f] = FreshEntry
  <2>1. FreshEntry \in Entry
    BY DEF FreshEntry, Entry, INVALID_BLOCK_BASE
  <2> DEFINE fresh == FreshEntries(m)
  <2>2. fresh \in [1 .. m -> Entry]
    BY <2>1 DEF FreshEntries
  <2>3. fresh \in Seq(Entry) /\ Len(fresh) = m /\ DOMAIN fresh = 1 .. m
    <3>1. m \in Nat
      BY <1>2
    <3> HIDE DEF fresh, m
    <3> QED BY <2>2, <3>1, FunctionSeq
  <2>4. \A i \in 1 .. m : fresh[i] = FreshEntry
    BY DEF FreshEntries
  <2>5. fs = es \o fresh
    OBVIOUS
  <2> HIDE DEF fresh, m
  <2>0. m \in Nat /\ Len(es) = m /\ DOMAIN es = 1 .. m
    BY <1>2
  <2>6. fs \in Seq(Entry) /\ Len(fs) = w /\ DOMAIN fs = 1 .. w
    <3>1. es \in Seq(Entry) /\ fresh \in Seq(Entry)
      BY <2>3
    <3>2. fs \in Seq(Entry) /\ Len(fs) = Len(es) + Len(fresh)
      BY <2>5, <3>1, ConcatProperties
    <3>3. Len(fs) = w
      BY <2>0, <2>3, <3>2
    <3> QED BY <3>2, <3>3
  <2>7. ASSUME NEW f \in 1 .. m PROVE fs[f] = es[f]
    <3>1. f \in 1 .. Len(es) /\ es \in Seq(Entry) /\ fresh \in Seq(Entry)
      BY <2>0, <2>3
    <3>2. (es \o fresh)[f] = es[f]
      BY <3>1, ConcatProperties
    <3> QED BY <2>5, <3>2
  <2>8. ASSUME NEW f \in m + 1 .. w PROVE fs[f] = FreshEntry
    <3>1. f - m \in 1 .. m /\ f > m /\ f <= m + m /\ f \in Nat
      BY <2>0
    <3>2. fs[f] = fresh[f - m]
      BY <2>0, <2>3, <2>5, <3>1
    <3> QED BY <2>4, <3>1, <3>2
  <2> QED BY <2>6, <2>7, <2>8
<1>60. /\ m \in Nat /\ m > 0 /\ m \in Nat \ {0} /\ w = m + m /\ w \in Nat \ {0}
       /\ t \in 1 .. m /\ Size(now) = m /\ now.tail = t
  <2>1. m \in Nat \ {0}
    BY <1>2
  <2>2. w \in Nat \ {0} /\ m \in Nat /\ m > 0
    <3> HIDE DEF m
    <3> QED BY <2>1
  <2> QED BY <1>2, <2>1, <2>2
<1>61. /\ \A x \in 1 .. m : 
              LET f == es[now.index[x]]
              IN  /\ f.key = INVALID_BLOCK_BASE => f.value = Null
                  /\ \/ f.key = INVALID_BLOCK_BASE
                     \/ f.key = Newest(n, "idle") - BLOCK_SIZE * Behind(now, x)
                     \/ x = After(now, t) /\ f.value = Null
  BY <1>1, <1>2 DEF Keyed
<1>62. n > 0 => es[now.index[t]].key # INVALID_BLOCK_BASE
  BY <1>1 DEF Linked
<1>63. es[now.index[After(now, t)]].value # Null
  BY DEF Reusable
<1>64. /\ \A h \in DOMAIN hs : hs[h].tail \in DOMAIN hs[h].index
       /\ \A h \in DOMAIN hs : \A x \in DOMAIN hs[h].index : hs[h].index[x] \in 1 .. m
  BY <1>1, <1>2 DEF Headers
<1>65. \A h \in DOMAIN hs : Spaced(hs[h].index, new.index)
  BY <1>1, SpacedDoubled
<1> HIDE DEF now, m, t, w
<1>66. 1 .. m \subseteq 1 .. w /\ \A x \in 1 .. w : x \in 1 .. m \/ x \in m + 1 .. w
  BY <1>60
<1>6. /\ \A x \in 1 .. m : Ahead(t, m, x) \in 1 .. m
      /\ \A x, y \in 1 .. m : Ahead(t, m, x) = Ahead(t, m, y) => x = y
      /\ \A y \in 1 .. m : \E x \in 1 .. m : Ahead(t, m, x) = y
      /\ Ahead(t, m, m) = t
  <2>1. m \in Nat \ {0} /\ t \in 1 .. m
    BY <1>60
  <2>2. /\ \A x \in 1 .. m : Ahead(t, m, x) \in 1 .. m
        /\ \A x, y \in 1 .. m : Ahead(t, m, x) = Ahead(t, m, y) => x = y
        /\ \A y \in 1 .. m : \E x \in 1 .. m : Ahead(t, m, x) = y
        /\ Ahead(t, m, m) = t
        /\ \A x, y \in 1 .. m : (Ahead(t, m, x) - Ahead(t, m, y)) - (x - y) \in {0, m, - m}
    BY <2>1, AheadIs
  <2> QED BY <2>2
<1>8. \A x \in 1 .. m : new.index[x] \in 1 .. m
  BY <1>2, <1>3, <1>6
<1>9. \A x \in 1 .. w : new.index[x] \in 1 .. w
  <2> TAKE x \in 1 .. w
  <2>1. CASE x \in 1 .. m
    BY <1>8, <1>66, <2>1
  <2>2. CASE x \in m + 1 .. w
    BY <1>3, <2>2
  <2> QED BY <1>66, <2>1, <2>2
<1>10. \A x, y \in 1 .. w : new.index[x] = new.index[y] => x = y
  <2> SUFFICES ASSUME NEW x \in 1 .. w, NEW y \in 1 .. w, new.index[x] = new.index[y]
               PROVE  x = y
    OBVIOUS
  <2>1. CASE x \in 1 .. m /\ y \in 1 .. m
    <3> DEFINE a == Ahead(t, m, x)
               b == Ahead(t, m, y)
    <3>1. a = b
      <4>1. a \in 1 .. m /\ b \in 1 .. m
        BY <1>6, <2>1
      <4>2. now.index[a] = now.index[b]
        BY <1>3, <2>1
      <4> HIDE DEF a, b
      <4> QED BY <1>2, <4>1, <4>2
    <3> QED BY <1>6, <2>1, <3>1
  <2>2. CASE x \in m + 1 .. w /\ y \in m + 1 .. w
    BY <1>3, <2>2
  <2>3. CASE x \in 1 .. m /\ y \in m + 1 .. w
    <3>1. new.index[x] \in 1 .. m /\ new.index[y] = y
      BY <1>3, <1>8, <2>3
    <3> QED BY <1>60, <2>3, <3>1
  <2>4. CASE y \in 1 .. m /\ x \in m + 1 .. w
    <3>1. new.index[y] \in 1 .. m /\ new.index[x] = x
      BY <1>3, <1>8, <2>4
    <3> QED BY <1>60, <2>4, <3>1
  <2> QED BY <1>66, <2>1, <2>2, <2>3, <2>4
<1>11. \A f \in 1 .. w : \E x \in 1 .. w : new.index[x] = f
  <2> TAKE f \in 1 .. w
  <2>1. CASE f \in 1 .. m
    <3>1. PICK y \in 1 .. m : now.index[y] = f
      BY <1>2, <2>1
    <3>2. PICK x \in 1 .. m : Ahead(t, m, x) = y
      BY <1>6
    <3>3. new.index[x] = f
      BY <1>3, <3>1, <3>2
    <3>4. x \in 1 .. w
      BY <1>66
    <3> QED BY <3>3, <3>4
  <2>2. CASE f \in m + 1 .. w
    BY <1>3, <2>2
  <2> QED BY <1>66, <2>1, <2>2
<1>12. Headers(gs, fs)
  <2>1. \A h \in DOMAIN gs : h \in DOMAIN hs \/ h = Len(hs) + 1
    BY <1>4
  <2>2. \A h \in DOMAIN gs : gs[h].tail \in DOMAIN gs[h].index
    <3> TAKE h \in DOMAIN gs
    <3>1. CASE h \in DOMAIN hs
      BY <1>4, <1>64, <3>1
    <3>2. CASE h = Len(hs) + 1
      <4>1. m \in 1 .. w
        BY <1>60
      <4> QED BY <1>3, <1>4, <3>2, <4>1
    <3> QED BY <2>1, <3>1, <3>2
  <2>3. \A h \in DOMAIN gs : \A x \in DOMAIN gs[h].index : gs[h].index[x] \in DOMAIN fs
    <3> TAKE h \in DOMAIN gs
    <3>1. CASE h \in DOMAIN hs
      BY <1>4, <1>5, <1>64, <1>66, <3>1
    <3>2. CASE h = Len(hs) + 1
      BY <1>3, <1>4, <1>5, <1>9, <3>2
    <3> QED BY <2>1, <3>1, <3>2
  <2>4. Len(new.index) = Len(fs)
    BY <1>3, <1>5 DEF Size
  <2>5. LET last == Last(gs).index
        IN  /\ Len(last) = Len(fs)
            /\ \A x, y \in DOMAIN last : last[x] = last[y] => x = y
            /\ \A f \in DOMAIN fs : \E x \in DOMAIN last : last[x] = f
    <3>1. Last(gs).index = new.index /\ DOMAIN new.index = 1 .. w /\ DOMAIN fs = 1 .. w
      BY <1>3, <1>4, <1>5
    <3> DEFINE ix == new.index
    <3>2. DOMAIN ix = 1 .. w /\ DOMAIN fs = 1 .. w /\ Len(ix) = Len(fs) /\ Last(gs).index = ix
      BY <2>4, <3>1
    <3>3. /\ \A x, y \in 1 .. w : ix[x] = ix[y] => x = y
          /\ \A f \in 1 .. w : \E x \in 1 .. w : ix[x] = f
      BY <1>10, <1>11
    <3> HIDE DEF ix
    <3>4. /\ \A x, y \in DOMAIN ix : ix[x] = ix[y] => x = y
          /\ \A f \in DOMAIN fs : \E x \in DOMAIN ix : ix[x] = f
      <4>1. DOMAIN ix = 1 .. w /\ DOMAIN fs = 1 .. w
        BY <3>2
      <4>2. ASSUME NEW x \in DOMAIN ix, NEW y \in DOMAIN ix, ix[x] = ix[y] PROVE x = y
        BY <3>3, <4>1, <4>2
      <4>3. ASSUME NEW f \in DOMAIN fs PROVE \E x \in DOMAIN ix : ix[x] = f
        BY <3>3, <4>1
      <4> QED BY <4>2, <4>3
    <3> QED BY <3>2, <3>4
  <2> QED BY <1>4, <2>2, <2>3, <2>5 DEF Headers
<1>13. \A h \in DOMAIN gs : Spaced(gs[h].index, Last(gs).index)
  <2> TAKE h \in DOMAIN gs
  <2>1. CASE h \in DOMAIN hs
    BY <1>4, <1>65, <2>1
  <2>2. CASE h = Len(hs) + 1
    <3>1. w \in Nat \ {0} /\ Len(new.index) = w
      BY <1>3, <1>60 DEF Size
    <3>2. Multiple(w, w) /\ Multiple(0, w)
      BY <3>1, MultipleSelf
    <3>3. ASSUME NEW x \in 1 .. w, NEW y \in 1 .. w, NEW u \in 1 .. w, NEW v \in 1 .. w,
                 new.index[x] = new.index[u], new.index[y] = new.index[v]
          PROVE  Multiple((x - y) - (u - v), w)
      <4>1. x = u /\ y = v
        BY <1>10, <3>3
      <4>2. (x - y) - (u - v) = 0
        BY <3>1, <4>1
      <4> QED BY <3>2, <4>2
    <3>4. Spaced(new.index, new.index)
      <4>1. Multiple(Len(new.index), Len(new.index))
        BY <3>1, <3>2
      <4>2. \A x, y \in DOMAIN new.index, u, v \in DOMAIN new.index :
               new.index[x] = new.index[u] /\ new.index[y] = new.index[v]
               => Multiple((x - y) - (u - v), Len(new.index))
        <5>1. DOMAIN new.index = 1 .. w /\ Len(new.index) = w
          BY <1>3, <3>1
        <5> DEFINE ix == new.index
        <5>2. \A x, y, u, v \in 1 .. w : ix[x] = ix[u] /\ ix[y] = ix[v] => Multiple((x - y) - (u - v), w)
          BY <3>3
        <5>3. DOMAIN ix = 1 .. w /\ Len(ix) = w
          BY <5>1
        <5> HIDE DEF ix
        <5>4. \A x, y \in DOMAIN ix, u, v \in DOMAIN ix :
                 ix[x] = ix[u] /\ ix[y] = ix[v] => Multiple((x - y) - (u - v), Len(ix))
          BY <5>2, <5>3
        <5> QED BY <5>4 DEF ix
      <4> QED BY <4>1, <4>2 DEF Spaced
    <3> QED BY <1>4, <2>2, <3>4
  <2> QED BY <1>4, <2>1, <2>2
<1>14. Keyed(gs, fs, n, "idle")
  <2> SUFFICES ASSUME NEW x \in 1 .. w
               PROVE  LET f == fs[new.index[x]]
                      IN  /\ f.key = INVALID_BLOCK_BASE => f.value = Null
                          /\ \/ f.key = INVALID_BLOCK_BASE
                             \/ f.key = Newest(n, "idle") - BLOCK_SIZE * Behind(new, x)
    <3>1. Last(gs) = new /\ DOMAIN new.index = 1 .. w
      BY <1>3, <1>4
    <3> QED BY <3>1 DEF Keyed
  <2>1. CASE x \in m + 1 .. w
    <3>1. fs[new.index[x]] = FreshEntry
      BY <1>3, <1>5, <2>1
    <3> QED BY <3>1 DEF FreshEntry
  <2>2. CASE x \in 1 .. m
    <3> DEFINE y == Ahead(t, m, x)
               f == es[now.index[y]]
    <3>1. y \in 1 .. m /\ fs[new.index[x]] = f
      BY <1>2, <1>3, <1>5, <1>6, <1>8, <2>2
    <3>2. Behind(new, x) = Behind(now, y)
      <4>1. Behind(new, x) = IF x <= m THEN m - x ELSE m - x + w
        BY <1>3 DEF Behind
      <4>2. Behind(now, y) = IF y <= t THEN t - y ELSE t - y + m
        BY <1>60 DEF Behind
      <4>3. y = IF t + x <= m THEN t + x ELSE t + x - m
        BY DEF Ahead
      <4> HIDE DEF y
      <4> QED BY <1>60, <2>2, <4>1, <4>2, <4>3
    <3>3. ~ (y = After(now, t) /\ f.value = Null)
      BY <1>63
    <3>4. /\ f.key = INVALID_BLOCK_BASE => f.value = Null
          /\ \/ f.key = INVALID_BLOCK_BASE
             \/ f.key = Newest(n, "idle") - BLOCK_SIZE * Behind(now, y)
      <4> HIDE DEF y
      <4> QED BY <1>61, <3>1, <3>3
    <3> QED BY <3>1, <3>2, <3>4
  <2> QED BY <1>66, <2>1, <2>2
<1>15. Linked(gs, fs, n, "idle")
  <2>1. fs[new.index[new.tail]] = es[now.index[t]]
    <3>1. m \in 1 .. m
      BY <1>60
    <3>2. new.index[m] = now.index[t] /\ new.index[m] \in 1 .. m
      <4>1. new.index[m] = now.index[Ahead(t, m, m)] /\ new.index[m] \in 1 .. m
        BY <1>3, <1>8, <3>1
      <4> QED BY <1>6, <4>1
    <3> QED BY <1>3, <1>5, <3>2
  <2> QED BY <1>4, <1>62, <2>1 DEF Linked
<1> QED BY <1>12, <1>13, <1>14, <1>15 DEF Ring
-----------------------------------------------------------------------------
(* The entries that lead to blocks                                         *)

States == {"idle", "link", "block", "publish"}

\* An entry that leads to a block has a place behind the tail, whose key it has.
LEMMA Placed ==
    ASSUME NEW hs \in Seq(Header), NEW es \in Seq(Entry), NEW n \in Nat, NEW at,
           Ring(hs, es, n, at), NEW e \in DOMAIN es
    PROVE  LET now == Last(hs)
               m == Size(now)
           IN  \E x \in 1 .. m :
                   /\ now.index[x] = e
                   /\ es[e].value # Null =>
                          /\ es[e].key # INVALID_BLOCK_BASE
                          /\ es[e].key = Newest(n, at) - BLOCK_SIZE * Behind(now, x)
                   /\ es[e].key # INVALID_BLOCK_BASE =>
                          \/ es[e].key = Newest(n, at) - BLOCK_SIZE * Behind(now, x)
                          \/ /\ AtStart(n) /\ at \in {"idle", "link"}
                             /\ x = After(now, now.tail) /\ es[e].key = n
<1> DEFINE now == Last(hs)
           m == Size(now)
<1>1. Headers(hs, es) /\ Keyed(hs, es, n, at)
  BY DEF Ring
<1>2. /\ DOMAIN now.index = 1 .. m /\ DOMAIN es = 1 .. m
      /\ \A f \in 1 .. m : \E x \in 1 .. m : now.index[x] = f
  BY <1>1, LastHeader
<1>3. PICK x \in 1 .. m : now.index[x] = e
  BY <1>2
<1>4. x \in DOMAIN Last(hs).index
  BY <1>2
<1> QED BY <1>1, <1>3, <1>4 DEF Keyed

LEMMA Live ==
    ASSUME QueueAssumption, NEW hs \in Seq(Header), NEW es \in Seq(Entry), NEW n \in Nat,
           NEW at \in States, Ring(hs, es, n, at), NEW e \in DOMAIN es, es[e].value # Null
    PROVE  /\ es[e].key \in Nat /\ es[e].value \in Blocks /\ Multiple(es[e].key, BLOCK_SIZE)
           /\ es[e].key + BLOCK_SIZE <= Filled(n, at)
           /\ es[e].key <= Newest(n, at)
           /\ \A f \in DOMAIN es : es[f].value # Null /\ es[f].key = es[e].key => f = e
<1> DEFINE now == Last(hs)
           m == Size(now)
           new == Newest(n, at)
           Back(x) == Behind(now, x)
<1>1. Headers(hs, es) /\ Linked(hs, es, n, at)
  BY DEF Ring
<1>2. m \in Nat \ {0} /\ now.tail \in 1 .. m /\ DOMAIN es = 1 .. m /\ Size(now) = m
  BY <1>1, LastHeader
<1>3. \A x \in 1 .. m : Back(x) \in 0 .. m - 1
  <2> HIDE DEF now, m
  <2> QED BY <1>2, BehindIs
<1>4. \A x, y \in 1 .. m : Back(x) = Back(y) => x = y
  <2> HIDE DEF now, m
  <2> QED BY <1>2, BehindIs
<1>5. \A f \in DOMAIN es : es[f].value # Null =>
          \E x \in 1 .. m : now.index[x] = f /\ es[f].key = new - BLOCK_SIZE * Back(x)
  BY Placed
<1>6. PICK x \in 1 .. m : now.index[x] = e /\ es[e].key = new - BLOCK_SIZE * Back(x)
  BY <1>5
<1>7. es[e] \in Entry
  OBVIOUS
<1>8. es[e].key \in Nat /\ es[e].value \in Blocks
  BY <1>7 DEF Entry
<1>9. new \in Int /\ Filled(n, at) \in Nat
  BY NewestIs
<1>10. BLOCK_SIZE \in Nat \ {0} /\ BLOCK_SIZE \in Int
  BY BlockSize
<1>11. Back(x) \in Nat /\ Back(x) < m
  BY <1>2, <1>3
<1> DEFINE k == Back(x)
<1>12. BLOCK_SIZE * k \in Nat /\ (k > 0 => BLOCK_SIZE * k >= BLOCK_SIZE)
  <2>1. k \in Nat
    BY <1>11
  <2> HIDE DEF k
  <2>2. BLOCK_SIZE * k \in Nat
    BY <1>10, <2>1
  <2>3. ASSUME k > 0 PROVE BLOCK_SIZE * k >= BLOCK_SIZE
    <3>1. BLOCK_SIZE * 0 + BLOCK_SIZE <= BLOCK_SIZE * k
      BY <1>10, <2>1, <2>3, TimesOrder
    <3> QED BY <1>10, <2>2, <3>1
  <2> QED BY <2>2, <2>3
<1>13. es[e].key = new - BLOCK_SIZE * k /\ es[e].key <= new
  <2>1. es[e].key = new - BLOCK_SIZE * k
    BY <1>6
  <2> HIDE DEF k
  <2> QED BY <1>8, <1>9, <1>12, <2>1
<1>14. \/ Multiple(new, BLOCK_SIZE) /\ new + BLOCK_SIZE <= Filled(n, at)
       \/ at = "block" /\ new = n /\ Filled(n, at) = n
  <2>1. at = "block" => AtStart(n)
    BY <1>1 DEF Linked
  <2>2. CASE AtStart(n) /\ at \in {"idle", "link"}
    <3>1. new = n - BLOCK_SIZE /\ Filled(n, at) = n /\ Base(n) = n
      BY <2>2, NewestIs
    <3>2. Multiple(n, BLOCK_SIZE) /\ Multiple(BLOCK_SIZE, BLOCK_SIZE)
      BY <2>2, <1>10, MultipleSelf DEF AtStart, Multiple
    <3>3. Multiple(n - BLOCK_SIZE, BLOCK_SIZE)
      BY <1>10, <3>2, MultipleSum
    <3>4. Multiple(new, BLOCK_SIZE)
      BY <3>1, <3>3
    <3>5. new + BLOCK_SIZE <= Filled(n, at)
      <4> HIDE DEF new
      <4> QED BY <1>10, <3>1
    <3> QED BY <3>4, <3>5
  <2>3. CASE at = "block"
    BY <2>1, <2>3, NewestIs
  <2>4. CASE at = "publish" \/ ~ AtStart(n)
    <3>1. new = Base(n) /\ Filled(n, at) = Base(n) + BLOCK_SIZE
      BY <2>4, NewestIs
    <3>2. Multiple(Base(n), BLOCK_SIZE) /\ Base(n) \in Nat
      BY BaseIs
    <3>3. Multiple(new, BLOCK_SIZE)
      BY <3>1, <3>2
    <3>4. new + BLOCK_SIZE <= Filled(n, at)
      <4> HIDE DEF new
      <4> QED BY <1>10, <3>1, <3>2
    <3> QED BY <3>3, <3>4
  <2> QED BY <2>2, <2>3, <2>4 DEF States
<1>15. Multiple(new, BLOCK_SIZE)
  <2>1. CASE at = "block"
    BY <1>1, <1>14, <2>1 DEF Linked, AtStart, Multiple
  <2> QED BY <1>14, <2>1
<1>16. Multiple(es[e].key, BLOCK_SIZE)
  <2>1. Multiple(BLOCK_SIZE * k, BLOCK_SIZE)
    <3> HIDE DEF k
    <3>1. k \in Int /\ BLOCK_SIZE * k \in Int
      BY <1>11, <1>12 DEF k
    <3> QED BY <1>10, <3>1, MultipleIs
  <2>2. BLOCK_SIZE * k \in Int
    BY <1>12
  <2> HIDE DEF k, new
  <2>3. Multiple(new - BLOCK_SIZE * k, BLOCK_SIZE)
    BY <1>9, <1>10, <1>15, <2>1, <2>2, MultipleSum
  <2> QED BY <1>13, <2>3
<1>17. es[e].key + BLOCK_SIZE <= Filled(n, at)
  <2>1. CASE at = "block"
    <3>1. es[now.index[now.tail]].value = Null
      BY <1>1, <2>1 DEF Linked
    <3>2. x # now.tail
      BY <1>6, <3>1
    <3>3. Back(now.tail) = 0
      <4> HIDE DEF now, m
      <4> QED BY <1>2, BehindIs
    <3>4. k # 0
      BY <1>2, <1>4, <3>2, <3>3
    <3>5. k > 0 /\ new = n /\ Filled(n, at) = n
      <4>1. new = n /\ Filled(n, at) = n
        BY <1>1, <2>1, NewestIs DEF Linked
      <4> QED BY <1>11, <3>4, <4>1
    <3> HIDE DEF k, new
    <3> QED BY <1>8, <1>9, <1>10, <1>12, <1>13, <3>5
  <2>2. CASE at # "block"
    <3> HIDE DEF k, new
    <3> QED BY <1>8, <1>9, <1>10, <1>12, <1>13, <1>14, <2>2
  <2> QED BY <2>1, <2>2
<1>18. ASSUME NEW f \in DOMAIN es, es[f].value # Null, es[f].key = es[e].key PROVE f = e
  <2>1. PICK y \in 1 .. m : now.index[y] = f /\ es[f].key = new - BLOCK_SIZE * Back(y)
    BY <1>5, <1>18
  <2> DEFINE j == Back(y)
  <2>2. j \in Nat
    BY <1>2, <1>3
  <2>3. new - BLOCK_SIZE * j = new - BLOCK_SIZE * k
    BY <1>6, <1>18, <2>1
  <2>4. k \in Nat
    BY <1>11
  <2>5. j = k
    <3> HIDE DEF j, k, new
    <3>1. BLOCK_SIZE * j \in Int /\ BLOCK_SIZE * k \in Int /\ j \in Int /\ k \in Int
      BY <1>10, <2>2, <2>4
    <3>2. BLOCK_SIZE * j = BLOCK_SIZE * k
      BY <1>9, <2>3, <3>1
    <3>3. BLOCK_SIZE * j + 0 = BLOCK_SIZE * k + 0 /\ 0 \in 0 .. BLOCK_SIZE - 1
      BY <1>10, <3>1, <3>2
    <3> QED BY <1>10, <3>1, <3>3, DividedOnce
  <2> QED BY <1>4, <1>6, <2>1, <2>5
<1> QED BY <1>8, <1>13, <1>16, <1>17, <1>18

\* get_block_index_index_for_index: from the key of a tail it finds the entry, around any
\* header that names it.
LEMMA FoundIs ==
    ASSUME QueueAssumption, NEW hs \in Seq(Header), NEW es \in Seq(Entry), NEW n \in Nat,
           NEW at \in States, Ring(hs, es, n, at), NEW i \in Nat, NEW h \in DOMAIN hs,
           NEW t \in DOMAIN hs[h].index, es[hs[h].index[t]].key # INVALID_BLOCK_BASE,
           NEW x \in DOMAIN hs[h].index, Holds(es[hs[h].index[x]], Base(i))
    PROVE  LET away == (Base(i) - es[hs[h].index[t]].key) \div BLOCK_SIZE
           IN  ((t - 1 + away) % Size(hs[h])) + 1 = x
<1> DEFINE now == Last(hs)
           m == Size(now)
           new == Newest(n, at)
           old == hs[h].index
           k == Size(hs[h])
           Back(z) == Behind(now, z)
           key == es[old[t]].key
           away == (Base(i) - key) \div BLOCK_SIZE
<1>1. Headers(hs, es)
  BY DEF Ring
<1>2. /\ m \in Nat \ {0} /\ now.tail \in 1 .. m /\ DOMAIN es = 1 .. m /\ Size(now) = m
      /\ Len(now.index) = m /\ DOMAIN now.index = 1 .. m
  BY <1>1, LastHeader DEF Size
<1>3. k \in Nat \ {0} /\ DOMAIN old = 1 .. k /\ Len(old) = k
  <2>1. hs[h] \in Header
    OBVIOUS
  <2>2. old \in Seq(Nat) /\ Len(old) = k
    BY <2>1 DEF Header, Size
  <2>3. DOMAIN old = 1 .. k /\ k \in Nat
    BY <2>2
  <2>4. t \in 1 .. k
    BY <2>3
  <2> HIDE DEF k, old
  <2> QED BY <2>2, <2>3, <2>4
<1>4. x \in 1 .. k /\ t \in 1 .. k
  BY <1>3
<1>5. old[x] \in DOMAIN es /\ old[t] \in DOMAIN es
  BY <1>1 DEF Headers
<1>6. PICK u \in 1 .. m : now.index[u] = old[x] /\ es[old[x]].key = new - BLOCK_SIZE * Back(u)
  BY <1>5, Placed DEF Holds
<1>7. PICK v \in 1 .. m : /\ now.index[v] = old[t]
                          /\ \/ key = new - BLOCK_SIZE * Back(v)
                             \/ /\ AtStart(n) /\ at \in {"idle", "link"}
                                /\ v = After(now, now.tail) /\ key = n
  BY <1>5, Placed
<1>8. es[old[x]].key = Base(i) /\ Base(i) \in Nat
  BY BaseIs DEF Holds
<1>9. BLOCK_SIZE \in Nat \ {0} /\ BLOCK_SIZE \in Int /\ new \in Int
  BY BlockSize, NewestIs
<1>10. /\ Back(u) \in 0 .. m - 1 /\ Back(v) \in 0 .. m - 1
       /\ Back(After(now, now.tail)) = m - 1
       /\ Back(u) = IF u <= now.tail THEN now.tail - u ELSE now.tail - u + m
       /\ Back(v) = IF v <= now.tail THEN now.tail - v ELSE now.tail - v + m
  <2>1. Back(u) = IF u <= now.tail THEN now.tail - u ELSE now.tail - u + m
    BY DEF Behind
  <2>2. Back(v) = IF v <= now.tail THEN now.tail - v ELSE now.tail - v + m
    BY DEF Behind
  <2> HIDE DEF now, m
  <2>3. /\ Back(u) \in 0 .. m - 1 /\ Back(v) \in 0 .. m - 1
        /\ Back(After(now, now.tail)) = m - 1
    BY <1>2, BehindIs
  <2> QED BY <2>1, <2>2, <2>3
<1>11. key \in Nat
  <2>1. es[old[t]] \in Entry
    BY <1>5
  <2> QED BY <2>1 DEF Entry
<1> DEFINE a == Back(u)
           b == Back(v)
           tl == now.tail
<1>12. /\ a \in Int /\ b \in Int /\ tl \in 1 .. m /\ u \in Int /\ v \in Int
       /\ a = IF u <= tl THEN tl - u ELSE tl - u + m
       /\ b = IF v <= tl THEN tl - v ELSE tl - v + m
  <2>1. /\ a = IF u <= tl THEN tl - u ELSE tl - u + m
        /\ b = IF v <= tl THEN tl - v ELSE tl - v + m
    BY <1>10
  <2>2. a \in 0 .. m - 1 /\ b \in 0 .. m - 1 /\ tl \in 1 .. m
    BY <1>2, <1>10
  <2> HIDE DEF a, b, tl, m
  <2> QED BY <1>2, <2>1, <2>2
\* The tail's key is a number of blocks behind the newest, too.
<1>13. \E z \in Int : key = new - BLOCK_SIZE * z /\ z - b \in {0, - m}
  <2>1. CASE key = new - BLOCK_SIZE * Back(v)
    <3>1. b - b = 0 /\ b \in Int
      <4> HIDE DEF b
      <4> QED BY <1>12
    <3> QED BY <2>1, <3>1
  <2>2. CASE /\ AtStart(n) /\ at \in {"idle", "link"}
             /\ v = After(now, now.tail) /\ key = n
    <3>1. new = n - BLOCK_SIZE
      BY <2>2, NewestIs
    <3>2. b = m - 1
      BY <1>10, <2>2
    <3>3. BLOCK_SIZE * (-1) = - BLOCK_SIZE
      BY <1>9
    <3>4. key = new - BLOCK_SIZE * (-1)
      <4> HIDE DEF new, key
      <4> QED BY <1>9, <2>2, <3>1, <3>3
    <3>5. -1 - b = - m
      <4> HIDE DEF b, m
      <4> QED BY <1>2, <3>2
    <3>6. -1 \in Int
      OBVIOUS
    <3> QED BY <3>4, <3>5, <3>6
  <2> QED BY <1>7, <2>1, <2>2
<1>14. PICK z \in Int : key = new - BLOCK_SIZE * z /\ z - b \in {0, - m}
  BY <1>13
<1>15. away = z - a
  <2>1. Base(i) = new - BLOCK_SIZE * a
    BY <1>6, <1>8
  <2>2. a \in Int
    BY <1>12
  <2>3. key = new - BLOCK_SIZE * z
    BY <1>14
  <2>4. away = (Base(i) - key) \div BLOCK_SIZE
    OBVIOUS
  <2> HIDE DEF a, key, new, away
  <2>5. BLOCK_SIZE * (z - a) = BLOCK_SIZE * z - BLOCK_SIZE * a
    BY <1>9, <2>2, TimesSum
  <2>6. BLOCK_SIZE * z \in Int /\ BLOCK_SIZE * a \in Int /\ z - a \in Int
    BY <1>9, <2>2, TimesInt
  <2>7. Base(i) - key = BLOCK_SIZE * (z - a) + 0
    BY <1>8, <1>9, <1>11, <2>1, <2>3, <2>5, <2>6
  <2>8. (BLOCK_SIZE * (z - a) + 0) \div BLOCK_SIZE = z - a
    <3>1. 0 \in 0 .. BLOCK_SIZE - 1
      BY <1>9
    <3> QED BY <1>9, <2>6, <3>1, Quotient
  <2> QED BY <2>4, <2>7, <2>8
<1>16. Multiple(m, k) /\ Multiple((x - t) - (u - v), k)
  <2>1. Spaced(old, now.index)
    BY DEF Ring
  <2>2. Multiple(m, k)
    BY <1>2, <1>3, <2>1 DEF Spaced
  <2>3. x \in DOMAIN old /\ t \in DOMAIN old /\ u \in DOMAIN now.index /\ v \in DOMAIN now.index
    BY <1>2
  <2>4. old[x] = now.index[u] /\ old[t] = now.index[v]
    BY <1>6, <1>7
  <2>5. Multiple((x - t) - (u - v), Len(old))
    <3> HIDE DEF old, now
    <3> QED BY <2>1, <2>3, <2>4 DEF Spaced
  <2> QED BY <1>3, <2>2, <2>5
<1>17. x \in Int /\ t \in Int /\ m \in Int /\ away \in Int
  <2>1. x \in Int /\ t \in Int
    <3> HIDE DEF k
    <3> QED BY <1>4
  <2>2. away \in Int
    <3> HIDE DEF away, a
    <3> QED BY <1>12, <1>15
  <2> QED BY <1>2, <2>1, <2>2
<1> HIDE DEF a, b, m, k, old, now, tl, away, key, new
<1>18. Multiple(0, k) /\ Multiple(- m, k) /\ Multiple(m, k)
  <2>1. Multiple(0, k) /\ Multiple(m, k)
    BY <1>3, <1>16, MultipleSelf
  <2>2. Multiple(0 - m, k)
    BY <1>3, <1>17, <2>1, MultipleSum
  <2>3. 0 - m = - m
    BY <1>17
  <2> QED BY <2>1, <2>2, <2>3
<1>19. (b - a) - (u - v) \in {0, m, - m}
  BY <1>2, <1>12
<1> DEFINE c == (x - t) - (u - v)
           d == (b - a) - (u - v)
           f == z - b
<1>20. /\ c \in Int /\ d \in Int /\ f \in Int /\ Multiple(c, k) /\ Multiple(d, k) /\ Multiple(f, k)
       /\ (c - d) - f = (x - t) - away
  <2>1. c \in Int /\ d \in Int /\ f \in Int
    BY <1>12, <1>17
  <2>2. Multiple(c, k)
    BY <1>16
  <2>3. Multiple(d, k) /\ Multiple(f, k)
    BY <1>14, <1>18, <1>19
  <2>4. (c - d) - f = (x - t) - away
    BY <1>12, <1>15, <1>17
  <2> QED BY <2>1, <2>2, <2>3, <2>4
<1> HIDE DEF c, d, f
<1>21. Multiple((c - d) - f, k)
  <2>0. c \in Int /\ d \in Int /\ Multiple(c, k) /\ Multiple(d, k)
    BY <1>20
  <2>1. Multiple(c - d, k)
    BY <1>3, <2>0, MultipleSum
  <2>2. c - d \in Int /\ f \in Int /\ Multiple(f, k)
    BY <1>20
  <2> QED BY <1>3, <2>1, <2>2, MultipleSum
<1>22. PICK q \in Int : (x - t) - away = k * q
  <2>1. (c - d) - f \in Int
    BY <1>20
  <2>2. Multiple((x - t) - away, k) /\ (x - t) - away \in Int
    BY <1>20, <1>21, <2>1
  <2> QED BY <1>3, <2>2, MultipleIs
<1>23. t - 1 + away = k * (- q) + (x - 1)
  <2>1. k * (- q) = - (k * q) /\ k * q \in Int /\ k * (- q) \in Int
    BY <1>3
  <2> QED BY <1>17, <1>22, <2>1
<1>24. (k * (- q) + (x - 1)) % k = x - 1
  <2>1. x - 1 \in 0 .. k - 1 /\ - q \in Int
    BY <1>3, <1>4
  <2> QED BY <1>3, <2>1, Quotient
<1>25. ((t - 1 + away) % k) + 1 = x
  BY <1>17, <1>23, <1>24
<1> QED BY <1>25 DEF away, key, k, old
-----------------------------------------------------------------------------
(* What the steps of a producer do                                         *)

WithKey(es, e, k) == [es EXCEPT ![e].key = k]
WithValue(es, e, v) == [es EXCEPT ![e].value = v]

LEMMA KeySet ==
    ASSUME NEW es \in Seq(Entry), NEW e \in DOMAIN es, NEW k \in Nat
    PROVE  Changed(es, WithKey(es, e, k), e, k, es[e].value)
<1>1. es[e] \in Entry
  OBVIOUS
<1> DEFINE new == [es[e] EXCEPT !.key = k]
           fs == [es EXCEPT ![e] = new]
<1>2. new \in Entry /\ new.key = k /\ new.value = es[e].value
  BY <1>1 DEF Entry
<1>3. fs = WithKey(es, e, k)
  BY DEF WithKey
<1> HIDE DEF new
<1>4. fs \in Seq(Entry) /\ DOMAIN fs = DOMAIN es /\ fs[e] = new /\ \A f \in DOMAIN es \ {e} : fs[f] = es[f]
  BY <1>2
<1> HIDE DEF fs
<1> QED BY <1>2, <1>3, <1>4 DEF Changed

LEMMA ValueSet ==
    ASSUME NEW es \in Seq(Entry), NEW e \in DOMAIN es, NEW v \in Blocks \cup {Null}
    PROVE  Changed(es, WithValue(es, e, v), e, es[e].key, v)
<1>1. es[e] \in Entry
  OBVIOUS
<1> DEFINE new == [es[e] EXCEPT !.value = v]
           fs == [es EXCEPT ![e] = new]
<1>2. new \in Entry /\ new.key = es[e].key /\ new.value = v
  BY <1>1 DEF Entry
<1>3. fs = WithValue(es, e, v)
  BY DEF WithValue
<1> HIDE DEF new
<1>4. fs \in Seq(Entry) /\ DOMAIN fs = DOMAIN es /\ fs[e] = new /\ \A f \in DOMAIN es \ {e} : fs[f] = es[f]
  BY <1>2
<1> HIDE DEF fs
<1> QED BY <1>2, <1>3, <1>4 DEF Changed

\* The index of p, as the lemmas about rings take it.
LEMMA IndexOf ==
    ASSUME TypeInv, NEW p \in Producers,
           Ring(headers[p], entries[p], tail[p], prod[p].at)
    PROVE  /\ headers[p] \in Seq(Header) /\ entries[p] \in Seq(Entry)
           /\ tail[p] \in Nat /\ head[p] \in Nat /\ prod[p].at \in States
           /\ Headers(headers[p], entries[p])
           /\ headers[p] # <<>>
           /\ Current(p) = Last(headers[p]) /\ Current(p) \in Header
           /\ Current(p).tail \in DOMAIN Current(p).index
           /\ Current(p).index[Current(p).tail] \in DOMAIN entries[p]
           /\ NextEntry(p) \in DOMAIN entries[p]
<1> DEFINE hs == headers[p]
           es == entries[p]
           now == Last(hs)
           m == Size(now)
<1>1. /\ hs \in Seq(Header) /\ es \in Seq(Entry)
      /\ tail[p] \in Nat /\ head[p] \in Nat /\ prod[p].at \in States
  BY DEF TypeInv, States
<1>2. Headers(hs, es) /\ hs # <<>>
  BY DEF Ring, Headers
<1>3. /\ now \in Header /\ DOMAIN now.index = 1 .. m /\ DOMAIN es = 1 .. m
      /\ now.tail \in 1 .. m
      /\ \A x \in 1 .. m : now.index[x] \in 1 .. m /\ After(now, x) \in 1 .. m
  BY <1>1, <1>2, LastHeader
<1>4. Current(p) = now /\ NextEntry(p) = now.index[After(now, now.tail)]
  BY DEF Current, NextEntry
<1> HIDE DEF hs, es, now, m
<1>5. now.index[now.tail] \in DOMAIN es /\ now.index[After(now, now.tail)] \in DOMAIN es
  BY <1>3
<1> QED BY <1>1, <1>2, <1>3, <1>4, <1>5 DEF hs, es, now

ProducerState == [at : {"idle", "link", "block", "publish"}]

LEMMA ClaimIs ==
    ASSUME TypeInv, NEW p \in Producers,
           Ring(headers[p], entries[p], tail[p], prod[p].at), ClaimEntry(p)
    PROVE  LET e == NextEntry(p)
           IN  /\ prod[p].at = "idle" /\ AtStart(tail[p]) /\ e \in DOMAIN entries[p]
               /\ Reusable(entries[p][e])
               /\ Changed(entries[p], entries'[p], e, tail[p], entries[p][e].value)
               /\ entries' \in [Producers -> Seq(Entry)]
               /\ prod' \in [Producers -> ProducerState] /\ prod'[p].at = "link"
               /\ \A q \in Producers \ {p} : entries'[q] = entries[q] /\ prod'[q] = prod[q]
<1> DEFINE e == NextEntry(p)
           fs == WithKey(entries[p], e, tail[p])
<1>1. entries[p] \in Seq(Entry) /\ e \in DOMAIN entries[p] /\ tail[p] \in Nat
  BY IndexOf
<1>2. Changed(entries[p], fs, e, tail[p], entries[p][e].value)
  BY <1>1, KeySet
<1>3. entries' = [entries EXCEPT ![p] = fs]
  BY DEF ClaimEntry, WithKey
<1>4. fs \in Seq(Entry)
  BY <1>2 DEF Changed
<1>5. prod[p].at = "idle" /\ AtStart(tail[p]) /\ Reusable(entries[p][e])
  BY DEF ClaimEntry, BlockStart, AtStart
<1> HIDE DEF fs, e
<1>6. /\ entries' \in [Producers -> Seq(Entry)] /\ entries'[p] = fs
      /\ \A q \in Producers \ {p} : entries'[q] = entries[q]
  BY <1>3, <1>4 DEF TypeInv
<1>7. prod' = [prod EXCEPT ![p] = [at |-> "link"]]
  BY DEF ClaimEntry
<1>8. /\ prod' \in [Producers -> ProducerState] /\ prod'[p].at = "link"
      /\ \A q \in Producers \ {p} : prod'[q] = prod[q]
  BY <1>7 DEF TypeInv, ProducerState
<1> QED BY <1>1, <1>2, <1>5, <1>6, <1>8 DEF e

LEMMA MoveTailIs ==
    ASSUME TypeInv, NEW p \in Producers,
           Ring(headers[p], entries[p], tail[p], prod[p].at), MoveIndexTail(p)
    PROVE  /\ prod[p].at = "link"
           /\ headers'[p] = TailAt(headers[p], After(Last(headers[p]), Last(headers[p]).tail))
           /\ headers' \in [Producers -> Seq(Header)]
           /\ Len(headers'[p]) = Len(headers[p]) /\ DOMAIN headers'[p] = DOMAIN headers[p]
           /\ \A h \in DOMAIN headers[p] : headers'[p][h].index = headers[p][h].index
           /\ prod' \in [Producers -> ProducerState] /\ prod'[p].at = "block"
           /\ \A q \in Producers \ {p} : headers'[q] = headers[q] /\ prod'[q] = prod[q]
<1> DEFINE hs == headers[p]
           t == After(Last(hs), Last(hs).tail)
           gs == TailAt(hs, t)
<1>1. hs \in Seq(Header) /\ Headers(hs, entries[p]) /\ entries[p] \in Seq(Entry)
  BY IndexOf
<1>2. t \in DOMAIN Last(hs).index
  <2>1. LET now == Last(hs)
            m == Size(now)
        IN  now.tail \in 1 .. m /\ DOMAIN now.index = 1 .. m /\ \A x \in 1 .. m : After(now, x) \in 1 .. m
    BY <1>1, LastHeader
  <2> QED BY <2>1
<1>3. \A h \in DOMAIN hs : Spaced(hs[h].index, Last(hs).index)
  BY DEF Ring
<1>4. /\ gs \in Seq(Header) /\ Len(gs) = Len(hs) /\ DOMAIN gs = DOMAIN hs
      /\ \A h \in DOMAIN hs : gs[h].index = hs[h].index
  <2> HIDE DEF hs, t
  <2> QED BY <1>1, <1>2, <1>3, HeadersTail
<1>5. headers' = [headers EXCEPT ![p] = gs]
  <2>1. headers' = [headers EXCEPT ![p][Len(headers[p])].tail = After(Current(p), @)]
    BY DEF MoveIndexTail
  <2>2. Last(hs) = hs[Len(hs)]
    BY <1>1, LastHeader
  <2> QED BY <2>1, <2>2 DEF TailAt, Current
<1>6. prod[p].at = "link" /\ prod' = [prod EXCEPT ![p] = [at |-> "block"]]
  BY DEF MoveIndexTail
<1> HIDE DEF gs
<1>7. /\ headers' \in [Producers -> Seq(Header)] /\ headers'[p] = gs
      /\ \A q \in Producers \ {p} : headers'[q] = headers[q]
  BY <1>4, <1>5 DEF TypeInv
<1>8. /\ prod' \in [Producers -> ProducerState] /\ prod'[p].at = "block"
      /\ \A q \in Producers \ {p} : prod'[q] = prod[q]
  BY <1>6 DEF TypeInv, ProducerState
<1> QED BY <1>4, <1>6, <1>7, <1>8 DEF gs

LEMMA GrowIs ==
    ASSUME TypeInv, NEW p \in Producers,
           Ring(headers[p], entries[p], tail[p], prod[p].at), GrowIndex(p)
    PROVE  /\ prod[p].at = "idle" /\ ~ Reusable(entries[p][NextEntry(p)])
           /\ headers'[p] = Append(headers[p], Doubled(Last(headers[p])))
           /\ entries'[p] = entries[p] \o FreshEntries(Size(Last(headers[p])))
           /\ headers' \in [Producers -> Seq(Header)]
           /\ entries' \in [Producers -> Seq(Entry)]
           /\ \A q \in Producers \ {p} : headers'[q] = headers[q] /\ entries'[q] = entries[q]
<1> DEFINE hs == headers[p]
           es == entries[p]
           now == Last(hs)
           m == Size(now)
           t == now.tail
<1>1. hs \in Seq(Header) /\ es \in Seq(Entry) /\ Headers(hs, es) /\ Current(p) = now
  BY IndexOf
<1>2. /\ m \in Nat \ {0} /\ t \in 1 .. m /\ Len(es) = m /\ DOMAIN now.index = 1 .. m
      /\ \A x \in 1 .. m : now.index[x] \in 1 .. m
  BY <1>1, LastHeader
<1>3. Doubled(now) \in Header
  BY <1>1, DoubledIs
<1>4. Grown(p) = Doubled(now)
  <2> DEFINE turned == [x \in 1 .. m |-> now.index[((t + x - 1) % m) + 1]]
             more == [x \in 1 .. m |-> m + x]
             both == [x \in 1 .. m + m |-> IF x <= m THEN now.index[Ahead(t, m, x)] ELSE x]
  <2>1. Grown(p) = [tail |-> m, index |-> turned \o more]
    BY <1>1, <1>2 DEF Grown
  <2>2. Doubled(now) = [tail |-> m, index |-> both]
    BY DEF Doubled
  <2>3. \A x \in 1 .. m : ((t + x - 1) % m) + 1 = Ahead(t, m, x) /\ Ahead(t, m, x) \in 1 .. m
    <3> HIDE DEF m, t
    <3>1. \A x \in 1 .. m : Ahead(t, m, x) \in 1 .. m
      BY <1>2, AheadIs
    <3> QED BY <1>2, <3>1, AheadMod
  <2>4. \A x \in 1 .. m : turned[x] = now.index[Ahead(t, m, x)] /\ turned[x] \in Nat
    <3> TAKE x \in 1 .. m
    <3>1. turned[x] = now.index[((t + x - 1) % m) + 1]
      OBVIOUS
    <3> HIDE DEF turned, m, t
    <3>2. ((t + x - 1) % m) + 1 = Ahead(t, m, x) /\ Ahead(t, m, x) \in 1 .. m
      BY <2>3
    <3>3. now.index[Ahead(t, m, x)] \in Nat
      BY <1>2, <3>2
    <3> QED BY <3>1, <3>2, <3>3
  <2>5. turned \in [1 .. m -> Nat] /\ more \in [1 .. m -> Nat]
    BY <1>2, <2>4
  <2>6. \A x \in 1 .. m : more[x] = m + x
    OBVIOUS
  <2>7. both = [x \in 1 .. m + m |-> both[x]] /\ \A x \in 1 .. m + m : both[x] = IF x <= m THEN turned[x] ELSE x
    <3>1. \A x \in 1 .. m + m : x <= m => x \in 1 .. m
      BY <1>2
    <3> QED BY <2>4, <3>1
  <2> HIDE DEF turned, more, both, m
  <2>8. turned \in Seq(Nat) /\ Len(turned) = m /\ more \in Seq(Nat) /\ Len(more) = m
    BY <1>2, <2>5, FunctionSeq
  <2> DEFINE cat == turned \o more
  <2>9. /\ cat \in Seq(Nat) /\ Len(cat) = m + m
        /\ \A x \in 1 .. m + m : cat[x] = IF x <= m THEN turned[x] ELSE more[x - m]
    <3>1. /\ cat \in Seq(Nat) /\ Len(cat) = Len(turned) + Len(more)
          /\ \A x \in 1 .. Len(turned) + Len(more) :
                 cat[x] = IF x <= Len(turned) THEN turned[x] ELSE more[x - Len(turned)]
      BY <2>8, ConcatProperties
    <3> HIDE DEF cat
    <3> QED BY <2>8, <3>1
  <2> HIDE DEF cat
  <2>10. \A x \in 1 .. m + m : cat[x] = both[x]
    <3> TAKE x \in 1 .. m + m
    <3>1. CASE x <= m
      BY <2>7, <2>9, <3>1
    <3>2. CASE ~ (x <= m)
      <4>1. x - m \in 1 .. m /\ m + (x - m) = x
        BY <1>2, <3>2
      <4> QED BY <2>6, <2>7, <2>9, <3>2, <4>1
    <3> QED BY <3>1, <3>2
  <2>11. cat = [x \in 1 .. m + m |-> cat[x]]
    <3>1. DOMAIN cat = 1 .. Len(cat) /\ cat = [x \in DOMAIN cat |-> cat[x]]
      BY <2>9
    <3> QED BY <2>9, <3>1
  <2>12. cat = both
    BY <2>7, <2>10, <2>11
  <2> QED BY <2>1, <2>2, <2>12 DEF cat
<1>5. es \o FreshEntries(m) \in Seq(Entry)
  <2>1. FreshEntry \in Entry
    BY DEF FreshEntry, Entry, INVALID_BLOCK_BASE
  <2>2. FreshEntries(m) \in [1 .. m -> Entry]
    BY <2>1 DEF FreshEntries
  <2> HIDE DEF m
  <2>3. FreshEntries(m) \in Seq(Entry)
    BY <1>2, <2>2, FunctionSeq
  <2> QED BY <1>1, <2>3, ConcatProperties
<1>6. /\ headers' = [headers EXCEPT ![p] = Append(hs, Doubled(now))]
      /\ entries' = [entries EXCEPT ![p] = es \o FreshEntries(m)]
  <2>1. /\ headers' = [headers EXCEPT ![p] = Append(@, Grown(p))]
        /\ entries' = [entries EXCEPT ![p] = @ \o [i \in 1 .. Size(Current(p)) |-> FreshEntry]]
    BY DEF GrowIndex
  <2>2. FreshEntries(m) = [i \in 1 .. Size(Current(p)) |-> FreshEntry]
    BY <1>1 DEF FreshEntries
  <2> HIDE DEF now, m
  <2> QED BY <1>4, <2>1, <2>2
<1>7. Append(hs, Doubled(now)) \in Seq(Header)
  <2> HIDE DEF hs, now
  <2> QED BY <1>1, <1>3
<1>8. prod[p].at = "idle" /\ ~ Reusable(entries[p][NextEntry(p)])
  BY DEF GrowIndex
<1> DEFINE gs == Append(hs, Doubled(now))
           fs == es \o FreshEntries(m)
<1>9. headers' = [headers EXCEPT ![p] = gs] /\ entries' = [entries EXCEPT ![p] = fs]
      /\ gs \in Seq(Header) /\ fs \in Seq(Entry)
  BY <1>5, <1>6, <1>7
<1> HIDE DEF gs, fs
<1>10. /\ headers' \in [Producers -> Seq(Header)] /\ headers'[p] = gs
       /\ \A q \in Producers \ {p} : headers'[q] = headers[q]
       /\ entries' \in [Producers -> Seq(Entry)] /\ entries'[p] = fs
       /\ \A q \in Producers \ {p} : entries'[q] = entries[q]
  BY <1>9 DEF TypeInv
<1> QED BY <1>8, <1>10 DEF gs, fs

\* The slot k of a block gets v, and nothing else changes.
Filling(b, k, v, emptied, at) ==
    /\ block' \in [Blocks -> Memory]
    /\ \A c \in Blocks \ {b} : block'[c] = block[c]
    /\ block'[b].emptied = emptied /\ block'[b].at = at
    /\ \A j \in Slots : block'[b].slots[j] = IF j = k THEN v ELSE block[b].slots[j]

LEMMA SlotSet ==
    ASSUME TypeInv, NEW b \in Blocks, NEW k \in Slots, NEW v \in Nat \X Nat,
           block' = [block EXCEPT ![b].slots[k] = v]
    PROVE  Filling(b, k, v, block[b].emptied, block[b].at)
<1>1. block \in [Blocks -> Memory] /\ block[b] \in Memory
  BY DEF TypeInv
<1> DEFINE s == [block[b].slots EXCEPT ![k] = v]
           new == [block[b] EXCEPT !.slots = s]
<1>2. /\ s \in [Slots -> Nat \X Nat]
      /\ \A j \in Slots : s[j] = IF j = k THEN v ELSE block[b].slots[j]
  BY <1>1 DEF Memory
<1>3. block' = [block EXCEPT ![b] = new]
  OBVIOUS
<1> HIDE DEF s
<1>4. new \in Memory /\ new.slots = s /\ new.emptied = block[b].emptied /\ new.at = block[b].at
  BY <1>1, <1>2 DEF Memory
<1> HIDE DEF new
<1>5. block' \in [Blocks -> Memory] /\ block'[b] = new /\ \A c \in Blocks \ {b} : block'[c] = block[c]
  BY <1>1, <1>3, <1>4
<1> QED BY <1>2, <1>4, <1>5 DEF Filling

LEMMA BlockFilled ==
    ASSUME TypeInv, NEW b \in Blocks, NEW k \in Slots, NEW v \in Nat \X Nat,
           block' = [block EXCEPT ![b] = [slots |-> [@.slots EXCEPT ![k] = v],
                                          emptied |-> 0, at |-> "used"]]
    PROVE  Filling(b, k, v, 0, "used")
<1>1. block \in [Blocks -> Memory] /\ block[b] \in Memory
  BY DEF TypeInv
<1> DEFINE s == [block[b].slots EXCEPT ![k] = v]
           new == [slots |-> s, emptied |-> 0, at |-> "used"]
<1>2. /\ s \in [Slots -> Nat \X Nat]
      /\ \A j \in Slots : s[j] = IF j = k THEN v ELSE block[b].slots[j]
  BY <1>1 DEF Memory
<1>3. block' = [block EXCEPT ![b] = new]
  OBVIOUS
<1> HIDE DEF s
<1>4. new \in Memory /\ new.slots = s /\ new.emptied = 0 /\ new.at = "used"
  BY <1>2 DEF Memory
<1> HIDE DEF new
<1>5. block' \in [Blocks -> Memory] /\ block'[b] = new /\ \A c \in Blocks \ {b} : block'[c] = block[c]
  BY <1>1, <1>3, <1>4
<1> QED BY <1>2, <1>4, <1>5 DEF Filling

LEMMA ItemIs ==
    ASSUME QueueAssumption, TypeInv, NEW p \in Producers
    PROVE  Item(p) \in Nat \X Nat /\ Item(p) # Empty /\ Item(p) = <<p, tail[p] + 1>> /\ p \in Nat
BY DEF QueueAssumption, TypeInv, Item, Empty

LEMMA BuildIs ==
    ASSUME QueueAssumption, TypeInv, NEW p \in Producers,
           Ring(headers[p], entries[p], tail[p], prod[p].at), EnqueueInBlock(p)
    PROVE  LET e == Current(p).index[Current(p).tail]
           IN  /\ prod[p].at = "idle" /\ ~ AtStart(tail[p])
               /\ e \in DOMAIN entries[p] /\ entries[p][e].value \in Blocks
               /\ tail[p] % BLOCK_SIZE \in Slots
               /\ Filling(entries[p][e].value, tail[p] % BLOCK_SIZE, Item(p),
                          block[entries[p][e].value].emptied, block[entries[p][e].value].at)
               /\ prod' \in [Producers -> ProducerState] /\ prod'[p].at = "publish"
               /\ \A q \in Producers \ {p} : prod'[q] = prod[q]
<1> DEFINE e == Current(p).index[Current(p).tail]
           b == entries[p][e].value
           k == tail[p] % BLOCK_SIZE
<1>1. e \in DOMAIN entries[p] /\ tail[p] \in Nat /\ entries[p] \in Seq(Entry)
  BY IndexOf
<1>2. entries[p][e] \in Entry
  BY <1>1
<1>3. b # Null /\ block' = [block EXCEPT ![b].slots[k] = Item(p)]
      /\ prod[p].at = "idle" /\ ~ AtStart(tail[p])
  BY DEF EnqueueInBlock, BlockStart, AtStart
<1>4. b \in Blocks
  BY <1>2, <1>3 DEF Entry
<1>5. k \in Slots
  BY <1>1, BaseIs
<1>6. Item(p) \in Nat \X Nat
  BY ItemIs
<1>7. prod' = [prod EXCEPT ![p] = [at |-> "publish"]]
  BY DEF EnqueueInBlock
<1>8. /\ prod' \in [Producers -> ProducerState] /\ prod'[p].at = "publish"
      /\ \A q \in Producers \ {p} : prod'[q] = prod[q]
  BY <1>7 DEF TypeInv, ProducerState
<1> HIDE DEF b, k
<1>9. Filling(b, k, Item(p), block[b].emptied, block[b].at)
  BY <1>3, <1>4, <1>5, <1>6, SlotSet
<1> QED BY <1>1, <1>3, <1>4, <1>5, <1>8, <1>9 DEF b, k

LEMMA FillIs ==
    ASSUME QueueAssumption, TypeInv, Returned, NEW p \in Producers,
           Ring(headers[p], entries[p], tail[p], prod[p].at), FillBlock(p)
    PROVE  LET e == Current(p).index[Current(p).tail]
           IN  /\ prod[p].at = "block" /\ e \in DOMAIN entries[p]
               /\ \E b \in Blocks :
                      /\ block[b].at # "used"
                      /\ Changed(entries[p], entries'[p], e, entries[p][e].key, b)
                      /\ Filling(b, 0, Item(p), 0, "used")
                      /\ \A c \in pooled' + 1 .. PoolSize : c # b /\ c \in pooled + 1 .. PoolSize
               /\ pooled' \in 0 .. PoolSize
               /\ entries' \in [Producers -> Seq(Entry)]
               /\ prod' \in [Producers -> ProducerState] /\ prod'[p].at = "publish"
               /\ \A q \in Producers \ {p} : entries'[q] = entries[q] /\ prod'[q] = prod[q]
<1> DEFINE e == Current(p).index[Current(p).tail]
<1>1. e \in DOMAIN entries[p] /\ entries[p] \in Seq(Entry)
  BY IndexOf
<1>2. prod[p].at = "block" /\ prod' = [prod EXCEPT ![p] = [at |-> "publish"]]
  BY DEF FillBlock
<1>3. /\ prod' \in [Producers -> ProducerState] /\ prod'[p].at = "publish"
      /\ \A q \in Producers \ {p} : prod'[q] = prod[q]
  BY <1>2 DEF TypeInv, ProducerState
<1>4. PICK b \in Obtainable :
          /\ block' = [block EXCEPT ![b] = [slots |-> [@.slots EXCEPT ![0] = Item(p)],
                                            emptied |-> 0, at |-> "used"]]
          /\ entries' = [entries EXCEPT ![p] = WithValue(entries[p], e, b)]
  BY DEF FillBlock, ResetEmpty, WithValue
<1>5. /\ PoolSize \in Nat /\ MaxBlocks \in Nat /\ PoolSize <= MaxBlocks /\ pooled \in 0 .. PoolSize
  BY DEF QueueAssumption, TypeInv
<1>6. /\ pooled' \in {pooled + 1, PoolSize} /\ pooled' <= pooled + 1 /\ pooled' <= PoolSize
  <2>1. pooled' = Min({pooled + 1, PoolSize})
    BY DEF FillBlock
  <2>2. pooled + 1 \in Int /\ PoolSize \in Int
    BY <1>5
  <2> QED BY <2>1, <2>2, Lesser
<1>7. pooled' \in 0 .. PoolSize
  BY <1>5, <1>6
<1>8. /\ b \in Blocks /\ block[b].at # "used"
      /\ \A c \in pooled' + 1 .. PoolSize : c # b /\ c \in pooled + 1 .. PoolSize
  <2>1. CASE pooled < PoolSize
    <3>1. b = pooled + 1
      BY <1>4, <2>1 DEF Obtainable
    <3>2. b \in Blocks /\ b \in pooled + 1 .. PoolSize
      BY <1>5, <2>1, <3>1 DEF Blocks
    <3>3. block[b].at = "pool"
      BY <3>2 DEF Returned
    <3>4. pooled' = pooled + 1
      BY <1>5, <1>6, <2>1
    <3> QED BY <1>5, <3>1, <3>2, <3>3, <3>4
  <2>2. CASE ~ (pooled < PoolSize)
    <3>1. b \in FreeBlocks \/ (Unmade # {} /\ b = Min(Unmade))
      BY <1>4, <2>2 DEF Obtainable
    <3>2. b \in FreeBlocks \/ b \in Unmade
      <4>1. Unmade \subseteq Nat
        BY DEF Unmade, Blocks
      <4> QED BY <3>1, <4>1, LeastIs
    <3>3. pooled' = PoolSize
      BY <1>5, <1>6, <2>2
    <3>4. \A c \in pooled' + 1 .. PoolSize : FALSE
      BY <1>5, <3>3
    <3> QED BY <3>2, <3>4 DEF FreeBlocks, Unmade
  <2> QED BY <2>1, <2>2
<1>9. 0 \in Slots
  BY BlockSize DEF Slots
<1>10. Filling(b, 0, Item(p), 0, "used")
  BY <1>4, <1>8, <1>9, BlockFilled, ItemIs
<1>11. Changed(entries[p], WithValue(entries[p], e, b), e, entries[p][e].key, b)
  <2> HIDE DEF e
  <2> QED BY <1>1, <1>8, ValueSet
<1> DEFINE fs == WithValue(entries[p], e, b)
<1>12. fs \in Seq(Entry)
  BY <1>11 DEF Changed
<1>13. entries' = [entries EXCEPT ![p] = fs]
  BY <1>4
<1> HIDE DEF fs, e
<1>14. /\ entries' \in [Producers -> Seq(Entry)] /\ entries'[p] = fs
       /\ \A q \in Producers \ {p} : entries'[q] = entries[q]
  BY <1>12, <1>13 DEF TypeInv
<1>15. Changed(entries[p], entries'[p], e, entries[p][e].key, b)
  BY <1>11, <1>14 DEF fs
<1> QED BY <1>1, <1>2, <1>3, <1>7, <1>8, <1>10, <1>14, <1>15 DEF e

LEMMA NoBlockIs ==
    ASSUME TypeInv, NEW p \in Producers,
           Ring(headers[p], entries[p], tail[p], prod[p].at), NoBlock(p)
    PROVE  LET now == Last(headers[p])
           IN  /\ prod[p].at = "block"
               /\ headers'[p] = TailAt(headers[p], IF now.tail = 1 THEN Size(now) ELSE now.tail - 1)
               /\ headers' \in [Producers -> Seq(Header)]
               /\ Len(headers'[p]) = Len(headers[p]) /\ DOMAIN headers'[p] = DOMAIN headers[p]
               /\ \A h \in DOMAIN headers[p] : headers'[p][h].index = headers[p][h].index
               /\ entries' = entries
               /\ prod' \in [Producers -> ProducerState] /\ prod'[p].at = "idle"
               /\ \A q \in Producers \ {p} : headers'[q] = headers[q] /\ prod'[q] = prod[q]
<1> DEFINE hs == headers[p]
           now == Last(hs)
           m == Size(now)
           t == now.tail
           u == IF t = 1 THEN m ELSE t - 1
           gs == TailAt(hs, u)
           e == now.index[t]
<1>1. /\ hs \in Seq(Header) /\ Headers(hs, entries[p]) /\ entries[p] \in Seq(Entry)
      /\ Current(p) = now /\ e \in DOMAIN entries[p]
  BY IndexOf
<1>2. m \in Nat \ {0} /\ t \in 1 .. m /\ DOMAIN now.index = 1 .. m /\ hs[Len(hs)] = now
  BY <1>1, LastHeader
<1>3. u \in DOMAIN now.index
  <2>1. u = IF t = 1 THEN m ELSE t - 1
    OBVIOUS
  <2> HIDE DEF u, m, t
  <2> QED BY <1>2, <2>1
<1>4. \A h \in DOMAIN hs : Spaced(hs[h].index, Last(hs).index)
  BY DEF Ring
<1>5. /\ gs \in Seq(Header) /\ Len(gs) = Len(hs) /\ DOMAIN gs = DOMAIN hs
      /\ \A h \in DOMAIN hs : gs[h].index = hs[h].index
  <2> HIDE DEF hs, u
  <2> QED BY <1>1, <1>3, <1>4, HeadersTail
<1>6. headers' = [headers EXCEPT ![p] = gs]
  BY <1>1 DEF NoBlock, TailAt
<1>7. prod[p].at = "block" /\ prod' = [prod EXCEPT ![p] = Idle]
  BY DEF NoBlock
<1>8. entries' = entries
  <2>1. entries' = [entries EXCEPT ![p][e].value = Null]
    BY <1>1 DEF NoBlock
  <2>2. entries[p][e].value = Null
    BY <1>7 DEF Ring, Linked
  <2>3. entries[p][e] \in Entry
    BY <1>1
  <2> DEFINE new == [entries[p][e] EXCEPT !.value = Null]
             fs == [entries[p] EXCEPT ![e] = new]
  <2>4. new = entries[p][e]
    BY <2>2, <2>3 DEF Entry
  <2> HIDE DEF e
  <2>5. fs = entries[p]
    BY <1>1, <2>4
  <2>6. entries' = [entries EXCEPT ![p] = fs]
    BY <2>1
  <2> HIDE DEF fs
  <2> QED BY <2>5, <2>6 DEF TypeInv
<1> HIDE DEF gs
<1>9. /\ headers' \in [Producers -> Seq(Header)] /\ headers'[p] = gs
      /\ \A q \in Producers \ {p} : headers'[q] = headers[q]
  BY <1>5, <1>6 DEF TypeInv
<1>10. /\ prod' \in [Producers -> ProducerState] /\ prod'[p].at = "idle"
       /\ \A q \in Producers \ {p} : prod'[q] = prod[q]
  BY <1>7 DEF TypeInv, ProducerState, Idle
<1> QED BY <1>5, <1>7, <1>8, <1>9, <1>10 DEF gs, u

LEMMA PublishIs ==
    ASSUME TypeInv, NEW p \in Producers, Publish(p)
    PROVE  /\ prod[p].at = "publish"
           /\ tail' \in [Producers -> Nat] /\ tail'[p] = tail[p] + 1
           /\ prod' \in [Producers -> ProducerState] /\ prod'[p].at = "idle"
           /\ \A q \in Producers \ {p} : tail'[q] = tail[q] /\ prod'[q] = prod[q]
BY DEF TypeInv, Publish, ProducerState, Idle
-----------------------------------------------------------------------------
(* What the steps of a consumer do                                         *)

Steps(c) ==
    /\ cons' \in [Consumers -> ConsumerState]
    /\ \A d \in Consumers \ {c} : cons'[d] = cons[d]

LEMMA StepIs ==
    ASSUME TypeInv, NEW c \in Consumers, NEW s \in ConsumerState, Becomes(c, s)
    PROVE  Steps(c) /\ cons'[c] = s
BY Became DEF Steps

LEMMA TriesIs ==
    ASSUME TypeInv, NEW c \in Consumers, NEW todo \in Seq(Producers), NEW best \in Producers,
           NEW seen \in Seen, Tries(c, todo, best, seen)
    PROVE  Steps(c) /\ cons'[c].at \in {"idle", "check"}
<1> DEFINE others == {i \in DOMAIN todo : todo[i] # best}
           i == Min(others)
           rest == SubSeq(todo, i + 1, Len(todo))
           next == [at |-> "check", p |-> todo[i], todo |-> rest,
                    best |-> best, first |-> FALSE, seen |-> seen]
           s == IF others = {} THEN Idle ELSE next
<1>1. Becomes(c, s)
  BY DEF Tries
<1>2. ASSUME others # {} PROVE next \in Checking
  <2>1. others \subseteq Nat
    OBVIOUS
  <2>2. i \in others
    BY <1>2, <2>1, LeastIs
  <2>3. i \in DOMAIN todo /\ todo[i] \in Producers
    BY <2>2
  <2> HIDE DEF i
  <2>4. rest \in Seq(Producers)
    <3>1. \A j \in i + 1 .. Len(todo) : todo[j] \in Producers
      BY <2>3
    <3>2. i + 1 \in Int /\ Len(todo) \in Int
      BY <2>3
    <3> QED BY <3>1, <3>2, SubSeqProperties
  <2> HIDE DEF rest
  <2> QED BY <2>3, <2>4 DEF Checking
<1>3. s \in ConsumerState /\ s.at \in {"idle", "check"}
  <2>1. CASE others = {}
    BY <2>1, InState DEF Idle
  <2>2. CASE others # {}
    <3>1. s = next
      BY <2>2
    <3>2. next.at = "check"
      OBVIOUS
    <3> HIDE DEF next, s
    <3> QED BY <1>2, <2>2, <3>1, <3>2, InState
  <2> QED BY <2>1, <2>2
<1> HIDE DEF s
<1> QED BY <1>1, <1>3, StepIs

LEMMA FailsIs ==
    ASSUME TypeInv, NEW c \in Consumers, cons[c].at \in {"guess", "undo"}, Fails(c)
    PROVE  Steps(c) /\ cons'[c].at \in {"idle", "check"}
<1> DEFINE s == cons[c]
           todo == IF s.first THEN list ELSE s.todo
<1>1. s.todo \in Seq(Producers) /\ s.best \in Producers /\ s.seen \in Seen
  <2>1. s \in Guessing \/ s \in Trying
    BY Consumer
  <2> QED BY <2>1 DEF Guessing, Trying
<1>2. todo \in Seq(Producers)
  BY <1>1 DEF TypeInv
<1>3. Tries(c, todo, s.best, s.seen)
  BY DEF Fails
<1> HIDE DEF todo
<1> QED BY <1>1, <1>2, <1>3, TriesIs

LEMMA StartIs ==
    ASSUME TypeInv, NEW c \in Consumers, Start(c)
    PROVE  At(c, "idle") /\ Steps(c) /\ cons'[c].at = "scan" /\ cons'[c].count = 0 /\ cons'[c].size = 0
<1> DEFINE s == [at |-> "scan", todo |-> list, best |-> Null, size |-> 0,
                 count |-> 0, seen |-> tail]
<1>1. s \in Scanning /\ s.at = "scan" /\ s.count = 0 /\ s.size = 0
  BY DEF TypeInv, Scanning, Seen
<1>2. Becomes(c, s) /\ At(c, "idle")
  BY DEF Start
<1> HIDE DEF s
<1> QED BY <1>1, <1>2, StepIs, InState

LEMMA ScanIs ==
    ASSUME TypeInv, NEW c \in Consumers, Chosen(c), Scan(c)
    PROVE  /\ At(c, "scan") /\ Steps(c) /\ cons'[c].at = "scan"
           /\ (cons'[c].count = 0 /\ cons'[c].size = 0) \/ cons'[c].best \in Producers
<1> DEFINE s == cons[c]
           p == Head(s.todo)
           n == tail[p] - head[p]
           count == IF n > 0 THEN s.count + 1 ELSE s.count
           best == IF n > s.size THEN p ELSE s.best
           size == Max({n, s.size})
           rest == Tail(s.todo)
           t == [s EXCEPT !.todo = rest, !.count = count, !.best = best, !.size = size]
<1>1. At(c, "scan") /\ s \in Scanning
  BY Consumer DEF Scan, At
<1>2. /\ s.todo \in Seq(Producers) /\ s.todo # <<>> /\ s.count \in Nat /\ s.size \in Nat
      /\ s.best \in Producers \cup {Null} /\ s.seen \in Seen
  BY <1>1 DEF Scan, Scanning
<1>3. p \in Producers /\ rest \in Seq(Producers)
  BY <1>2, HeadTailProperties
<1>4. n \in Int
  <2> HIDE DEF p
  <2> QED BY <1>3 DEF TypeInv
<1>5. Becomes(c, t)
  BY DEF Scan
<1>6. size \in {n, s.size} /\ size >= n /\ size >= s.size
  <2> DEFINE k == s.size
  <2>1. n \in Int /\ k \in Int
    BY <1>2, <1>4
  <2> HIDE DEF n, k
  <2>2. Max({n, k}) \in {n, k} /\ Max({n, k}) >= n /\ Max({n, k}) >= k
    BY <2>1, Greater
  <2> QED BY <2>2 DEF k
<1>7. (s.count = 0 /\ s.size = 0) \/ s.best \in Producers
  BY <1>1 DEF Chosen, At
<1> HIDE DEF n, p, rest
<1> DEFINE z == size
<1>8. z \in Nat /\ count \in Nat /\ best \in Producers \cup {Null}
  <2>1. z \in {n, s.size} /\ z >= n /\ z >= s.size
    BY <1>6
  <2> HIDE DEF z
  <2> QED BY <1>2, <1>3, <1>4, <2>1
<1>9. (count = 0 /\ z = 0) \/ best \in Producers
  <2>1. z \in {n, s.size} /\ z >= n /\ z >= s.size
    BY <1>6
  <2> HIDE DEF z
  <2> QED BY <1>2, <1>3, <1>4, <1>7, <2>1
<1> HIDE DEF z, count, best
<1>10. t = [s EXCEPT !.todo = rest, !.count = count, !.best = best, !.size = z]
  BY DEF z
<1>11. t \in Scanning /\ t.at = "scan" /\ t.count = count /\ t.best = best /\ t.size = z
  <2> HIDE DEF t, s
  <2> QED BY <1>1, <1>3, <1>8, <1>10 DEF Scanning
<1> HIDE DEF t
<1>12. Steps(c) /\ cons'[c] = t
  BY <1>5, <1>11, StepIs, InState
<1> QED BY <1>1, <1>9, <1>11, <1>12

LEMMA ChooseIs ==
    ASSUME TypeInv, NEW c \in Consumers, Chosen(c), Choose(c)
    PROVE  At(c, "scan") /\ Steps(c) /\ cons'[c].at \in {"idle", "check"}
<1> DEFINE s == cons[c]
           next == [at |-> "check", p |-> s.best, todo |-> <<>>,
                    best |-> s.best, first |-> TRUE, seen |-> s.seen]
           t == IF s.count = 0 THEN Idle ELSE next
<1>1. At(c, "scan") /\ s \in Scanning
  BY Consumer DEF Choose, At
<1>2. Becomes(c, t)
  BY DEF Choose
<1>3. t \in ConsumerState /\ t.at \in {"idle", "check"}
  <2>1. CASE s.count = 0
    BY <2>1, InState DEF Idle
  <2>2. CASE s.count # 0
    <3>1. s.best \in Producers /\ s.seen \in Seen
      BY <1>1, <2>2 DEF Chosen, At, Scanning
    <3>2. next \in Checking /\ next.at = "check"
      BY <3>1 DEF Checking
    <3> HIDE DEF next
    <3> QED BY <2>2, <3>2, InState
  <2> QED BY <2>1, <2>2
<1> HIDE DEF t
<1> QED BY <1>1, <1>2, <1>3, StepIs

LEMMA LoadTailIs ==
    ASSUME TypeInv, NEW c \in Consumers, LoadTail(c)
    PROVE  /\ At(c, "check") /\ Steps(c) /\ cons'[c].at = "guess" /\ cons'[c].p = cons[c].p
           /\ cons'[c].over = overcommit[cons[c].p]
<1> DEFINE s == cons[c]
           t == [at |-> "guess", p |-> s.p, todo |-> s.todo, best |-> s.best,
                 first |-> s.first, seen |-> s.seen,
                 tail |-> tail[s.p], over |-> overcommit[s.p]]
<1>1. At(c, "check") /\ s \in Checking /\ Becomes(c, t)
  BY Consumer DEF LoadTail, At
<1>2. tail[s.p] \in Nat /\ overcommit[s.p] \in Nat
  BY <1>1 DEF TypeInv, Checking
<1>3. t \in Guessing /\ t.at = "guess" /\ t.p = s.p /\ t.over = overcommit[s.p]
  BY <1>1, <1>2 DEF Checking, Guessing
<1> HIDE DEF t
<1> QED BY <1>1, <1>3, StepIs, InState

LEMMA GuessIs ==
    ASSUME TypeInv, NEW c \in Consumers, Guess(c)
    PROVE  /\ At(c, "guess") /\ Steps(c)
           /\ \/ cons'[c].at = "bump" /\ cons'[c].p = cons[c].p /\ cons'[c].over = cons[c].over
              \/ cons'[c].at \in {"idle", "check"}
<1> DEFINE s == cons[c]
           t == [s EXCEPT !.at = "bump"]
<1>1. At(c, "guess") /\ s \in Guessing
  BY Consumer DEF Guess, At
<1>2. t \in Guessing /\ t.at = "bump" /\ t.p = s.p /\ t.over = s.over
  BY <1>1 DEF Guessing
<1>3. Becomes(c, t) \/ Fails(c)
  BY DEF Guess
<1>4. CASE Becomes(c, t)
  <2> HIDE DEF t
  <2> QED BY <1>1, <1>2, <1>4, StepIs, InState
<1>5. CASE Fails(c)
  BY <1>1, <1>5, FailsIs DEF At
<1> QED BY <1>3, <1>4, <1>5

LEMMA BumpIs ==
    ASSUME TypeInv, NEW c \in Consumers, Bump(c)
    PROVE  LET p == cons[c].p
           IN  /\ At(c, "bump") /\ Steps(c) /\ p \in Producers
               /\ cons'[c].at = "recheck" /\ cons'[c].p = p
               /\ cons'[c].over = cons[c].over /\ cons'[c].my = optimistic[p]
               /\ optimistic' \in [Producers -> Nat] /\ optimistic'[p] = optimistic[p] + 1
               /\ \A q \in Producers \ {p} : optimistic'[q] = optimistic[q]
<1> DEFINE s == cons[c]
           t == [at |-> "recheck", p |-> s.p, todo |-> s.todo, best |-> s.best,
                 first |-> s.first, seen |-> s.seen, over |-> s.over,
                 my |-> optimistic[s.p]]
<1>1. At(c, "bump") /\ s \in Guessing /\ Becomes(c, t)
  BY Consumer DEF Bump, At
<1>2. s.p \in Producers /\ optimistic[s.p] \in Nat
  BY <1>1 DEF TypeInv, Guessing
<1>3. t \in Trying /\ t.at = "recheck" /\ t.p = s.p /\ t.over = s.over /\ t.my = optimistic[s.p]
  BY <1>1, <1>2 DEF Guessing, Trying
<1>4. /\ optimistic' \in [Producers -> Nat] /\ optimistic'[s.p] = optimistic[s.p] + 1
      /\ \A q \in Producers \ {s.p} : optimistic'[q] = optimistic[q]
  BY <1>2 DEF Bump, TypeInv
<1> HIDE DEF t
<1>5. Steps(c) /\ cons'[c] = t
  BY <1>1, <1>3, StepIs, InState
<1> QED BY <1>1, <1>2, <1>3, <1>4, <1>5

LEMMA RecheckIs ==
    ASSUME TypeInv, NEW c \in Consumers, Recheck(c)
    PROVE  LET p == cons[c].p
           IN  /\ At(c, "recheck") /\ Steps(c) /\ p \in Producers /\ cons'[c].p = p
               /\ \/ cons'[c].at = "take" /\ cons[c].my - cons[c].over < tail[p]
                  \/ cons'[c].at = "undo"
<1> DEFINE s == cons[c]
           at == IF LessThan(s.my - s.over, tail[s.p]) THEN "take" ELSE "undo"
           t == [s EXCEPT !.at = at]
<1>1. At(c, "recheck") /\ s \in Trying /\ Becomes(c, t)
  BY Consumer DEF Recheck, At
<1>2. at \in {"take", "undo"} /\ (at = "take" => s.my - s.over < tail[s.p])
  BY DEF LessThan
<1> HIDE DEF at
<1>3. t \in Trying /\ t.at = at /\ t.p = s.p /\ s.p \in Producers
  BY <1>1, <1>2 DEF Trying
<1> HIDE DEF t
<1>4. Steps(c) /\ cons'[c] = t
  BY <1>1, <1>3, StepIs, InState
<1> QED BY <1>1, <1>2, <1>3, <1>4

\* A counter that goes up by one.
LEMMA OneCounted ==
    ASSUME NEW n \in [Producers -> Nat], NEW p \in Producers,
           NEW m, m = [n EXCEPT ![p] = @ + 1]
    PROVE  /\ m \in [Producers -> Nat] /\ m[p] = n[p] + 1
           /\ \A q \in Producers \ {p} : m[q] = n[q]
<1>1. n[p] \in Nat /\ n[p] + 1 \in Nat
  OBVIOUS
<1> QED BY <1>1

LEMMA UndoIs ==
    ASSUME TypeInv, NEW c \in Consumers, Undo(c)
    PROVE  LET p == cons[c].p
           IN  /\ At(c, "undo") /\ Steps(c) /\ p \in Producers /\ cons'[c].at \in {"idle", "check"}
               /\ overcommit' \in [Producers -> Nat] /\ overcommit'[p] = overcommit[p] + 1
               /\ \A q \in Producers \ {p} : overcommit'[q] = overcommit[q]
<1>1. At(c, "undo") /\ cons[c] \in Trying /\ Fails(c)
  BY Consumer DEF Undo, At
<1>2. cons[c].p \in Producers
  BY <1>1 DEF Trying
<1>3. Steps(c) /\ cons'[c].at \in {"idle", "check"}
  BY <1>1, FailsIs DEF At
<1>4. /\ overcommit \in [Producers -> Nat]
      /\ overcommit' = [overcommit EXCEPT ![cons[c].p] = @ + 1]
  BY DEF Undo, TypeInv
<1>5. /\ overcommit' \in [Producers -> Nat] /\ overcommit'[cons[c].p] = overcommit[cons[c].p] + 1
      /\ \A q \in Producers \ {cons[c].p} : overcommit'[q] = overcommit[q]
  BY <1>2, <1>4, OneCounted
<1> QED BY <1>1, <1>2, <1>3, <1>5

LEMMA TakeIs ==
    ASSUME TypeInv, NEW c \in Consumers, Take(c)
    PROVE  LET p == cons[c].p
           IN  /\ At(c, "take") /\ Steps(c) /\ p \in Producers
               /\ cons'[c].at = "locate" /\ cons'[c].p = p /\ cons'[c].i = head[p]
               /\ head' \in [Producers -> Nat] /\ head'[p] = head[p] + 1
               /\ \A q \in Producers \ {p} : head'[q] = head[q]
<1> DEFINE p == cons[c].p
           t == [at |-> "locate", p |-> p, i |-> head[p]]
<1>1. At(c, "take") /\ cons[c] \in Trying /\ Becomes(c, t)
  BY Consumer DEF Take, At
<1>2. p \in Producers /\ head[p] \in Nat
  BY <1>1 DEF TypeInv, Trying
<1>3. t \in Locating /\ t.at = "locate" /\ t.p = p /\ t.i = head[p]
  BY <1>2 DEF Locating
<1>4. /\ head' \in [Producers -> Nat] /\ head'[p] = head[p] + 1
      /\ \A q \in Producers \ {p} : head'[q] = head[q]
  <2>1. head \in [Producers -> Nat] /\ head' = [head EXCEPT ![p] = @ + 1]
    BY DEF Take, TypeInv
  <2> HIDE DEF p
  <2> QED BY <1>2, <2>1, OneCounted
<1> HIDE DEF t
<1>5. Steps(c) /\ cons'[c] = t
  BY <1>1, <1>3, StepIs, InState
<1> QED BY <1>1, <1>2, <1>3, <1>4, <1>5

LEMMA LocateIs ==
    ASSUME TypeInv, NEW c \in Consumers, Locate(c), Current(cons[c].p).tail \in Nat
    PROVE  LET p == cons[c].p
           IN  /\ At(c, "locate") /\ Steps(c) /\ p \in Producers /\ cons[c].i \in Nat
               /\ cons'[c].at = "find" /\ cons'[c].p = p /\ cons'[c].i = cons[c].i
               /\ cons'[c].h = Len(headers[p]) /\ cons'[c].t = Current(p).tail
<1> DEFINE p == cons[c].p
           t == [at |-> "find", p |-> p, i |-> cons[c].i, h |-> Len(headers[p]), t |-> Current(p).tail]
<1>1. At(c, "locate") /\ cons[c] \in Locating /\ Becomes(c, t)
  BY Consumer DEF Locate, At
<1>2. p \in Producers /\ cons[c].i \in Nat /\ Len(headers[p]) \in Nat
  BY <1>1 DEF TypeInv, Locating
<1>3. t \in Seeking /\ t.at = "find" /\ t.p = p /\ t.i = cons[c].i
      /\ t.h = Len(headers[p]) /\ t.t = Current(p).tail
  BY <1>2 DEF Seeking
<1> HIDE DEF t
<1>4. Steps(c) /\ cons'[c] = t
  BY <1>1, <1>3, StepIs, InState
<1> QED BY <1>1, <1>2, <1>3, <1>4

LEMMA FindIs ==
    ASSUME QueueAssumption, TypeInv, NEW c \in Consumers, Finding, Find(c),
           \A p \in Producers : Ring(headers[p], entries[p], tail[p], prod[p].at)
    PROVE  LET p == cons[c].p
           IN  /\ At(c, "find") /\ Steps(c) /\ p \in Producers /\ cons[c].i \in Nat
               /\ cons'[c].at = "move" /\ cons'[c].p = p /\ cons'[c].i = cons[c].i
               /\ cons'[c].entry \in DOMAIN entries[p]
               /\ Holds(entries[p][cons'[c].entry], Base(cons[c].i))
<1> DEFINE s == cons[c]
           p == s.p
           hs == headers[p]
           es == entries[p]
           header == hs[s.h]
           away == (Base(s.i) - es[header.index[s.t]].key) \div BLOCK_SIZE
           e == header.index[((s.t - 1 + away) % Size(header)) + 1]
           t == [at |-> "move", p |-> p, i |-> s.i, entry |-> e]
<1>1. At(c, "find") /\ s \in Seeking /\ Becomes(c, t)
  BY Consumer DEF Find, At
<1>2. p \in Producers /\ s.i \in Nat
  BY <1>1 DEF Seeking
<1>3. /\ s.h \in DOMAIN hs /\ s.t \in DOMAIN header.index
      /\ es[header.index[s.t]].key # INVALID_BLOCK_BASE
      /\ \E x \in DOMAIN header.index : Holds(es[header.index[x]], Base(s.i))
  BY <1>1 DEF Finding, Finds
<1>4. PICK x \in DOMAIN header.index : Holds(es[header.index[x]], Base(s.i))
  BY <1>3
<1>5. /\ hs \in Seq(Header) /\ es \in Seq(Entry) /\ tail[p] \in Nat /\ prod[p].at \in States
      /\ Headers(hs, es) /\ Ring(hs, es, tail[p], prod[p].at)
  BY <1>2, IndexOf
<1>6. ((s.t - 1 + away) % Size(header)) + 1 = x
  <2> HIDE DEF hs, es, s
  <2> QED BY <1>2, <1>3, <1>4, <1>5, FoundIs
<1>7. e = header.index[x]
  BY <1>6
<1>8. e \in DOMAIN es /\ Holds(es[e], Base(s.i))
  <2>1. e \in DOMAIN es
    BY <1>3, <1>5, <1>7 DEF Headers
  <2> QED BY <1>4, <1>7, <2>1
<1>9. e \in Nat
  <2> HIDE DEF e
  <2> QED BY <1>5, <1>8
<1> HIDE DEF e
<1>10. t \in Moving /\ t.at = "move" /\ t.p = p /\ t.i = s.i /\ t.entry = e
  BY <1>2, <1>9 DEF Moving
<1> HIDE DEF t
<1>11. Steps(c) /\ cons'[c] = t
  BY <1>1, <1>10, StepIs, InState
<1> QED BY <1>1, <1>2, <1>8, <1>10, <1>11

LEMMA MoveIs ==
    ASSUME QueueAssumption, TypeInv, NEW c \in Consumers, Finding, Move(c)
    PROVE  LET p == cons[c].p
               e == cons[c].entry
               b == entries[p][e].value
               k == cons[c].i % BLOCK_SIZE
           IN  /\ At(c, "move") /\ Steps(c) /\ p \in Producers /\ cons[c].i \in Nat
               /\ e \in DOMAIN entries[p] /\ Holds(entries[p][e], Base(cons[c].i))
               /\ b \in Blocks /\ k \in Slots
               /\ Filling(b, k, Empty, block[b].emptied, block[b].at)
               /\ got' \in [Consumers -> Seq(Nat \X Nat)]
               /\ got'[c] = Append(got[c], block[b].slots[k]) /\ block[b].slots[k] \in Nat \X Nat
               /\ \A d \in Consumers \ {c} : got'[d] = got[d]
               /\ cons'[c].at = "empty" /\ cons'[c].p = p /\ cons'[c].entry = e /\ cons'[c].b = b
<1> DEFINE s == cons[c]
           p == s.p
           e == s.entry
           b == entries[p][e].value
           k == s.i % BLOCK_SIZE
           v == block[b].slots[k]
           t == [at |-> "empty", p |-> p, entry |-> e, b |-> b]
<1>1. At(c, "move") /\ s \in Moving /\ Becomes(c, t) /\ b # Null
  BY Consumer DEF Move, At
<1>2. p \in Producers /\ s.i \in Nat /\ e \in Nat
  BY <1>1 DEF Moving
<1>3. e \in DOMAIN entries[p] /\ Holds(entries[p][e], Base(s.i))
  BY <1>1 DEF Finding
<1>4. b \in Blocks
  <2>1. entries[p][e] \in Entry
    BY <1>2, <1>3 DEF TypeInv
  <2> QED BY <1>1, <2>1 DEF Entry
<1>5. k \in Slots
  BY <1>2, BaseIs
<1>6. v \in Nat \X Nat
  <2> HIDE DEF b, k
  <2>1. block[b] \in Memory
    BY <1>4 DEF TypeInv
  <2> QED BY <1>5, <2>1 DEF Memory
<1>7. Empty \in Nat \X Nat
  BY DEF Empty
<1>8. block' = [block EXCEPT ![b].slots[k] = Empty] /\ got' = [got EXCEPT ![c] = Append(@, v)]
  BY DEF Move
<1> HIDE DEF b, k, v
<1>9. Filling(b, k, Empty, block[b].emptied, block[b].at)
  BY <1>4, <1>5, <1>7, <1>8, SlotSet
<1>10. Append(got[c], v) \in Seq(Nat \X Nat)
  <2>1. got[c] \in Seq(Nat \X Nat)
    BY DEF TypeInv
  <2> QED BY <1>6, <2>1, AppendProperties
<1>11. /\ got' \in [Consumers -> Seq(Nat \X Nat)] /\ got'[c] = Append(got[c], v)
       /\ \A d \in Consumers \ {c} : got'[d] = got[d]
  <2> DEFINE w == Append(got[c], v)
  <2>1. w \in Seq(Nat \X Nat) /\ got' = [got EXCEPT ![c] = w]
    BY <1>8, <1>10
  <2> HIDE DEF w
  <2>2. /\ got' \in [Consumers -> Seq(Nat \X Nat)] /\ got'[c] = w
        /\ \A d \in Consumers \ {c} : got'[d] = got[d]
    BY <2>1 DEF TypeInv
  <2> QED BY <2>2 DEF w
<1>12. t \in Going /\ t.at = "empty" /\ t.p = p /\ t.entry = e /\ t.b = b
  BY <1>2, <1>4 DEF Going
<1> HIDE DEF t
<1>13. Steps(c) /\ cons'[c] = t
  BY <1>1, <1>12, StepIs, InState
<1> QED BY <1>1, <1>2, <1>3, <1>4, <1>5, <1>6, <1>9, <1>11, <1>12, <1>13 DEF b, k, v

\* All of a block but what counts stays.
Recounted(b, emptied, at) ==
    /\ block' \in [Blocks -> Memory]
    /\ \A c \in Blocks \ {b} : block'[c] = block[c]
    /\ block'[b].slots = block[b].slots /\ block'[b].emptied = emptied /\ block'[b].at = at

LEMMA SetEmptyIs ==
    ASSUME TypeInv, NEW c \in Consumers, SetEmpty(c)
    PROVE  LET b == cons[c].b
           IN  /\ At(c, "empty") /\ Steps(c) /\ cons[c].p \in Producers /\ b \in Blocks
               /\ Recounted(b, block[b].emptied + 1, block[b].at)
               /\ \/ /\ block[b].emptied + 1 = BLOCK_SIZE
                     /\ cons'[c].at = "unlink" /\ cons'[c].p = cons[c].p
                     /\ cons'[c].entry = cons[c].entry /\ cons'[c].b = b
                  \/ block[b].emptied + 1 # BLOCK_SIZE /\ cons'[c].at = "idle"
<1> DEFINE s == cons[c]
           b == s.b
           n == block[b].emptied
           t == [s EXCEPT !.at = "unlink"]
           new == [block[b] EXCEPT !.emptied = n + 1]
<1>1. At(c, "empty") /\ s \in Going
  BY Consumer DEF SetEmpty, At
<1>2. b \in Blocks /\ s.p \in Producers
  BY <1>1 DEF Going
<1>3. block[b] \in Memory /\ n \in Nat
  BY <1>2 DEF TypeInv, Memory
<1>4. block' = [block EXCEPT ![b] = new]
  BY DEF SetEmpty
<1>5. new \in Memory /\ new.slots = block[b].slots /\ new.emptied = n + 1 /\ new.at = block[b].at
  BY <1>3 DEF Memory
<1>6. t \in Going /\ t.at = "unlink" /\ t.p = s.p /\ t.entry = s.entry /\ t.b = b
  BY <1>1 DEF Going
<1>7. Becomes(c, IF n + 1 = BLOCK_SIZE THEN t ELSE Idle)
  BY DEF SetEmpty, AllEmptied
<1> HIDE DEF new, t, n
<1>8. block' \in [Blocks -> Memory] /\ block'[b] = new /\ \A d \in Blocks \ {b} : block'[d] = block[d]
  BY <1>2, <1>4, <1>5 DEF TypeInv
<1>9. Recounted(b, n + 1, block[b].at)
  BY <1>5, <1>8 DEF Recounted
<1>10. CASE n + 1 = BLOCK_SIZE
  <2>1. Steps(c) /\ cons'[c] = t
    BY <1>6, <1>7, <1>10, StepIs, InState
  <2> QED BY <1>1, <1>2, <1>6, <1>9, <1>10, <2>1 DEF n
<1>11. CASE n + 1 # BLOCK_SIZE
  <2>1. Steps(c) /\ cons'[c] = Idle
    BY <1>7, <1>11, StepIs, InState
  <2> QED BY <1>1, <1>2, <1>9, <1>11, <2>1 DEF n, Idle
<1> QED BY <1>10, <1>11

LEMMA UnlinkIs ==
    ASSUME TypeInv, NEW c \in Consumers, Leaving, Unlink(c)
    PROVE  LET p == cons[c].p
               e == cons[c].entry
               b == cons[c].b
           IN  /\ At(c, "unlink") /\ Steps(c) /\ p \in Producers /\ b \in Blocks
               /\ e \in DOMAIN entries[p] /\ entries[p][e].value = b
               /\ Changed(entries[p], entries'[p], e, entries[p][e].key, Null)
               /\ entries' \in [Producers -> Seq(Entry)]
               /\ \A q \in Producers \ {p} : entries'[q] = entries[q]
               /\ cons'[c].at = "free" /\ cons'[c].p = p /\ cons'[c].entry = e /\ cons'[c].b = b
<1> DEFINE s == cons[c]
           p == s.p
           e == s.entry
           fs == WithValue(entries[p], e, Null)
           t == [s EXCEPT !.at = "free"]
<1>1. At(c, "unlink") /\ s \in Going /\ Becomes(c, t)
  BY Consumer DEF Unlink, At
<1>2. p \in Producers /\ s.b \in Blocks
  BY <1>1 DEF Going
<1>3. e \in DOMAIN entries[p] /\ entries[p][e].value = s.b
  BY <1>1 DEF Leaving, Leaves, At
<1>4. entries[p] \in Seq(Entry)
  BY <1>2 DEF TypeInv
<1>5. Changed(entries[p], fs, e, entries[p][e].key, Null)
  BY <1>3, <1>4, ValueSet
<1>6. entries' = [entries EXCEPT ![p] = fs]
  BY DEF Unlink, WithValue
<1>7. fs \in Seq(Entry)
  BY <1>5 DEF Changed
<1> HIDE DEF fs
<1>8. /\ entries' \in [Producers -> Seq(Entry)] /\ entries'[p] = fs
      /\ \A q \in Producers \ {p} : entries'[q] = entries[q]
  BY <1>2, <1>6, <1>7 DEF TypeInv
<1>9. t \in Going /\ t.at = "free" /\ t.p = p /\ t.entry = e /\ t.b = s.b
  BY <1>1 DEF Going
<1> HIDE DEF t
<1>10. Steps(c) /\ cons'[c] = t
  BY <1>1, <1>9, StepIs, InState
<1> QED BY <1>1, <1>2, <1>3, <1>5, <1>8, <1>9, <1>10

LEMMA FreeIs ==
    ASSUME TypeInv, NEW c \in Consumers, Free(c)
    PROVE  LET b == cons[c].b
           IN  /\ At(c, "free") /\ Steps(c) /\ b \in Blocks
               /\ \/ Recounted(b, block[b].emptied, "free")
                  \/ Recounted(b, block[b].emptied, "heap")
               /\ cons'[c].at = "idle"
<1> DEFINE s == cons[c]
           b == s.b
           at == IF b <= PoolSize THEN "free" ELSE "heap"
           new == [block[b] EXCEPT !.at = at]
<1>1. At(c, "free") /\ s \in Going /\ Becomes(c, Idle)
  BY Consumer DEF Free, At
<1>2. b \in Blocks /\ block[b] \in Memory
  BY <1>1 DEF Going, TypeInv
<1>3. block' = [block EXCEPT ![b] = new]
  BY DEF Free
<1>4. new \in Memory /\ new.slots = block[b].slots /\ new.emptied = block[b].emptied /\ new.at = at
  BY <1>2 DEF Memory
<1> HIDE DEF new
<1>5. block' \in [Blocks -> Memory] /\ block'[b] = new /\ \A d \in Blocks \ {b} : block'[d] = block[d]
  BY <1>2, <1>3, <1>4 DEF TypeInv
<1>6. Recounted(b, block[b].emptied, at)
  BY <1>4, <1>5 DEF Recounted
<1>7. Steps(c) /\ cons'[c] = Idle
  BY <1>1, StepIs, InState
<1>8. cons'[c].at = "idle"
  BY <1>7 DEF Idle
<1> HIDE DEF b, at
<1>9. CASE at = "free"
  BY <1>1, <1>2, <1>6, <1>7, <1>8, <1>9 DEF b
<1>10. CASE at # "free"
  <2>1. at = "heap"
    BY <1>10 DEF at
  <2> QED BY <1>1, <1>2, <1>6, <1>7, <1>8, <2>1 DEF b
<1> QED BY <1>9, <1>10
-----------------------------------------------------------------------------
(* The types, and the index of each producer                               *)

LEMMA ProducerTypes ==
    ASSUME QueueAssumption, TypeInv, Rings, Returned, NEW p \in Producers, Enqueue(p)
    PROVE  TypeInv'
<1>0. Ring(headers[p], entries[p], tail[p], prod[p].at)
  BY DEF Rings
<1>1. CASE AddProducer(p)
  <2>1. list' \in Seq(Producers)
    <3>1. <<p>> \in Seq(Producers) /\ list \in Seq(Producers) /\ list' = <<p>> \o list
      BY <1>1 DEF AddProducer, Added, TypeInv
    <3> QED BY <3>1, ConcatProperties
  <2> QED BY <1>1, <2>1 DEF AddProducer, TypeInv, counters, memory
<1>2. CASE EnqueueInBlock(p)
  <2>1. block' \in [Blocks -> Memory] /\ prod' \in [Producers -> ProducerState]
    BY <1>0, <1>2, BuildIs DEF Filling
  <2> QED BY <1>2, <2>1 DEF EnqueueInBlock, TypeInv, counters, ProducerState
<1>3. CASE GrowIndex(p)
  <2>1. headers' \in [Producers -> Seq(Header)] /\ entries' \in [Producers -> Seq(Entry)]
    BY <1>0, <1>3, GrowIs
  <2> QED BY <1>3, <2>1 DEF GrowIndex, TypeInv, counters
<1>4. CASE ClaimEntry(p)
  <2>1. entries' \in [Producers -> Seq(Entry)] /\ prod' \in [Producers -> ProducerState]
    BY <1>0, <1>4, ClaimIs
  <2> QED BY <1>4, <2>1 DEF ClaimEntry, TypeInv, counters, ProducerState
<1>5. CASE MoveIndexTail(p)
  <2>1. headers' \in [Producers -> Seq(Header)] /\ prod' \in [Producers -> ProducerState]
    BY <1>0, <1>5, MoveTailIs
  <2> QED BY <1>5, <2>1 DEF MoveIndexTail, TypeInv, counters, ProducerState
<1>6. CASE FillBlock(p)
  <2>1. /\ entries' \in [Producers -> Seq(Entry)] /\ prod' \in [Producers -> ProducerState]
        /\ pooled' \in 0 .. PoolSize /\ block' \in [Blocks -> Memory]
    BY <1>0, <1>6, FillIs DEF Filling
  <2> QED BY <1>6, <2>1 DEF FillBlock, TypeInv, counters, ProducerState
<1>7. CASE NoBlock(p)
  <2>1. headers' \in [Producers -> Seq(Header)] /\ prod' \in [Producers -> ProducerState]
        /\ entries' = entries
    BY <1>0, <1>7, NoBlockIs
  <2> QED BY <1>7, <2>1 DEF NoBlock, TypeInv, counters, ProducerState
<1>8. CASE Publish(p)
  <2>1. tail' \in [Producers -> Nat] /\ prod' \in [Producers -> ProducerState]
    BY <1>8, PublishIs
  <2> QED BY <1>8, <2>1 DEF Publish, TypeInv, memory, ProducerState
<1> QED BY <1>1, <1>2, <1>3, <1>4, <1>5, <1>6, <1>7, <1>8 DEF Enqueue

\* The tail of a header is a number.
LEMMA TailNat ==
    ASSUME TypeInv, Rings, NEW p \in Producers
    PROVE  Current(p).tail \in Nat
<1>1. Current(p) \in Header
  BY IndexOf DEF Rings
<1> QED BY <1>1 DEF Header

LEMMA ConsumerTypes ==
    ASSUME QueueAssumption, TypeInv, Rings, \A d \in Consumers : Chosen(d), Finding, Leaving,
           NEW c \in Consumers, TryDequeue(c)
    PROVE  TypeInv' /\ \A d \in Consumers : Chosen(d)'
<1> DEFINE Scans == (cons'[c].count = 0 /\ cons'[c].size = 0) \/ cons'[c].best \in Producers
<1>0. ASSUME cons'[c].at # "scan" \/ Scans, Steps(c)
      PROVE  \A d \in Consumers : Chosen(d)'
  <2> SUFFICES ASSUME NEW d \in Consumers PROVE Chosen(d)'
    OBVIOUS
  <2>1. CASE d = c
    BY <1>0, <2>1 DEF Chosen, At
  <2>2. CASE d # c
    <3>1. cons'[d] = cons[d] /\ Chosen(d)
      BY <1>0, <2>2 DEF Steps
    <3> QED BY <3>1 DEF Chosen, At
  <2> QED BY <2>1, <2>2
<1>1. CASE Start(c)
  <2>1. Steps(c) /\ Scans
    BY <1>1, StartIs
  <2> QED BY <1>0, <1>1, <2>1 DEF Start, TypeInv, counters, memory, Steps
<1>2. CASE Scan(c)
  <2>1. Steps(c) /\ Scans
    BY <1>2, ScanIs
  <2> QED BY <1>0, <1>2, <2>1 DEF Scan, TypeInv, counters, memory, Steps
<1>3. CASE Choose(c)
  <2>1. Steps(c) /\ cons'[c].at # "scan"
    BY <1>3, ChooseIs
  <2> QED BY <1>0, <1>3, <2>1 DEF Choose, TypeInv, counters, memory, Steps
<1>4. CASE LoadTail(c)
  <2>1. Steps(c) /\ cons'[c].at # "scan"
    BY <1>4, LoadTailIs
  <2> QED BY <1>0, <1>4, <2>1 DEF LoadTail, TypeInv, counters, memory, Steps
<1>5. CASE Guess(c)
  <2>1. Steps(c) /\ cons'[c].at # "scan"
    BY <1>5, GuessIs
  <2> QED BY <1>0, <1>5, <2>1 DEF Guess, TypeInv, counters, memory, Steps
<1>6. CASE Bump(c)
  <2>1. Steps(c) /\ cons'[c].at # "scan" /\ optimistic' \in [Producers -> Nat]
    BY <1>6, BumpIs
  <2> QED BY <1>0, <1>6, <2>1 DEF Bump, TypeInv, memory, Steps
<1>7. CASE Recheck(c)
  <2>1. Steps(c) /\ cons'[c].at # "scan"
    BY <1>7, RecheckIs
  <2> QED BY <1>0, <1>7, <2>1 DEF Recheck, TypeInv, counters, memory, Steps
<1>8. CASE Undo(c)
  <2>1. Steps(c) /\ cons'[c].at # "scan" /\ overcommit' \in [Producers -> Nat]
    BY <1>8, UndoIs
  <2> QED BY <1>0, <1>8, <2>1 DEF Undo, TypeInv, memory, Steps
<1>9. CASE Take(c)
  <2>1. Steps(c) /\ cons'[c].at # "scan" /\ head' \in [Producers -> Nat]
    BY <1>9, TakeIs
  <2> QED BY <1>0, <1>9, <2>1 DEF Take, TypeInv, memory, Steps
<1>10. CASE Locate(c)
  <2>1. cons[c].p \in Producers
    BY <1>10, Consumer DEF Locate, At, Locating
  <2>2. Steps(c) /\ cons'[c].at # "scan"
    BY <1>10, <2>1, LocateIs, TailNat
  <2> QED BY <1>0, <1>10, <2>2 DEF Locate, TypeInv, counters, memory, Steps
<1>11. CASE Find(c)
  <2>1. Steps(c) /\ cons'[c].at # "scan"
    BY <1>11, FindIs DEF Rings
  <2> QED BY <1>0, <1>11, <2>1 DEF Find, TypeInv, counters, memory, Steps
<1>12. CASE Move(c)
  <2>1. /\ Steps(c) /\ cons'[c].at # "scan" /\ got' \in [Consumers -> Seq(Nat \X Nat)]
        /\ block' \in [Blocks -> Memory]
    BY <1>12, MoveIs DEF Filling
  <2> QED BY <1>0, <1>12, <2>1 DEF Move, TypeInv, counters, Steps
<1>13. CASE SetEmpty(c)
  <2>1. Steps(c) /\ cons'[c].at # "scan" /\ block' \in [Blocks -> Memory]
    BY <1>13, SetEmptyIs DEF Recounted
  <2> QED BY <1>0, <1>13, <2>1 DEF SetEmpty, TypeInv, counters, Steps
<1>14. CASE Unlink(c)
  <2>1. Steps(c) /\ cons'[c].at # "scan" /\ entries' \in [Producers -> Seq(Entry)]
    BY <1>14, UnlinkIs
  <2> QED BY <1>0, <1>14, <2>1 DEF Unlink, TypeInv, counters, Steps
<1>15. CASE Free(c)
  <2>1. Steps(c) /\ cons'[c].at # "scan" /\ block' \in [Blocks -> Memory]
    BY <1>15, FreeIs DEF Recounted
  <2> QED BY <1>0, <1>15, <2>1 DEF Free, TypeInv, counters, Steps
<1> QED BY <1>1, <1>2, <1>3, <1>4, <1>5, <1>6, <1>7, <1>8, <1>9, <1>10, <1>11, <1>12, <1>13, <1>14, <1>15
        DEF TryDequeue

\* Only the producer's own steps and Unlink change its index.
LEMMA ProducerRings ==
    ASSUME QueueAssumption, TypeInv, Rings, Returned, NEW p \in Producers, Enqueue(p)
    PROVE  Rings'
<1> DEFINE hs == headers[p]
           es == entries[p]
           n == tail[p]
           at == prod[p].at
           now == Last(hs)
<1>0. /\ Ring(hs, es, n, at) /\ hs \in Seq(Header) /\ es \in Seq(Entry) /\ n \in Nat
      /\ Current(p) = now /\ NextEntry(p) = now.index[After(now, now.tail)]
  BY IndexOf DEF Rings, NextEntry
<1>1. ASSUME \A q \in Producers \ {p} :
                 /\ headers'[q] = headers[q] /\ entries'[q] = entries[q]
                 /\ tail'[q] = tail[q] /\ prod'[q] = prod[q],
             Ring(headers'[p], entries'[p], tail'[p], prod'[p].at)
      PROVE  Rings'
  <2> SUFFICES ASSUME NEW q \in Producers PROVE Ring(headers'[q], entries'[q], tail'[q], prod'[q].at)
    BY DEF Rings
  <2>1. CASE q = p
    BY <1>1, <2>1
  <2>2. CASE q # p
    BY <1>1, <2>2 DEF Rings
  <2> QED BY <2>1, <2>2
<1>2. CASE AddProducer(p)
  BY <1>2 DEF AddProducer, Rings, counters, memory
<1>3. CASE EnqueueInBlock(p)
  <2>1. headers' = headers /\ entries' = entries /\ tail' = tail
    BY <1>3 DEF EnqueueInBlock, counters
  <2>2. /\ at = "idle" /\ ~ AtStart(n) /\ prod'[p].at = "publish"
        /\ \A q \in Producers \ {p} : prod'[q] = prod[q]
    BY <1>0, <1>3, BuildIs
  <2>3. Ring(hs, es, n, "publish")
    <3> HIDE DEF hs, es, n
    <3> QED BY <1>0, <2>2, RingBuilt
  <2> QED BY <1>1, <2>1, <2>2, <2>3
<1>4. CASE GrowIndex(p)
  <2>1. tail' = tail /\ prod' = prod
    BY <1>4 DEF GrowIndex, counters
  <2>2. /\ at = "idle" /\ ~ Reusable(es[NextEntry(p)])
        /\ headers'[p] = Append(hs, Doubled(now))
        /\ entries'[p] = es \o FreshEntries(Size(now))
        /\ \A q \in Producers \ {p} : headers'[q] = headers[q] /\ entries'[q] = entries[q]
    BY <1>0, <1>4, GrowIs
  <2>3. Ring(headers'[p], entries'[p], n, "idle")
    <3> DEFINE gs == headers'[p]
               fs == entries'[p]
               new == Doubled(now)
               e == NextEntry(p)
    <3>1. /\ gs = Append(hs, new) /\ fs = es \o FreshEntries(Size(Last(hs))) /\ new = Doubled(Last(hs))
          /\ e = Last(hs).index[After(Last(hs), Last(hs).tail)] /\ ~ Reusable(es[e])
          /\ Ring(hs, es, n, "idle")
      BY <1>0, <2>2
    <3> HIDE DEF gs, fs, new, e, hs, es, n, now
    <3>2. Ring(gs, fs, n, "idle")
      BY <1>0, <3>1, RingGrow
    <3> QED BY <3>2 DEF gs, fs
  <2> QED BY <1>1, <2>1, <2>2, <2>3
<1>5. CASE ClaimEntry(p)
  <2>1. tail' = tail /\ headers' = headers
    BY <1>5 DEF ClaimEntry, counters
  <2> DEFINE e == NextEntry(p)
  <2>2. /\ at = "idle" /\ AtStart(n) /\ Reusable(es[e]) /\ prod'[p].at = "link"
        /\ Changed(es, entries'[p], e, n, es[e].value)
        /\ \A q \in Producers \ {p} : entries'[q] = entries[q] /\ prod'[q] = prod[q]
    BY <1>0, <1>5, ClaimIs
  <2>3. Ring(hs, entries'[p], n, "link")
    <3>1. e = Last(hs).index[After(Last(hs), Last(hs).tail)] /\ Ring(hs, es, n, "idle")
      BY <1>0, <2>2
    <3> HIDE DEF e, hs, es, n, now
    <3> QED BY <1>0, <2>2, <3>1, RingClaim
  <2> QED BY <1>1, <2>1, <2>2, <2>3
<1>6. CASE MoveIndexTail(p)
  <2>1. tail' = tail /\ entries' = entries
    BY <1>6 DEF MoveIndexTail, counters
  <2>2. /\ at = "link" /\ prod'[p].at = "block"
        /\ headers'[p] = TailAt(hs, After(now, now.tail))
        /\ \A q \in Producers \ {p} : headers'[q] = headers[q] /\ prod'[q] = prod[q]
    BY <1>0, <1>6, MoveTailIs
  <2>3. Ring(headers'[p], es, n, "block")
    <3> DEFINE gs == headers'[p]
    <3>1. gs = TailAt(hs, After(Last(hs), Last(hs).tail)) /\ Ring(hs, es, n, "link")
      BY <1>0, <2>2
    <3> HIDE DEF gs, hs, es, n, now
    <3>2. Ring(gs, es, n, "block")
      BY <1>0, <3>1, RingMove
    <3> QED BY <3>2 DEF gs
  <2> QED BY <1>1, <2>1, <2>2, <2>3
<1>7. CASE FillBlock(p)
  <2>1. tail' = tail /\ headers' = headers
    BY <1>7 DEF FillBlock, counters
  <2> DEFINE e == Current(p).index[Current(p).tail]
  <2>2. /\ at = "block" /\ prod'[p].at = "publish"
        /\ \E b \in Blocks : Changed(es, entries'[p], e, es[e].key, b)
        /\ \A q \in Producers \ {p} : entries'[q] = entries[q] /\ prod'[q] = prod[q]
    BY <1>0, <1>7, FillIs
  <2>3. PICK b \in Blocks : Changed(es, entries'[p], e, es[e].key, b)
    BY <2>2
  <2>4. Ring(hs, entries'[p], n, "publish")
    <3>1. e = Last(hs).index[Last(hs).tail] /\ Ring(hs, es, n, "block")
      BY <1>0, <2>2
    <3> HIDE DEF e, hs, es, n, now
    <3> QED BY <1>0, <2>3, <3>1, RingFill
  <2> QED BY <1>1, <2>1, <2>2, <2>4
<1>8. CASE NoBlock(p)
  <2>1. tail' = tail
    BY <1>8 DEF NoBlock, counters
  <2> DEFINE u == IF now.tail = 1 THEN Size(now) ELSE now.tail - 1
  <2>2. /\ at = "block" /\ prod'[p].at = "idle" /\ entries' = entries
        /\ headers'[p] = TailAt(hs, u)
        /\ \A q \in Producers \ {p} : headers'[q] = headers[q] /\ prod'[q] = prod[q]
    BY <1>0, <1>8, NoBlockIs
  <2>3. Ring(headers'[p], es, n, "idle")
    <3> DEFINE gs == headers'[p]
    <3>1. /\ gs = TailAt(hs, u) /\ Ring(hs, es, n, "block")
          /\ u = IF Last(hs).tail = 1 THEN Size(Last(hs)) ELSE Last(hs).tail - 1
      BY <1>0, <2>2
    <3> HIDE DEF gs, hs, es, n, now, u
    <3>2. Ring(gs, es, n, "idle")
      BY <1>0, <3>1, RingNoBlock
    <3> QED BY <3>2 DEF gs
  <2> QED BY <1>1, <2>1, <2>2, <2>3
<1>9. CASE Publish(p)
  <2>1. headers' = headers /\ entries' = entries
    BY <1>9 DEF Publish, memory
  <2>2. /\ at = "publish" /\ prod'[p].at = "idle" /\ tail'[p] = n + 1
        /\ \A q \in Producers \ {p} : tail'[q] = tail[q] /\ prod'[q] = prod[q]
    BY <1>9, PublishIs
  <2>3. Ring(hs, es, n + 1, "idle")
    <3> HIDE DEF hs, es, n
    <3> QED BY <1>0, <2>2, RingBuilt
  <2> QED BY <1>1, <2>1, <2>2, <2>3
<1> QED BY <1>2, <1>3, <1>4, <1>5, <1>6, <1>7, <1>8, <1>9 DEF Enqueue

LEMMA ConsumerRings ==
    ASSUME QueueAssumption, TypeInv, Rings, Leaving, NEW c \in Consumers, TryDequeue(c)
    PROVE  Rings'
<1>1. CASE Unlink(c)
  <2> DEFINE p == cons[c].p
             e == cons[c].entry
  <2>1. headers' = headers /\ tail' = tail /\ prod' = prod
    BY <1>1 DEF Unlink, counters
  <2>2. /\ p \in Producers /\ e \in DOMAIN entries[p]
        /\ Changed(entries[p], entries'[p], e, entries[p][e].key, Null)
        /\ \A q \in Producers \ {p} : entries'[q] = entries[q]
    BY <1>1, UnlinkIs
  <2> HIDE DEF p, e
  <2>3. /\ headers[p] \in Seq(Header) /\ entries[p] \in Seq(Entry) /\ tail[p] \in Nat
        /\ Ring(headers[p], entries[p], tail[p], prod[p].at)
    BY <2>2, IndexOf DEF Rings
  <2>4. Ring(headers[p], entries'[p], tail[p], prod[p].at)
    BY <2>2, <2>3, RingUnlink
  <2> SUFFICES ASSUME NEW q \in Producers PROVE Ring(headers'[q], entries'[q], tail'[q], prod'[q].at)
    BY DEF Rings
  <2>5. CASE q = p
    BY <2>1, <2>4, <2>5
  <2>6. CASE q # p
    BY <2>1, <2>2, <2>6 DEF Rings
  <2> QED BY <2>5, <2>6
<1>2. CASE ~ Unlink(c)
  <2>1. headers' = headers /\ entries' = entries /\ tail' = tail /\ prod' = prod
    BY <1>2 DEF TryDequeue, Start, Scan, Choose, LoadTail, Guess, Bump, Recheck, Undo, Take, Locate,
                Find, Move, SetEmpty, Free, counters, memory
  <2> QED BY <2>1 DEF Rings
<1> QED BY <1>1, <1>2
-----------------------------------------------------------------------------
(* The counters                                                            *)

LEMMA Cards ==
    ASSUME QueueAssumption, NEW S \in SUBSET Consumers
    PROVE  IsFiniteSet(S) /\ Cardinality(S) \in Nat
<1>1. IsFiniteSet(Consumers)
  BY DEF QueueAssumption
<1>2. IsFiniteSet(S)
  BY <1>1, FS_Subset
<1> QED BY <1>2, FS_CardinalityType

LEMMA BusyCards ==
    ASSUME QueueAssumption, TypeInv, NEW p \in Producers
    PROVE  /\ \A at : Cardinality(Busy(p, at)) \in Nat
           /\ Cardinality(Rechecking(p)) \in Nat
           /\ Promised(p) \in Nat /\ head[p] <= Promised(p)
           /\ head[p] \in Nat /\ tail[p] \in Nat /\ optimistic[p] \in Nat /\ overcommit[p] \in Nat
<1>1. \A at : Cardinality(Busy(p, at)) \in Nat
  <2> TAKE at
  <2>1. Busy(p, at) \in SUBSET Consumers
    BY DEF Busy
  <2> QED BY <2>1, Cards
<1>2. head[p] \in Nat /\ tail[p] \in Nat /\ optimistic[p] \in Nat /\ overcommit[p] \in Nat
  BY DEF TypeInv
<1> QED BY <1>1, <1>2 DEF Promised, Rechecking

\* What is taken was published.
LEMMA HeadTail ==
    ASSUME QueueAssumption, TypeInv, NEW p \in Producers, Counts(p)
    PROVE  head[p] \in Nat /\ tail[p] \in Nat /\ head[p] <= tail[p]
BY BusyCards DEF Counts

Counted(c, p) == cons[c].at \in {"recheck", "take", "undo"} /\ cons[c].p = p

LEMMA CountsFrame ==
    ASSUME QueueAssumption, TypeInv, NEW p \in Producers, Counts(p), tail'[p] \in Nat,
           head'[p] = head[p], tail[p] <= tail'[p],
           optimistic'[p] = optimistic[p], overcommit'[p] = overcommit[p],
           \A d \in Consumers :
               \/ cons'[d] = cons[d]
               \/ /\ ~ Counted(d, p) /\ ~ Counted(d, p)'
                  /\ cons'[d].at \in {"guess", "bump"} /\ cons'[d].p = p =>
                         cons'[d].over <= overcommit[p]
    PROVE  Counts(p)'
<1>1. \A at \in {"recheck", "take", "undo"} : Busy(p, at)' = Busy(p, at)
  BY DEF Busy, Counted, At
<1>2. Rechecking(p)' = Rechecking(p) /\ Promised(p)' = Promised(p)
  BY <1>1 DEF Rechecking, Promised
<1>3. ASSUME NEW c \in Rechecking(p)' PROVE c \in Rechecking(p) /\ cons'[c] = cons[c] /\ c \in Consumers /\ cons[c].p = p
  BY <1>2, <1>3 DEF Rechecking, Busy, Counted, At
<1>4. ASSUME NEW c \in Rechecking(p)' PROVE Before(c)' = Before(c)
  <2>1. cons'[c].p = p /\ cons[c].p = p /\ cons'[c].my = cons[c].my
    BY <1>3
  <2>2. \A d \in Rechecking(p) : cons'[d].my = cons[d].my
    BY <1>2, <1>3
  <2> QED BY <1>2, <2>1, <2>2 DEF Before
<1>5. /\ Promised(p) \in Nat /\ tail[p] \in Nat
      /\ \A c \in Rechecking(p) : Cardinality(Before(c)) \in Nat
  <2>1. ASSUME NEW c \in Rechecking(p) PROVE Cardinality(Before(c)) \in Nat
    <3>1. Before(c) \in SUBSET Consumers
      BY DEF Before, Rechecking, Busy
    <3> QED BY <3>1, Cards
  <2> QED BY <2>1, BusyCards
<1>6. Promised(p)' <= tail'[p]
  BY <1>2, <1>5 DEF Counts
<1>7. optimistic'[p] = Promised(p)' + overcommit'[p] + Cardinality(Busy(p, "undo")')
                       + Cardinality(Rechecking(p)')
  BY <1>1, <1>2 DEF Counts
<1>8. \A c \in Consumers :
          cons'[c].at \in {"guess", "bump", "recheck"} /\ cons'[c].p = p => cons'[c].over <= overcommit'[p]
  BY DEF Counts, Counted
<1>9. ASSUME NEW c \in Rechecking(p)'
      PROVE  /\ cons'[c].my < optimistic'[p]
             /\ LET n == Promised(p)' + Cardinality(Before(c)')
                IN  n <= tail'[p] \/ n <= cons'[c].my + 1 - cons'[c].over
  <2>1. c \in Rechecking(p) /\ cons'[c] = cons[c] /\ Before(c)' = Before(c)
    BY <1>3, <1>4
  <2>2. /\ cons[c].my < optimistic[p]
        /\ LET n == Promised(p) + Cardinality(Before(c))
           IN  n <= tail[p] \/ n <= cons[c].my + 1 - cons[c].over
    BY <2>1 DEF Counts
  <2>3. Cardinality(Before(c)) \in Nat
    BY <1>5, <2>1
  <2> QED BY <1>2, <1>5, <2>1, <2>2, <2>3
<1>10. \A c, d \in Rechecking(p)' : cons'[c].my = cons'[d].my => c = d
  BY <1>2, <1>3 DEF Counts
<1> QED BY <1>6, <1>7, <1>8, <1>9, <1>10 DEF Counts

LEMMA BusyStep ==
    ASSUME NEW c \in Consumers, Steps(c), NEW p, NEW at
    PROVE  Busy(p, at)' = IF cons'[c].at = at /\ cons'[c].p = p THEN Busy(p, at) \cup {c}
                          ELSE Busy(p, at) \ {c}
BY DEF Busy, At, Steps

\* A step of c alone, for the producers it does not deal with.
LEMMA CountsOther ==
    ASSUME QueueAssumption, TypeInv, NEW p \in Producers, Counts(p), NEW c \in Consumers, Steps(c),
           head'[p] = head[p], tail'[p] = tail[p],
           optimistic'[p] = optimistic[p], overcommit'[p] = overcommit[p],
           ~ Counted(c, p), ~ Counted(c, p)',
           cons'[c].at \in {"guess", "bump"} /\ cons'[c].p = p => cons'[c].over <= overcommit[p]
    PROVE  Counts(p)'
<1>1. tail[p] \in Nat /\ tail[p] <= tail'[p] /\ tail'[p] \in Nat
  BY BusyCards
<1>2. \A d \in Consumers : d = c \/ cons'[d] = cons[d]
  BY DEF Steps
<1> QED BY <1>1, <1>2, CountsFrame

\* Bump: c counts itself last.
LEMMA CountsBump ==
    ASSUME QueueAssumption, TypeInv, NEW c \in Consumers, NEW p \in Producers, p = cons[c].p,
           Counts(p), Bump(c)
    PROVE  Counts(p)'
<1>1. /\ At(c, "bump") /\ Steps(c)
      /\ cons'[c].at = "recheck" /\ cons'[c].p = p
      /\ cons'[c].over = cons[c].over /\ cons'[c].my = optimistic[p]
      /\ optimistic'[p] = optimistic[p] + 1
  BY BumpIs
<1>2. head' = head /\ tail' = tail /\ overcommit' = overcommit
  BY DEF Bump
<1>3. /\ Promised(p) \in Nat /\ tail[p] \in Nat /\ optimistic[p] \in Nat /\ overcommit[p] \in Nat
      /\ Cardinality(Busy(p, "undo")) \in Nat /\ Cardinality(Rechecking(p)) \in Nat
  BY BusyCards
<1>4. c \notin Busy(p, "take") /\ c \notin Busy(p, "undo") /\ c \notin Busy(p, "recheck")
  BY <1>1 DEF Busy, At
<1>5. /\ Busy(p, "take")' = Busy(p, "take") /\ Busy(p, "undo")' = Busy(p, "undo")
      /\ Rechecking(p)' = Rechecking(p) \cup {c} /\ c \notin Rechecking(p)
  BY <1>1, <1>4, BusyStep DEF Rechecking
<1>6. Promised(p)' = Promised(p)
  BY <1>2, <1>5 DEF Promised
<1>7. Cardinality(Rechecking(p)') = Cardinality(Rechecking(p)) + 1
  <2>1. Rechecking(p) \in SUBSET Consumers
    BY DEF Rechecking, Busy
  <2>2. IsFiniteSet(Rechecking(p))
    BY <2>1, Cards
  <2> QED BY <1>5, <2>2, FS_AddElement
<1>8. \A d \in Rechecking(p) : /\ cons'[d] = cons[d] /\ d \in Consumers /\ cons[d].p = p
                               /\ cons[d] \in Trying /\ cons[d].my \in Nat /\ cons[d].over \in Nat
  <2> SUFFICES ASSUME NEW d \in Rechecking(p)
               PROVE  /\ cons'[d] = cons[d] /\ d \in Consumers /\ cons[d].p = p
                      /\ cons[d] \in Trying /\ cons[d].my \in Nat /\ cons[d].over \in Nat
    OBVIOUS
  <2>1. d \in Consumers /\ cons[d].at = "recheck" /\ cons[d].p = p
    BY DEF Rechecking, Busy, At
  <2>2. d # c
    BY <1>5
  <2>3. cons'[d] = cons[d]
    BY <1>1, <2>1, <2>2 DEF Steps
  <2>4. cons[d] \in Trying
    BY <2>1, Consumer
  <2> QED BY <2>1, <2>3, <2>4 DEF Trying
<1>9. cons[c].over \in Nat /\ cons[c].over <= overcommit[p]
  <2>1. cons[c] \in Guessing
    BY <1>1, Consumer DEF At
  <2>2. cons[c].over \in Nat
    BY <2>1 DEF Guessing
  <2> QED BY <1>1, <2>2 DEF Counts, At
<1>10. Promised(p)' <= tail'[p]
  BY <1>2, <1>6 DEF Counts
<1>11. optimistic'[p] = Promised(p)' + overcommit'[p] + Cardinality(Busy(p, "undo")')
                        + Cardinality(Rechecking(p)')
  BY <1>1, <1>2, <1>3, <1>5, <1>6, <1>7 DEF Counts
<1>12. \A d \in Consumers :
          cons'[d].at \in {"guess", "bump", "recheck"} /\ cons'[d].p = p => cons'[d].over <= overcommit'[p]
  <2> TAKE d \in Consumers
  <2>1. CASE d = c
    BY <1>1, <1>2, <1>9, <2>1
  <2>2. CASE d # c
    BY <1>1, <1>2, <2>2 DEF Counts, Steps
  <2> QED BY <2>1, <2>2
<1>13. ASSUME NEW d \in Rechecking(p)'
       PROVE  /\ cons'[d].my < optimistic'[p]
              /\ LET n == Promised(p)' + Cardinality(Before(d)')
                 IN  n <= tail'[p] \/ n <= cons'[d].my + 1 - cons'[d].over
  <2>1. CASE d = c
    <3>1. Before(c)' = Rechecking(p)'
      <4>1. \A e \in Rechecking(p) : cons'[e].my <= cons'[c].my
        <5> TAKE e \in Rechecking(p)
        <5>1. cons[e].my < optimistic[p] /\ cons'[e].my = cons[e].my /\ cons[e].my \in Nat
          BY <1>8 DEF Counts
        <5> QED BY <1>1, <1>3, <5>1
      <4>2. cons'[c].my <= cons'[c].my
        BY <1>1, <1>3
      <4>3. \A e \in Rechecking(p)' : cons'[e].my <= cons'[c].my
        BY <1>5, <4>1, <4>2
      <4> QED BY <1>1, <4>3 DEF Before
    <3> DEFINE n == Promised(p)' + Cardinality(Before(c)')
    <3>2. n = Promised(p) + Cardinality(Rechecking(p)) + 1
      BY <1>3, <1>6, <1>7, <3>1
    <3>3. optimistic[p] = Promised(p) + overcommit[p] + Cardinality(Busy(p, "undo"))
                          + Cardinality(Rechecking(p))
      BY DEF Counts
    <3> HIDE DEF n
    <3>4. n <= optimistic[p] + 1 - cons[c].over
      BY <1>3, <1>9, <3>2, <3>3
    <3>5. optimistic[p] < optimistic'[p]
      BY <1>1, <1>3
    <3> QED BY <1>1, <2>1, <3>4, <3>5 DEF n
  <2>2. CASE d # c
    <3>1. d \in Rechecking(p)
      BY <1>5, <2>2
    <3>2. /\ cons'[d] = cons[d] /\ cons[d].p = p /\ cons[d].my \in Nat
          /\ cons[d].my < optimistic[p]
      BY <1>8, <3>1 DEF Counts
    <3>3. Before(d)' = Before(d)
      <4>1. Before(d)' = {e \in Rechecking(p)' : cons'[e].my <= cons[d].my}
        BY <3>2 DEF Before
      <4>2. Before(d) = {e \in Rechecking(p) : cons[e].my <= cons[d].my}
        BY <3>2 DEF Before
      <4>3. ~ (cons'[c].my <= cons[d].my)
        BY <1>1, <1>3, <3>2
      <4>4. \A e \in Rechecking(p) : cons'[e].my = cons[e].my
        BY <1>8
      <4> QED BY <1>5, <4>1, <4>2, <4>3, <4>4
    <3>4. LET n == Promised(p) + Cardinality(Before(d))
          IN  n <= tail[p] \/ n <= cons[d].my + 1 - cons[d].over
      BY <3>1 DEF Counts
    <3>5. cons[d].my < optimistic'[p]
      BY <1>1, <1>3, <3>2
    <3> QED BY <1>2, <1>6, <3>2, <3>3, <3>4, <3>5
  <2> QED BY <2>1, <2>2
<1>14. \A d, e \in Rechecking(p)' : cons'[d].my = cons'[e].my => d = e
  <2>1. \A d \in Rechecking(p) : cons'[d].my = cons[d].my /\ cons[d].my < optimistic[p] /\ cons[d].my \in Nat
    BY <1>8 DEF Counts
  <2>2. \A d \in Rechecking(p) : cons'[d].my # cons'[c].my
    <3> TAKE d \in Rechecking(p)
    <3>1. cons'[d].my = cons[d].my /\ cons[d].my < optimistic[p] /\ cons[d].my \in Nat
      BY <2>1
    <3> QED BY <1>1, <1>3, <3>1
  <2>3. \A d, e \in Rechecking(p) : cons[d].my = cons[e].my => d = e
    BY DEF Counts
  <2> QED BY <1>5, <2>1, <2>2, <2>3
<1> QED BY <1>10, <1>11, <1>12, <1>13, <1>14 DEF Counts

\* What a consumer that is about to recheck has in hand.
LEMMA Rechecker ==
    ASSUME TypeInv, NEW p \in Producers, NEW d \in Rechecking(p)
    PROVE  /\ d \in Consumers /\ cons[d].at = "recheck" /\ cons[d].p = p
           /\ cons[d].my \in Nat /\ cons[d].over \in Nat
<1>1. d \in Consumers /\ cons[d].at = "recheck" /\ cons[d].p = p
  BY DEF Rechecking, Busy, At
<1>2. cons[d] \in Trying
  BY <1>1, Consumer
<1> QED BY <1>1, <1>2 DEF Trying

\* Recheck: one place less to check; if it is taken, one element more is promised.
LEMMA CountsRecheck ==
    ASSUME QueueAssumption, TypeInv, NEW c \in Consumers, NEW p \in Producers, p = cons[c].p,
           Counts(p), Recheck(c)
    PROVE  Counts(p)'
<1> DEFINE R == Rechecking(p)
           P == Promised(p)
           m == cons[c].my
           took == cons'[c].at = "take"
           more == IF took THEN 1 ELSE 0
<1>1. /\ At(c, "recheck") /\ Steps(c) /\ cons'[c].p = p
      /\ (took /\ m - cons[c].over < tail[p]) \/ cons'[c].at = "undo"
  BY RecheckIs
<1>2. head' = head /\ tail' = tail /\ overcommit' = overcommit /\ optimistic' = optimistic
  BY DEF Recheck, counters
<1>3. /\ P \in Nat /\ tail[p] \in Nat /\ optimistic[p] \in Nat /\ overcommit[p] \in Nat
      /\ Cardinality(Busy(p, "undo")) \in Nat /\ Cardinality(Busy(p, "take")) \in Nat
      /\ Cardinality(R) \in Nat /\ head[p] \in Nat
      /\ P = head[p] + Cardinality(Busy(p, "take"))
  BY BusyCards DEF Promised
<1>4. c \in R /\ c \notin Busy(p, "take") /\ c \notin Busy(p, "undo")
  BY <1>1 DEF Rechecking, Busy, At
<1>5. m \in Nat /\ cons[c].over \in Nat
  BY <1>4, Rechecker
<1>6. Rechecking(p)' = R \ {c}
  BY <1>1, BusyStep DEF Rechecking
<1>7. Cardinality(R \ {c}) = Cardinality(R) - 1
  <2>1. R \in SUBSET Consumers
    BY DEF Rechecking, Busy
  <2>2. IsFiniteSet(R)
    BY <2>1, Cards
  <2> QED BY <1>4, <2>2, FS_RemoveElement
<1>8. /\ Cardinality(Busy(p, "take")') = Cardinality(Busy(p, "take")) + more
      /\ Cardinality(Busy(p, "undo")') = Cardinality(Busy(p, "undo")) + 1 - more
  <2>1. IsFiniteSet(Busy(p, "take")) /\ IsFiniteSet(Busy(p, "undo"))
    <3>1. Busy(p, "take") \in SUBSET Consumers /\ Busy(p, "undo") \in SUBSET Consumers
      BY DEF Busy
    <3> QED BY <3>1, Cards
  <2>2. CASE took
    <3>1. Busy(p, "take")' = Busy(p, "take") \cup {c} /\ Busy(p, "undo")' = Busy(p, "undo") \ {c}
      BY <1>1, <2>2, BusyStep
    <3>2. Busy(p, "undo")' = Busy(p, "undo")
      BY <1>4, <3>1
    <3>3. Cardinality(Busy(p, "take")') = Cardinality(Busy(p, "take")) + 1
      BY <1>4, <2>1, <3>1, FS_AddElement
    <3> QED BY <1>3, <2>2, <3>2, <3>3
  <2>3. CASE ~ took
    <3>1. Busy(p, "undo")' = Busy(p, "undo") \cup {c} /\ Busy(p, "take")' = Busy(p, "take") \ {c}
      BY <1>1, <2>3, BusyStep
    <3>2. Busy(p, "take")' = Busy(p, "take")
      BY <1>4, <3>1
    <3>3. Cardinality(Busy(p, "undo")') = Cardinality(Busy(p, "undo")) + 1
      BY <1>4, <2>1, <3>1, FS_AddElement
    <3> QED BY <1>3, <2>3, <3>2, <3>3
  <2> QED BY <2>2, <2>3
<1>9. Promised(p)' = P + more
  BY <1>2, <1>3, <1>8 DEF Promised
<1>10. optimistic'[p] = Promised(p)' + overcommit'[p] + Cardinality(Busy(p, "undo")')
                        + Cardinality(Rechecking(p)')
  <2>1. optimistic[p] = P + overcommit[p] + Cardinality(Busy(p, "undo")) + Cardinality(R)
    BY DEF Counts
  <2>2. more \in Nat
    OBVIOUS
  <2> HIDE DEF P, R, more
  <2> QED BY <1>2, <1>3, <1>6, <1>7, <1>8, <1>9, <2>1, <2>2
<1>11. /\ Cardinality(Before(c)) \in Nat /\ Cardinality(Before(c)) >= 1
       /\ P + Cardinality(Before(c)) <= tail[p] \/ P + Cardinality(Before(c)) <= m + 1 - cons[c].over
  <2>1. P + Cardinality(Before(c)) <= tail[p] \/ P + Cardinality(Before(c)) <= m + 1 - cons[c].over
    BY <1>4 DEF Counts
  <2>2. Before(c) \in SUBSET Consumers /\ c \in Before(c)
    BY <1>4, <1>5 DEF Before, Rechecking, Busy
  <2>3. IsFiniteSet(Before(c)) /\ Cardinality(Before(c)) \in Nat
    BY <2>2, Cards
  <2>4. Cardinality(Before(c)) # 0
    BY <2>2, <2>3, FS_EmptySet
  <2> QED BY <2>1, <2>3, <2>4
<1>12. took => P + Cardinality(Before(c)) <= tail[p]
  <2>1. took => m - cons[c].over < tail[p]
    BY <1>1
  <2> DEFINE x == Cardinality(Before(c))
             y == cons[c].over
  <2>2. x \in Nat /\ y \in Nat /\ (P + x <= tail[p] \/ P + x <= m + 1 - y)
    BY <1>5, <1>11
  <2>3. took => m - y < tail[p]
    BY <2>1
  <2> HIDE DEF P, m, took, x, y
  <2>4. took => P + x <= tail[p]
    BY <1>3, <1>5, <2>2, <2>3
  <2> QED BY <2>4 DEF x
<1>13. Promised(p)' <= tail'[p]
  <2>1. P <= tail[p]
    BY DEF Counts
  <2>2. CASE took
    <3>1. P + 1 <= tail[p]
      <4> DEFINE x == Cardinality(Before(c))
      <4>1. x \in Nat /\ x >= 1 /\ P + x <= tail[p]
        BY <1>11, <1>12, <2>2
      <4> HIDE DEF x, P
      <4> QED BY <1>3, <4>1
    <3> QED BY <1>2, <1>9, <2>2, <3>1
  <2>3. CASE ~ took
    <3>1. P + 0 = P
      BY <1>3
    <3> QED BY <1>2, <1>9, <2>1, <2>3, <3>1
  <2> QED BY <2>2, <2>3
<1>14. \A d \in Consumers :
          cons'[d].at \in {"guess", "bump", "recheck"} /\ cons'[d].p = p => cons'[d].over <= overcommit'[p]
  <2> TAKE d \in Consumers
  <2>1. CASE d = c
    BY <1>1, <2>1
  <2>2. CASE d # c
    BY <1>1, <1>2, <2>2 DEF Counts, Steps
  <2> QED BY <2>1, <2>2
<1>15. ASSUME NEW d \in Rechecking(p)'
       PROVE  /\ cons'[d].my < optimistic'[p]
              /\ LET n == Promised(p)' + Cardinality(Before(d)')
                 IN  n <= tail'[p] \/ n <= cons'[d].my + 1 - cons'[d].over
  <2> DEFINE x == Cardinality(Before(d))
             y == Cardinality(Before(d)')
             z == Cardinality(Before(c))
  <2>1. d \in R /\ d # c
    BY <1>6
  <2>2. /\ d \in Consumers /\ cons[d].p = p /\ cons'[d] = cons[d] /\ cons[d].my \in Nat /\ cons[d].over \in Nat
        /\ cons[d].my < optimistic[p]
    <3>1. d \in Consumers /\ cons[d].p = p /\ cons[d].my \in Nat /\ cons[d].over \in Nat
      BY <2>1, Rechecker
    <3>2. cons'[d] = cons[d]
      BY <1>1, <2>1, <3>1 DEF Steps
    <3> QED BY <2>1, <3>1, <3>2 DEF Counts
  <2>3. Before(d)' = Before(d) \ {c}
    <3>1. Before(d)' = {e \in R \ {c} : cons'[e].my <= cons[d].my}
      BY <1>6, <2>2 DEF Before
    <3>2. Before(d) = {e \in R : cons[e].my <= cons[d].my}
      BY <2>2 DEF Before
    <3>3. \A e \in R \ {c} : cons'[e] = cons[e]
      <4> TAKE e \in R \ {c}
      <4>1. e \in Consumers
        BY DEF Rechecking, Busy
      <4> QED BY <1>1, <4>1 DEF Steps
    <3> HIDE DEF R
    <3> QED BY <3>1, <3>2, <3>3
  <2>4. Before(d) \in SUBSET Consumers /\ Before(c) \in SUBSET Consumers
    BY DEF Before, Rechecking, Busy
  <2>5. IsFiniteSet(Before(d)) /\ x \in Nat /\ IsFiniteSet(Before(c)) /\ z \in Nat
    BY <2>4, Cards
  <2>6. y = IF c \in Before(d) THEN x - 1 ELSE x
    BY <2>3, <2>5, FS_RemoveElement
  <2>7. P + x <= tail[p] \/ P + x <= cons[d].my + 1 - cons[d].over
    BY <2>1 DEF Counts
  <2>8. c \notin Before(d) => x < z
    <3> SUFFICES ASSUME c \notin Before(d) PROVE x < z
      OBVIOUS
    <3>1. ~ (m <= cons[d].my)
      BY <1>4, <2>2 DEF Before
    <3>2. Before(d) \subseteq Before(c) /\ c \in Before(c)
      <4>1. Before(d) = {e \in R : cons[e].my <= cons[d].my}
        BY <2>2 DEF Before
      <4>2. Before(c) = {e \in R : cons[e].my <= m}
        BY DEF Before
      <4>3. \A e \in R : cons[e].my \in Nat
        BY Rechecker
      <4>4. \A e \in R : cons[e].my <= cons[d].my => cons[e].my <= m
        BY <1>5, <2>2, <3>1, <4>3
      <4> HIDE DEF R
      <4> QED BY <1>4, <1>5, <4>1, <4>2, <4>4
    <3>3. x <= z /\ x # z
      BY <2>5, <3>2, FS_Subset
    <3> QED BY <2>5, <3>3
  <2>9. z \in Nat /\ (took => P + z <= tail[p])
    BY <1>11, <1>12
  <2>10. /\ Promised(p)' = P + more /\ tail'[p] = tail[p] /\ optimistic'[p] = optimistic[p]
         /\ more \in {0, 1} /\ (took <=> more = 1)
    BY <1>2, <1>9
  <2> DEFINE a == cons[d].my
             b == cons[d].over
             Q == Promised(p)'
  <2>11. a \in Nat /\ b \in Nat /\ (P + x <= tail[p] \/ P + x <= a + 1 - b) /\ Q = P + more
    BY <2>2, <2>7, <2>10
  <2>12. Q + y <= tail[p] \/ Q + y <= a + 1 - b
    <3>1. CASE c \in Before(d)
      <4>1. y = x - 1
        BY <2>6, <3>1
      <4> HIDE DEF P, R, x, y, z, more, took, a, b, Q
      <4> QED BY <1>3, <2>5, <2>10, <2>11, <4>1
    <3>2. CASE c \notin Before(d)
      <4>1. y = x /\ x < z
        BY <2>6, <2>8, <3>2
      <4> HIDE DEF P, R, x, y, z, more, took, a, b, Q
      <4> QED BY <1>3, <2>5, <2>9, <2>10, <2>11, <4>1
    <3> QED BY <3>1, <3>2
  <2> QED BY <2>2, <2>10, <2>12
<1>16. \A d, e \in Rechecking(p)' : cons'[d].my = cons'[e].my => d = e
  <2>1. \A d \in R \ {c} : cons'[d] = cons[d]
    <3> TAKE d \in R \ {c}
    <3>1. d \in Consumers
      BY DEF Rechecking, Busy
    <3> QED BY <1>1, <3>1 DEF Steps
  <2>2. \A d, e \in R : cons[d].my = cons[e].my => d = e
    BY DEF Counts
  <2> HIDE DEF R
  <2> QED BY <1>6, <2>1, <2>2
<1> QED BY <1>10, <1>13, <1>14, <1>15, <1>16 DEF Counts

\* Undo and Take: one place less in use, one more in a counter.
LEMMA CountsUndoTake ==
    ASSUME QueueAssumption, TypeInv, NEW c \in Consumers, NEW p \in Producers, p = cons[c].p,
           Counts(p), Undo(c) \/ Take(c)
    PROVE  Counts(p)'
<1> DEFINE at == cons[c].at
           took == at = "take"
           R == Rechecking(p)
<1>1. /\ Steps(c) /\ at \in {"undo", "take"}
      /\ tail' = tail /\ optimistic' = optimistic
      /\ cons'[c].at \notin {"guess", "bump", "recheck", "undo", "take"}
      /\ \/ at = "undo" /\ head' = head /\ overcommit'[p] = overcommit[p] + 1
         \/ at = "take" /\ head'[p] = head[p] + 1 /\ overcommit' = overcommit
  <2>1. CASE Undo(c)
    <3>1. Steps(c) /\ at = "undo" /\ cons'[c].at \in {"idle", "check"} /\ overcommit'[p] = overcommit[p] + 1
      BY <2>1, UndoIs DEF At
    <3> QED BY <2>1, <3>1 DEF Undo
  <2>2. CASE Take(c)
    <3>1. Steps(c) /\ at = "take" /\ cons'[c].at = "locate" /\ head'[p] = head[p] + 1
      BY <2>2, TakeIs DEF At
    <3> QED BY <2>2, <3>1 DEF Take
  <2> QED BY <2>1, <2>2
<1>2. /\ Promised(p) \in Nat /\ tail[p] \in Nat /\ optimistic[p] \in Nat /\ overcommit[p] \in Nat
      /\ Cardinality(Busy(p, "undo")) \in Nat /\ Cardinality(Busy(p, "take")) \in Nat
      /\ Cardinality(R) \in Nat /\ head[p] \in Nat
      /\ Promised(p) = head[p] + Cardinality(Busy(p, "take"))
  BY BusyCards DEF Promised
<1>3. c \in Busy(p, at) /\ c \notin R
  BY <1>1 DEF Busy, At, Rechecking
<1>4. Rechecking(p)' = R
  <2>1. Rechecking(p)' = R \ {c}
    BY <1>1, BusyStep DEF Rechecking
  <2> QED BY <1>3, <2>1
<1>5. \A x \in {"undo", "take"} :
          Cardinality(Busy(p, x)') = IF x = at THEN Cardinality(Busy(p, x)) - 1 ELSE Cardinality(Busy(p, x))
  <2> TAKE x \in {"undo", "take"}
  <2>1. Busy(p, x)' = Busy(p, x) \ {c}
    BY <1>1, BusyStep
  <2>2. c \in Busy(p, x) <=> x = at
    BY <1>3 DEF Busy, At
  <2>3. Busy(p, x) \in SUBSET Consumers
    BY DEF Busy
  <2>4. IsFiniteSet(Busy(p, x))
    BY <2>3, Cards
  <2> QED BY <2>1, <2>2, <2>4, FS_RemoveElement
<1>6. Promised(p)' = Promised(p)
  <2>1. Promised(p)' = head'[p] + Cardinality(Busy(p, "take")')
    BY DEF Promised
  <2>2. CASE took
    <3>1. Cardinality(Busy(p, "take")') = Cardinality(Busy(p, "take")) - 1 /\ head'[p] = head[p] + 1
      BY <1>1, <1>5, <2>2
    <3> QED BY <1>2, <2>1, <3>1
  <2>3. CASE ~ took
    <3>1. Cardinality(Busy(p, "take")') = Cardinality(Busy(p, "take")) /\ head'[p] = head[p]
      BY <1>1, <1>5, <2>3
    <3> QED BY <1>2, <2>1, <3>1
  <2> QED BY <2>2, <2>3
<1>7. optimistic'[p] = Promised(p)' + overcommit'[p] + Cardinality(Busy(p, "undo")')
                       + Cardinality(Rechecking(p)')
  <2>1. optimistic[p] = Promised(p) + overcommit[p] + Cardinality(Busy(p, "undo")) + Cardinality(R)
    BY DEF Counts
  <2>2. CASE took
    <3>1. Cardinality(Busy(p, "undo")') = Cardinality(Busy(p, "undo")) /\ overcommit'[p] = overcommit[p]
      BY <1>1, <1>5, <2>2
    <3> QED BY <1>1, <1>4, <1>6, <2>1, <3>1
  <2>3. CASE ~ took
    <3>1. Cardinality(Busy(p, "undo")') = Cardinality(Busy(p, "undo")) - 1 /\ overcommit'[p] = overcommit[p] + 1
      BY <1>1, <1>5, <2>3
    <3> HIDE DEF R
    <3> QED BY <1>1, <1>2, <1>4, <1>6, <2>1, <3>1
  <2> QED BY <2>2, <2>3
<1>8. overcommit'[p] >= overcommit[p] /\ overcommit'[p] \in Nat
  BY <1>1, <1>2
<1>9. \A d \in Consumers :
          cons'[d].at \in {"guess", "bump", "recheck"} /\ cons'[d].p = p => cons'[d].over <= overcommit'[p]
  <2> TAKE d \in Consumers
  <2>1. CASE d = c
    BY <1>1, <2>1
  <2>2. CASE d # c
    <3> SUFFICES ASSUME cons'[d].at \in {"guess", "bump", "recheck"}, cons'[d].p = p
                 PROVE  cons'[d].over <= overcommit'[p]
      OBVIOUS
    <3>1. cons'[d] = cons[d]
      BY <1>1, <2>2 DEF Steps
    <3>2. cons[d].over <= overcommit[p]
      BY <3>1 DEF Counts
    <3>3. cons[d].over \in Nat
      <4>1. cons[d] \in Guessing \/ cons[d] \in Trying
        BY <3>1, Consumer
      <4> QED BY <4>1 DEF Guessing, Trying
    <3> QED BY <1>2, <1>8, <3>1, <3>2, <3>3
  <2> QED BY <2>1, <2>2
<1>10. \A d \in R : cons'[d] = cons[d] /\ cons[d].p = p
  <2> TAKE d \in R
  <2>1. d \in Consumers /\ cons[d].p = p /\ d # c
    BY <1>3 DEF Rechecking, Busy
  <2> QED BY <1>1, <2>1 DEF Steps
<1>11. \A d \in R : Before(d)' = Before(d)
  <2> TAKE d \in R
  <2>1. Before(d)' = {e \in R : cons'[e].my <= cons[d].my}
    BY <1>4, <1>10 DEF Before
  <2>2. Before(d) = {e \in R : cons[e].my <= cons[d].my}
    BY <1>10 DEF Before
  <2> HIDE DEF R
  <2> QED BY <1>10, <2>1, <2>2
<1>12. \A d \in Rechecking(p)' :
              /\ cons'[d].my < optimistic'[p]
              /\ LET n == Promised(p)' + Cardinality(Before(d)')
                 IN  n <= tail'[p] \/ n <= cons'[d].my + 1 - cons'[d].over
  <2> TAKE d \in Rechecking(p)'
  <2>1. d \in R /\ cons'[d] = cons[d] /\ Before(d)' = Before(d)
    BY <1>4, <1>10, <1>11
  <2>2. /\ cons[d].my < optimistic[p]
        /\ LET n == Promised(p) + Cardinality(Before(d))
           IN  n <= tail[p] \/ n <= cons[d].my + 1 - cons[d].over
    BY <2>1 DEF Counts
  <2> QED BY <1>1, <1>6, <2>1, <2>2
<1>13. \A d, e \in Rechecking(p)' : cons'[d].my = cons'[e].my => d = e
  BY <1>4, <1>10 DEF Counts
<1>14. Promised(p)' <= tail'[p]
  BY <1>1, <1>6 DEF Counts
<1> QED BY <1>7, <1>9, <1>12, <1>13, <1>14 DEF Counts

LEMMA ProducerCounts ==
    ASSUME QueueAssumption, TypeInv, AllCounts, NEW p \in Producers, Enqueue(p)
    PROVE  AllCounts'
<1> SUFFICES ASSUME NEW q \in Producers PROVE Counts(q)'
  BY DEF AllCounts
<1>1. cons' = cons /\ head' = head /\ optimistic' = optimistic /\ overcommit' = overcommit
  BY DEF Enqueue, AddProducer, EnqueueInBlock, GrowIndex, ClaimEntry, MoveIndexTail, FillBlock,
         NoBlock, Publish, counters
<1>2. tail'[q] \in Nat /\ tail[q] <= tail'[q]
  <2>1. tail[q] \in Nat
    BY BusyCards
  <2>2. CASE Publish(p)
    BY <2>1, <2>2, PublishIs
  <2>3. CASE ~ Publish(p)
    <3>1. tail' = tail
      BY <2>3 DEF Enqueue, AddProducer, EnqueueInBlock, GrowIndex, ClaimEntry, MoveIndexTail, FillBlock,
         NoBlock, counters
    <3> QED BY <2>1, <3>1
  <2> QED BY <2>2, <2>3
<1>3. Counts(q)
  BY DEF AllCounts
<1> QED BY <1>1, <1>2, <1>3, CountsFrame

LEMMA ConsumerCounts ==
    ASSUME QueueAssumption, TypeInv, Rings, \A d \in Consumers : Chosen(d), Finding, Leaving,
           AllCounts, NEW c \in Consumers, TryDequeue(c)
    PROVE  AllCounts'
<1> SUFFICES ASSUME NEW q \in Producers PROVE Counts(q)'
  BY DEF AllCounts
<1>0. Counts(q)
  BY DEF AllCounts
<1>1. CASE /\ counters' = counters /\ Steps(c)
           /\ cons[c].at \notin {"recheck", "take", "undo"}
           /\ cons'[c].at \notin {"recheck", "take", "undo"}
           /\ cons'[c].at \in {"guess", "bump"} /\ cons'[c].p = q => cons'[c].over <= overcommit[q]
  BY <1>0, <1>1, CountsOther DEF counters, Counted
<1>2. CASE Start(c)
  <2>1. At(c, "idle") /\ Steps(c) /\ cons'[c].at = "scan"
    BY <1>2, StartIs
  <2> QED BY <1>1, <1>2, <2>1 DEF Start, At
<1>3. CASE Scan(c)
  <2>1. At(c, "scan") /\ Steps(c) /\ cons'[c].at = "scan"
    BY <1>3, ScanIs
  <2> QED BY <1>1, <1>3, <2>1 DEF Scan, At
<1>4. CASE Choose(c)
  <2>1. At(c, "scan") /\ Steps(c) /\ cons'[c].at \in {"idle", "check"}
    BY <1>4, ChooseIs
  <2> QED BY <1>1, <1>4, <2>1 DEF Choose, At
<1>5. CASE LoadTail(c)
  <2>1. At(c, "check") /\ Steps(c) /\ cons'[c].at = "guess" /\ cons'[c].p = cons[c].p
        /\ cons'[c].over = overcommit[cons[c].p]
    BY <1>5, LoadTailIs
  <2>2. overcommit[q] <= overcommit[q]
    BY BusyCards
  <2>3. cons'[c].p = q => cons'[c].over <= overcommit[q]
    BY <2>1, <2>2
  <2> QED BY <1>1, <1>5, <2>1, <2>3 DEF LoadTail, At
<1>6. CASE Guess(c)
  <2>1. /\ At(c, "guess") /\ Steps(c)
        /\ \/ cons'[c].at = "bump" /\ cons'[c].p = cons[c].p /\ cons'[c].over = cons[c].over
           \/ cons'[c].at \in {"idle", "check"}
    BY <1>6, GuessIs
  <2>2. cons'[c].at \in {"guess", "bump"} /\ cons'[c].p = q => cons'[c].over <= overcommit[q]
    BY <1>0, <2>1 DEF Counts, At
  <2> QED BY <1>1, <1>6, <2>1, <2>2 DEF Guess, At
<1>7. CASE Bump(c)
  <2>1. /\ At(c, "bump") /\ Steps(c) /\ cons[c].p \in Producers
        /\ cons'[c].at = "recheck" /\ cons'[c].p = cons[c].p
        /\ \A r \in Producers \ {cons[c].p} : optimistic'[r] = optimistic[r]
    BY <1>7, BumpIs
  <2>2. CASE q = cons[c].p
    BY <1>0, <1>7, <2>2, CountsBump
  <2>3. CASE q # cons[c].p
    <3>1. head' = head /\ tail' = tail /\ overcommit' = overcommit /\ optimistic'[q] = optimistic[q]
      BY <1>7, <2>1, <2>3 DEF Bump
    <3>2. ~ Counted(c, q) /\ ~ Counted(c, q)'
      BY <2>1, <2>3 DEF Counted
    <3> QED BY <1>0, <2>1, <2>3, <3>1, <3>2, CountsOther
  <2> QED BY <2>2, <2>3
<1>8. CASE Recheck(c)
  <2>1. /\ At(c, "recheck") /\ Steps(c) /\ cons[c].p \in Producers
        /\ cons'[c].at \in {"take", "undo"} /\ cons'[c].p = cons[c].p
    BY <1>8, RecheckIs
  <2>2. CASE q = cons[c].p
    BY <1>0, <1>8, <2>2, CountsRecheck
  <2>3. CASE q # cons[c].p
    <3>1. head' = head /\ tail' = tail /\ overcommit' = overcommit /\ optimistic' = optimistic
      BY <1>8 DEF Recheck, counters
    <3>2. ~ Counted(c, q) /\ ~ Counted(c, q)'
      BY <2>1, <2>3 DEF Counted
    <3> QED BY <1>0, <2>1, <2>3, <3>1, <3>2, CountsOther
  <2> QED BY <2>2, <2>3
<1>9. CASE Undo(c)
  <2>1. /\ At(c, "undo") /\ Steps(c) /\ cons[c].p \in Producers
        /\ cons'[c].at \in {"idle", "check"}
        /\ \A r \in Producers \ {cons[c].p} : overcommit'[r] = overcommit[r]
    BY <1>9, UndoIs
  <2>2. CASE q = cons[c].p
    BY <1>0, <1>9, <2>2, CountsUndoTake
  <2>3. CASE q # cons[c].p
    <3>1. head' = head /\ tail' = tail /\ overcommit'[q] = overcommit[q] /\ optimistic' = optimistic
      BY <1>9, <2>1, <2>3 DEF Undo
    <3>2. ~ Counted(c, q) /\ ~ Counted(c, q)'
      BY <2>1, <2>3 DEF Counted
    <3> QED BY <1>0, <2>1, <2>3, <3>1, <3>2, CountsOther
  <2> QED BY <2>2, <2>3
<1>10. CASE Take(c)
  <2>1. /\ At(c, "take") /\ Steps(c) /\ cons[c].p \in Producers
        /\ cons'[c].at = "locate"
        /\ \A r \in Producers \ {cons[c].p} : head'[r] = head[r]
    BY <1>10, TakeIs
  <2>2. CASE q = cons[c].p
    BY <1>0, <1>10, <2>2, CountsUndoTake
  <2>3. CASE q # cons[c].p
    <3>1. head'[q] = head[q] /\ tail' = tail /\ overcommit' = overcommit /\ optimistic' = optimistic
      BY <1>10, <2>1, <2>3 DEF Take
    <3>2. ~ Counted(c, q) /\ ~ Counted(c, q)'
      BY <2>1, <2>3 DEF Counted
    <3> QED BY <1>0, <2>1, <2>3, <3>1, <3>2, CountsOther
  <2> QED BY <2>2, <2>3
<1>11. CASE Locate(c)
  <2>1. cons[c].p \in Producers
    BY <1>11, Consumer DEF Locate, At, Locating
  <2>2. At(c, "locate") /\ Steps(c) /\ cons'[c].at = "find"
    BY <1>11, <2>1, LocateIs, TailNat
  <2> QED BY <1>1, <1>11, <2>2 DEF Locate, At
<1>12. CASE Find(c)
  <2>1. At(c, "find") /\ Steps(c) /\ cons'[c].at = "move"
    BY <1>12, FindIs DEF Rings
  <2> QED BY <1>1, <1>12, <2>1 DEF Find, At
<1>13. CASE Move(c)
  <2>1. At(c, "move") /\ Steps(c) /\ cons'[c].at = "empty"
    BY <1>13, MoveIs
  <2> QED BY <1>1, <1>13, <2>1 DEF Move, At
<1>14. CASE SetEmpty(c)
  <2>1. At(c, "empty") /\ Steps(c) /\ cons'[c].at \in {"unlink", "idle"}
    BY <1>14, SetEmptyIs
  <2> QED BY <1>1, <1>14, <2>1 DEF SetEmpty, At
<1>15. CASE Unlink(c)
  <2>1. At(c, "unlink") /\ Steps(c) /\ cons'[c].at = "free"
    BY <1>15, UnlinkIs
  <2> QED BY <1>1, <1>15, <2>1 DEF Unlink, At
<1>16. CASE Free(c)
  <2>1. At(c, "free") /\ Steps(c) /\ cons'[c].at = "idle"
    BY <1>16, FreeIs
  <2> QED BY <1>1, <1>16, <2>1 DEF Free, At
<1> QED BY <1>2, <1>3, <1>4, <1>5, <1>6, <1>7, <1>8, <1>9, <1>10, <1>11, <1>12, <1>13, <1>14, <1>15, <1>16
        DEF TryDequeue
-----------------------------------------------------------------------------
(* What stays the same                                                     *)

SameClaims == \A c \in Consumers, p \in Producers, i \in Nat : Claims(c, p, i)' <=> Claims(c, p, i)
SameMoved == \A p \in Producers, i \in Nat : Moved(p, i)' <=> Moved(p, i)

\* Who is not where blocks are left stays out.
Gone == {"empty", "unlink", "free"}
SameLeavers ==
    \A c \in Consumers : cons'[c] = cons[c] \/ (cons[c].at \notin Gone /\ cons'[c].at \notin Gone)

\* The index of p loses nothing ...
Grows(p) ==
    /\ DOMAIN headers[p] \subseteq DOMAIN headers'[p]
    /\ \A h \in DOMAIN headers[p] : headers'[p][h].index = headers[p][h].index
    /\ DOMAIN entries[p] \subseteq DOMAIN entries'[p]
    /\ \A e \in DOMAIN entries[p] :
           /\ entries[p][e].value # Null => entries'[p][e] = entries[p][e]
           /\ entries[p][e].key # INVALID_BLOCK_BASE => entries'[p][e].key # INVALID_BLOCK_BASE

\* ... and leads to no other block than before.
Extends(p) ==
    /\ Grows(p)
    /\ \A e \in DOMAIN entries'[p] :
           entries'[p][e].value # Null => e \in DOMAIN entries[p] /\ entries[p][e].value # Null

LEMMA UsersSame ==
    ASSUME SameLeavers
    PROVE  \A b : /\ Users(b, {"empty"})' = Users(b, {"empty"})
                  /\ Users(b, {"unlink", "free"})' = Users(b, {"unlink", "free"})
BY DEF SameLeavers, Users, Gone

\* An entry that leads to a block.
LEMMA Leads ==
    ASSUME QueueAssumption, TypeInv, Rings, NEW p \in Producers, NEW e \in DOMAIN entries[p],
           entries[p][e].value # Null
    PROVE  LET key == entries[p][e].key
           IN  /\ key \in Nat /\ entries[p][e].value \in Blocks
               /\ \A k \in Slots : /\ key + k \in Nat /\ Base(key + k) = key
                                   /\ (key + k) % BLOCK_SIZE = k
                                   /\ key + k < Filled(tail[p], prod[p].at)
               /\ \A f \in DOMAIN entries[p] :
                      entries[p][f].value # Null /\ entries[p][f].key = key => f = e
<1> DEFINE hs == headers[p]
           es == entries[p]
           n == tail[p]
           at == prod[p].at
           key == es[e].key
<1>1. /\ hs \in Seq(Header) /\ es \in Seq(Entry) /\ n \in Nat /\ at \in States
      /\ Ring(hs, es, n, at)
  BY IndexOf DEF Rings
<1> HIDE DEF hs, n, at
<1>2. /\ key \in Nat /\ es[e].value \in Blocks /\ Multiple(key, BLOCK_SIZE)
      /\ key + BLOCK_SIZE <= Filled(n, at)
      /\ \A f \in DOMAIN es : es[f].value # Null /\ es[f].key = key => f = e
  <2> HIDE DEF es
  <2>1. e \in DOMAIN es /\ es[e].value # Null
    BY DEF es
  <2> QED BY <1>1, <2>1, Live
<1>3. Filled(n, at) \in Nat /\ BLOCK_SIZE \in Nat
  BY <1>1, NewestIs, BlockSize
<1>4. \A k \in Slots : key + k \in Nat /\ Base(key + k) = key /\ (key + k) % BLOCK_SIZE = k
  <2> HIDE DEF key
  <2> QED BY <1>2, BaseAt
<1>5. \A k \in Slots : key + k < Filled(n, at)
  <2> HIDE DEF key
  <2> QED BY <1>2, <1>3 DEF Slots
<1> QED BY <1>2, <1>4, <1>5 DEF n, at

\* A number in a block.
LEMMA InBlock ==
    ASSUME QueueAssumption, NEW i \in Nat
    PROVE  i % BLOCK_SIZE \in Slots /\ Base(i) + (i % BLOCK_SIZE) = i /\ Base(i) \in Nat
BY BaseIs

\* Kept after a step, in terms of the key and the block that the entry has then.
LEMMA KeptIs ==
    ASSUME NEW p, NEW e, NEW base, NEW b, entries'[p][e].key = base, entries'[p][e].value = b,
           block'[b].at = "used",
           \A k \in Slots :
               block'[b].slots[k] = IF base + k < Built(p)' /\ ~ Moved(p, base + k)'
                                    THEN <<p, base + k + 1>> ELSE Empty,
           block'[b].emptied + Cardinality(Users(b, {"empty"})') + Cardinality(Left(p, base)') = BLOCK_SIZE
    PROVE  Kept(p, e)'
BY DEF Kept, Users, Left, Moved, Claims

\* What is in a block, and how many have left it, stays.
LEMMA KeptSame ==
    ASSUME QueueAssumption, NEW p \in Producers, NEW e, Kept(p, e),
           entries'[p][e] = entries[p][e], NEW base \in Nat, NEW b \in Blocks,
           base = entries[p][e].key, b = entries[p][e].value,
           block'[b] = block[b],
           Users(b, {"empty"})' = Users(b, {"empty"}),
           \A k \in Slots : Moved(p, base + k)' <=> Moved(p, base + k),
           \A k \in Slots : base + k < Built(p)' <=> base + k < Built(p)
    PROVE  Kept(p, e)'
<1>1. entries'[p][e].value = b /\ entries'[p][e].key = base
  OBVIOUS
<1>2. block[b].at = "used" /\ block'[b] = block[b]
  BY DEF Kept
<1>3. \A k \in Slots :
          block[b].slots[k] = IF base + k < Built(p) /\ ~ Moved(p, base + k)
                              THEN <<p, base + k + 1>> ELSE Empty
  BY DEF Kept
<1>4. block[b].emptied + Cardinality(Users(b, {"empty"})) + Cardinality(Left(p, base)) = BLOCK_SIZE
  BY DEF Kept
<1>5. Left(p, base)' = Left(p, base)
  BY DEF Left
<1>6. \A k \in Slots :
          block'[b].slots[k] = IF base + k < Built(p)' /\ ~ Moved(p, base + k)'
                               THEN <<p, base + k + 1>> ELSE Empty
  BY <1>2, <1>3
<1>7. block'[b].emptied + Cardinality(Users(b, {"empty"})') + Cardinality(Left(p, base)') = BLOCK_SIZE
  BY <1>2, <1>4, <1>5
<1> QED BY <1>1, <1>2, <1>6, <1>7, KeptIs

\* Nothing happens to the blocks.
LEMMA Quiet ==
    ASSUME QueueAssumption, TypeInv, Rings, \A p \in Producers : Present(p), Keeping, Leaving, Returned,
           SameLeavers, SameMoved, block' = block, pooled' = pooled,
           \A p \in Producers :
               /\ Extends(p) /\ Built(p)' = Built(p)
               /\ Filled(tail'[p], prod'[p].at) = Filled(tail[p], prod[p].at)
    PROVE  (\A p \in Producers : Present(p)') /\ Keeping' /\ Leaving' /\ Returned'
<1>1. ASSUME NEW p \in Producers, NEW e \in DOMAIN entries[p], entries[p][e].value # Null
      PROVE  e \in DOMAIN entries'[p] /\ entries'[p][e] = entries[p][e]
  BY <1>1 DEF Extends, Grows
<1>2. ASSUME NEW p \in Producers, NEW e \in DOMAIN entries'[p], entries'[p][e].value # Null
      PROVE  e \in DOMAIN entries[p] /\ entries[p][e].value # Null /\ entries'[p][e] = entries[p][e]
  BY <1>2 DEF Extends, Grows
<1>3. ASSUME NEW p \in Producers PROVE Present(p)'
  <2> SUFFICES ASSUME NEW i \in 0 .. Filled(tail'[p], prod'[p].at) - 1, ~ Moved(p, i)'
               PROVE  \E e \in DOMAIN entries'[p] : Holds(entries'[p][e], Base(i))
    BY DEF Present
  <2>0. i \in 0 .. Filled(tail[p], prod[p].at) - 1
    OBVIOUS
  <2>1. i \in Nat
    OBVIOUS
  <2>2. ~ Moved(p, i)
    BY <2>1 DEF SameMoved
  <2>3. PICK e \in DOMAIN entries[p] : Holds(entries[p][e], Base(i))
    BY <2>0, <2>2 DEF Present
  <2>4. e \in DOMAIN entries'[p] /\ entries'[p][e] = entries[p][e]
    BY <1>1, <2>3 DEF Holds
  <2> QED BY <2>3, <2>4
<1>4. Keeping'
  <2>1. ASSUME NEW p \in Producers, NEW e \in DOMAIN entries'[p], entries'[p][e].value # Null
        PROVE  Kept(p, e)'
    <3>1. e \in DOMAIN entries[p] /\ entries[p][e].value # Null /\ entries'[p][e] = entries[p][e]
      BY <1>2, <2>1
    <3>2. Kept(p, e)
      BY <3>1 DEF Keeping
    <3>3. PICK base \in Nat, b \in Blocks : base = entries[p][e].key /\ b = entries[p][e].value
      BY <3>1, Leads
    <3>4. \A k \in Slots : base + k \in Nat
      BY <3>1, <3>3, Leads
    <3>5. \A k \in Slots : Moved(p, base + k)' <=> Moved(p, base + k)
      BY <3>4 DEF SameMoved
    <3>6. \A k \in Slots : base + k < Built(p)' <=> base + k < Built(p)
      OBVIOUS
    <3>7. Users(b, {"empty"})' = Users(b, {"empty"})
      BY UsersSame
    <3> QED BY <3>1, <3>2, <3>3, <3>5, <3>6, <3>7, KeptSame
  <2>2. ASSUME NEW p \in Producers, NEW q \in Producers,
               NEW e \in DOMAIN entries'[p], NEW f \in DOMAIN entries'[q],
               entries'[p][e].value # Null, entries'[p][e].value = entries'[q][f].value
        PROVE  p = q /\ e = f
    <3>1. e \in DOMAIN entries[p] /\ entries[p][e].value # Null /\ entries'[p][e] = entries[p][e]
      BY <1>2, <2>2
    <3>2. f \in DOMAIN entries[q] /\ entries'[q][f] = entries[q][f]
      BY <1>2, <2>2
    <3> QED BY <2>2, <3>1, <3>2 DEF Keeping
  <2> QED BY <2>1, <2>2 DEF Keeping
<1>5. Leaving'
  <2>1. ASSUME NEW c \in Consumers, cons'[c].at \in Gone
        PROVE  cons'[c] = cons[c] /\ cons[c].at \in Gone /\ cons[c] \in Going
    <3>1. cons'[c] = cons[c]
      BY <2>1 DEF SameLeavers
    <3>2. cons[c].at \in {"empty", "unlink", "free"}
      BY <2>1, <3>1 DEF Gone
    <3>3. cons[c] \in Going
      BY <3>2, Consumer
    <3> QED BY <2>1, <3>1, <3>3
  <2>2. ASSUME NEW c \in Consumers, cons'[c].at \in {"empty", "unlink"}
        PROVE  /\ cons'[c].entry \in DOMAIN entries'[cons'[c].p]
               /\ entries'[cons'[c].p][cons'[c].entry].value = cons'[c].b
    <3>1. cons'[c] = cons[c] /\ cons[c] \in Going
      BY <2>1, <2>2 DEF Gone
    <3>2. /\ cons[c].entry \in DOMAIN entries[cons[c].p] /\ cons[c].p \in Producers
          /\ entries[cons[c].p][cons[c].entry].value = cons[c].b /\ cons[c].b # Null
      BY <2>2, <3>1 DEF Leaving, Leaves, Going, Blocks, Null
    <3> QED BY <1>1, <3>1, <3>2
  <2>3. ASSUME NEW c \in Consumers, At(c, "free")'
        PROVE  /\ block'[cons'[c].b].at = "used"
               /\ block'[cons'[c].b].slots = FreshSlots
               /\ \A p \in Producers : \A e \in DOMAIN entries'[p] : entries'[p][e].value # cons'[c].b
    <3>1. cons'[c] = cons[c] /\ cons[c] \in Going /\ At(c, "free")
      BY <2>1, <2>3 DEF Gone, At
    <3>2. cons[c].b # Null
      BY <3>1 DEF Going, Blocks, Null
    <3>3. ASSUME NEW p \in Producers, NEW e \in DOMAIN entries'[p], entries'[p][e].value = cons[c].b
          PROVE  FALSE
      <4>1. e \in DOMAIN entries[p] /\ entries'[p][e] = entries[p][e]
        BY <1>2, <3>2, <3>3
      <4> QED BY <3>1, <3>3, <4>1 DEF Leaving, Leaves
    <3> QED BY <3>1, <3>3 DEF Leaving, Leaves
  <2>4. ASSUME NEW c \in Consumers, cons'[c].at \in {"unlink", "free"}
        PROVE  block'[cons'[c].b].emptied = BLOCK_SIZE
    <3>1. cons'[c] = cons[c]
      BY <2>1, <2>4 DEF Gone
    <3> QED BY <2>4, <3>1 DEF Leaving, Leaves
  <2>5. ASSUME NEW c \in Consumers, NEW d \in Consumers,
               {cons'[c].at, cons'[d].at} \subseteq {"unlink", "free"}, cons'[c].b = cons'[d].b
        PROVE  c = d
    <3>1. cons'[c] = cons[c] /\ cons'[d] = cons[d]
      BY <2>1, <2>5 DEF Gone
    <3> QED BY <2>5, <3>1 DEF Leaving, Leaves
  <2> QED BY <2>2, <2>3, <2>4, <2>5 DEF Leaving, Leaves
<1>6. Returned'
  <2>1. ASSUME NEW b \in Blocks PROVE Users(b, {"unlink", "free"})' = Users(b, {"unlink", "free"})
    BY UsersSame
  <2> QED BY <2>1 DEF Returned
<1> QED BY <1>3, <1>4, <1>5, <1>6

\* No element is taken or moved out.
LEMMA TakingSame ==
    ASSUME QueueAssumption, TypeInv, TypeInv', Taking, SameClaims,
           \A p \in Producers : head[p] <= head'[p]
    PROVE  Taking'
<1> SUFFICES ASSUME NEW c \in Consumers, NEW d \in Consumers, NEW p \in Producers, NEW i \in Nat,
                    Claims(c, p, i)'
             PROVE  i < head'[p] /\ (Claims(d, p, i)' => c = d)
  BY DEF Taking
<1>1. Claims(c, p, i) /\ (Claims(d, p, i)' => Claims(d, p, i))
  BY DEF SameClaims
<1>2. i < head[p] /\ (Claims(d, p, i) => c = d)
  BY <1>1 DEF Taking
<1>3. head[p] \in Nat /\ head'[p] \in Nat /\ head[p] <= head'[p]
  BY DEF TypeInv
<1> QED BY <1>1, <1>2, <1>3

LEMMA TakenSame ==
    ASSUME TypeInv, Taken, SameClaims, SameMoved, got' = got
    PROVE  Taken'
<1>2. ASSUME NEW c \in Consumers, NEW j \in DOMAIN got[c], NEW p \in Producers, NEW i \in Nat,
             Claims(c, p, i)', got[c][j][1] = p
      PROVE  got[c][j][2] <= i
  BY <1>2 DEF SameClaims, Taken
<1>3. ASSUME NEW c \in Consumers, NEW j \in DOMAIN got'[c]
      PROVE  /\ got'[c][j][1] \in Producers /\ got'[c][j][2] > 0
             /\ Moved(got[c][j][1], got[c][j][2] - 1)'
  <2>1. j \in DOMAIN got[c] /\ got'[c][j] = got[c][j]
    OBVIOUS
  <2>2. got[c][j][1] \in Producers /\ got[c][j][2] > 0 /\ Moved(got[c][j][1], got[c][j][2] - 1)
    BY <2>1 DEF Taken
  <2>3. got[c][j][2] - 1 \in Nat
    <3>1. got[c][j] \in Nat \X Nat
      BY <2>1 DEF TypeInv
    <3> QED BY <2>2, <3>1
  <2>4. PICK p \in Producers, i \in Nat : p = got[c][j][1] /\ i = got[c][j][2] - 1
    BY <2>2, <2>3
  <2>5. Moved(p, i)'
    <3>1. Moved(p, i)
      BY <2>2, <2>4
    <3> QED BY <3>1 DEF SameMoved
  <2>6. p = got'[c][j][1] /\ i = got'[c][j][2] - 1
    BY <2>1, <2>4
  <2> QED BY <2>1, <2>2, <2>5, <2>6 DEF Moved, Claims
<1> QED BY <1>2, <1>3 DEF Taken

LEMMA FindingSame ==
    ASSUME TypeInv, Rings, Finding, \A p \in Producers : Grows(p),
           \A c \in Consumers : cons'[c] = cons[c] \/ cons'[c].at \notin {"find", "move"}
    PROVE  Finding'
<1>1. ASSUME NEW c \in Consumers, cons'[c].at = "find"
      PROVE  Finds(cons'[c], headers'[cons'[c].p], entries'[cons'[c].p])
  <2> DEFINE s == cons[c]
             p == s.p
  <2>1. cons'[c] = s /\ At(c, "find")
    BY <1>1 DEF At
  <2>2. s \in Seeking /\ Finds(s, headers[p], entries[p])
    BY <2>1, Consumer DEF At, Finding
  <2>3. p \in Producers /\ Grows(p)
    BY <2>2 DEF Seeking
  <2> HIDE DEF s, p
  <2>4. /\ s.h \in DOMAIN headers[p] /\ s.t \in DOMAIN headers[p][s.h].index
        /\ entries[p][headers[p][s.h].index[s.t]].key # INVALID_BLOCK_BASE
    BY <2>2 DEF Finds
  <2>5. PICK x \in DOMAIN headers[p][s.h].index : Holds(entries[p][headers[p][s.h].index[x]], Base(s.i))
    BY <2>2 DEF Finds
  <2>6. s.h \in DOMAIN headers'[p] /\ headers'[p][s.h].index = headers[p][s.h].index
    BY <2>3, <2>4 DEF Grows
  <2> DEFINE ix == headers[p][s.h].index
  <2>7. ix[s.t] \in DOMAIN entries[p] /\ ix[x] \in DOMAIN entries[p]
    <3>1. Headers(headers[p], entries[p])
      BY <2>3, IndexOf DEF Rings
    <3> QED BY <2>4, <3>1 DEF Headers
  <2>8. entries'[p][ix[s.t]].key # INVALID_BLOCK_BASE
    BY <2>3, <2>4, <2>7 DEF Grows
  <2>9. entries'[p][ix[x]] = entries[p][ix[x]]
    BY <2>3, <2>5, <2>7 DEF Grows, Holds
  <2>10. Finds(s, headers'[p], entries'[p])
    BY <2>4, <2>5, <2>6, <2>8, <2>9 DEF Finds
  <2> QED BY <2>1, <2>10 DEF p, s
<1>2. ASSUME NEW c \in Consumers, cons'[c].at = "move"
      PROVE  /\ cons'[c].entry \in DOMAIN entries'[cons'[c].p]
             /\ Holds(entries'[cons'[c].p][cons'[c].entry], Base(cons'[c].i))
  <2> DEFINE s == cons[c]
  <2>1. cons'[c] = s /\ At(c, "move")
    BY <1>2 DEF At
  <2>2. s \in Moving /\ s.entry \in DOMAIN entries[s.p] /\ Holds(entries[s.p][s.entry], Base(s.i))
    BY <2>1, Consumer DEF At, Finding
  <2>3. s.p \in Producers
    BY <2>2 DEF Moving
  <2>4. s.entry \in DOMAIN entries'[s.p] /\ entries'[s.p][s.entry] = entries[s.p][s.entry]
    BY <2>2, <2>3 DEF Grows, Holds
  <2> QED BY <2>1, <2>2, <2>4
<1> QED BY <1>1, <1>2 DEF Finding, At
-----------------------------------------------------------------------------
(* The blocks, after a step of a producer                                  *)

LEMMA SameIndex ==
    ASSUME NEW p, headers'[p] = headers[p], entries'[p] = entries[p]
    PROVE  Extends(p)
BY DEF Extends, Grows

\* A producer moves nothing out, and its index loses nothing.
LEMMA ProducerGrows ==
    ASSUME QueueAssumption, TypeInv, Rings, Returned, NEW p \in Producers, Enqueue(p)
    PROVE  /\ cons' = cons /\ head' = head /\ got' = got
           /\ SameClaims /\ SameMoved /\ SameLeavers
           /\ \A q \in Producers : Grows(q) /\ (~ FillBlock(p) => Extends(q))
<1> DEFINE hs == headers[p]
           es == entries[p]
           n == tail[p]
<1>1. cons' = cons /\ head' = head /\ got' = got
  BY DEF Enqueue, AddProducer, EnqueueInBlock, GrowIndex, ClaimEntry, MoveIndexTail, FillBlock,
         NoBlock, Publish, counters
<1>2. SameClaims /\ SameMoved /\ SameLeavers
  BY <1>1 DEF SameClaims, SameMoved, SameLeavers, Claims, Moved
<1>0. /\ Ring(hs, es, n, prod[p].at) /\ hs \in Seq(Header) /\ es \in Seq(Entry) /\ n \in Nat
  BY IndexOf DEF Rings
<1>3. \A q \in Producers \ {p} : Extends(q)
  <2>1. ASSUME NEW q \in Producers \ {p} PROVE headers'[q] = headers[q] /\ entries'[q] = entries[q]
    <3>1. CASE AddProducer(p) \/ EnqueueInBlock(p) \/ Publish(p)
      BY <3>1 DEF AddProducer, EnqueueInBlock, Publish, memory
    <3>2. CASE GrowIndex(p)
      BY <1>0, <3>2, GrowIs
    <3>3. CASE ClaimEntry(p)
      BY <1>0, <3>3, ClaimIs DEF ClaimEntry
    <3>4. CASE MoveIndexTail(p)
      BY <1>0, <3>4, MoveTailIs DEF MoveIndexTail
    <3>5. CASE FillBlock(p)
      BY <1>0, <3>5, FillIs DEF FillBlock
    <3>6. CASE NoBlock(p)
      BY <1>0, <3>6, NoBlockIs
    <3> QED BY <3>1, <3>2, <3>3, <3>4, <3>5, <3>6 DEF Enqueue
  <2> QED BY <2>1, SameIndex
<1>4. CASE AddProducer(p) \/ EnqueueInBlock(p) \/ Publish(p)
  <2>1. headers'[p] = headers[p] /\ entries'[p] = entries[p]
    BY <1>4 DEF AddProducer, EnqueueInBlock, Publish, memory
  <2> QED BY <1>1, <1>2, <1>3, <2>1, SameIndex DEF Extends
<1>5. CASE GrowIndex(p)
  <2> DEFINE m == Size(Last(hs))
             gs == headers'[p]
             fs == entries'[p]
  <2>1. gs = Append(hs, Doubled(Last(hs))) /\ fs = es \o FreshEntries(m)
    BY <1>0, <1>5, GrowIs
  <2>2. Headers(hs, es)
    BY <1>0 DEF Ring
  <2>3. m \in Nat \ {0} /\ m = Len(es) /\ DOMAIN es = 1 .. m
    BY <1>0, <2>2, LastHeader
  <2>4. Doubled(Last(hs)) \in Header
    BY <1>0, <2>2, DoubledIs
  <2> DEFINE fresh == FreshEntries(m)
             new == Doubled(Last(hs))
  <2>5. \A i \in 1 .. m : fresh[i].value = Null /\ fresh[i] \in Entry
    BY DEF FreshEntries, FreshEntry, Entry, INVALID_BLOCK_BASE
  <2>6. fresh \in [1 .. m -> Entry]
    BY <2>5 DEF FreshEntries
  <2>7. fs = es \o fresh /\ gs = Append(hs, new) /\ new \in Header
    BY <2>1, <2>4
  <2> HIDE DEF m, fresh, gs, fs, new, hs, es
  <2>8. fresh \in Seq(Entry) /\ Len(fresh) = m /\ DOMAIN fresh = 1 .. m
    BY <2>3, <2>6, FunctionSeq
  <2>9. /\ fs \in Seq(Entry) /\ Len(fs) = m + m
        /\ \A i \in 1 .. m + m : fs[i] = IF i <= m THEN es[i] ELSE fresh[i - m]
    <3>1. Len(fs) = Len(es) + Len(fresh)
          /\ \A i \in 1 .. Len(es) + Len(fresh) :
                 fs[i] = IF i <= Len(es) THEN es[i] ELSE fresh[i - Len(es)]
      BY <1>0, <2>7, <2>8, ConcatProperties DEF es
    <3>2. fs \in Seq(Entry)
      BY <1>0, <2>7, <2>8, ConcatProperties DEF es
    <3> QED BY <2>3, <2>8, <3>1, <3>2
  <2>10. DOMAIN fs = 1 .. m + m
    BY <2>9
  <2>11. \A i \in 1 .. m : i \in 1 .. m + m /\ fs[i] = es[i]
    BY <2>3, <2>9
  <2>12. ASSUME NEW i \in 1 .. m + m, fs[i].value # Null PROVE i \in 1 .. m /\ es[i].value # Null
    <3>1. CASE i <= m
      BY <2>3, <2>9, <2>12, <3>1
    <3>2. CASE ~ (i <= m)
      <4>1. i - m \in 1 .. m
        BY <2>3, <3>2
      <4> QED BY <2>5, <2>9, <2>12, <3>2, <4>1
    <3> QED BY <3>1, <3>2
  <2>13. DOMAIN hs \subseteq DOMAIN gs /\ \A h \in DOMAIN hs : gs[h] = hs[h]
    BY <1>0, <2>7 DEF hs
  <2>14. Extends(p)
    BY <2>3, <2>10, <2>11, <2>12, <2>13 DEF Extends, Grows, gs, fs, hs, es
  <2> QED BY <1>1, <1>2, <1>3, <2>14 DEF Extends
<1>6. CASE ClaimEntry(p)
  <2> DEFINE e == NextEntry(p)
  <2>1. /\ AtStart(n) /\ Reusable(es[e]) /\ e \in DOMAIN es
        /\ Changed(es, entries'[p], e, n, es[e].value) /\ prod[p].at = "idle"
    BY <1>0, <1>6, ClaimIs
  <2>2. headers' = headers
    BY <1>6 DEF ClaimEntry
  <2>3. es[e].value = Null
    <3>1. /\ e = Last(hs).index[After(Last(hs), Last(hs).tail)] /\ Ring(hs, es, n, "idle")
      BY <1>0, <2>1, IndexOf DEF NextEntry, Current
    <3> HIDE DEF e, hs, es, n
    <3> QED BY <1>0, <2>1, <3>1, RingClaim
  <2>4. n # INVALID_BLOCK_BASE
    BY <1>0, <2>1, NotInvalid
  <2> HIDE DEF e
  <2>5. Extends(p)
    BY <2>1, <2>2, <2>3, <2>4 DEF Extends, Grows, Changed
  <2> QED BY <1>1, <1>2, <1>3, <2>5 DEF Extends
<1>7. CASE MoveIndexTail(p)
  <2>1. /\ entries' = entries /\ DOMAIN headers'[p] = DOMAIN hs
        /\ \A h \in DOMAIN hs : headers'[p][h].index = hs[h].index
    BY <1>0, <1>7, MoveTailIs DEF MoveIndexTail
  <2>2. Extends(p)
    BY <2>1 DEF Extends, Grows
  <2> QED BY <1>1, <1>2, <1>3, <2>2 DEF Extends
<1>8. CASE FillBlock(p)
  <2> DEFINE e == Current(p).index[Current(p).tail]
  <2>1. /\ e \in DOMAIN es /\ prod[p].at = "block"
        /\ \E b \in Blocks : Changed(es, entries'[p], e, es[e].key, b)
    BY <1>0, <1>8, FillIs
  <2>2. PICK b \in Blocks : Changed(es, entries'[p], e, es[e].key, b)
    BY <2>1
  <2>3. es[e].value = Null
    <3>1. /\ e = Last(hs).index[Last(hs).tail] /\ Ring(hs, es, n, "block")
      BY <1>0, <2>1, IndexOf
    <3> QED BY <3>1 DEF Ring, Linked
  <2>4. headers' = headers
    BY <1>8 DEF FillBlock
  <2> HIDE DEF e
  <2>5. Grows(p)
    BY <2>1, <2>2, <2>3, <2>4 DEF Grows, Changed
  <2> QED BY <1>1, <1>2, <1>3, <1>8, <2>5 DEF Extends
<1>9. CASE NoBlock(p)
  <2>1. /\ entries' = entries /\ DOMAIN headers'[p] = DOMAIN hs
        /\ \A h \in DOMAIN hs : headers'[p][h].index = hs[h].index
    BY <1>0, <1>9, NoBlockIs
  <2>2. Extends(p)
    BY <2>1 DEF Extends, Grows
  <2> QED BY <1>1, <1>2, <1>3, <2>2 DEF Extends
<1> QED BY <1>4, <1>5, <1>6, <1>7, <1>8, <1>9 DEF Enqueue

LEMMA ProducerQuiet ==
    ASSUME QueueAssumption, TypeInv, Rings, Accounted, NEW p \in Producers, Enqueue(p),
           ~ EnqueueInBlock(p), ~ FillBlock(p)
    PROVE  Accounted'
<1> DEFINE n == tail[p]
           at == prod[p].at
<1>1. /\ SameMoved /\ SameLeavers /\ \A q \in Producers : Extends(q)
  BY ProducerGrows DEF Accounted
<1>2. block' = block /\ pooled' = pooled
  BY DEF Enqueue, AddProducer, GrowIndex, ClaimEntry, MoveIndexTail, NoBlock, Publish, memory
<1>0. /\ Ring(headers[p], entries[p], n, at) /\ n \in Nat
  BY IndexOf DEF Rings
<1>3. at = "link" \/ at = "block" => AtStart(n)
  BY <1>0 DEF Ring, Linked
<1>4. \A q \in Producers \ {p} : prod'[q] = prod[q] /\ tail'[q] = tail[q]
  <2>1. CASE AddProducer(p) \/ GrowIndex(p)
    BY <2>1 DEF AddProducer, GrowIndex, counters
  <2>2. CASE ClaimEntry(p)
    BY <1>0, <2>2, ClaimIs DEF ClaimEntry, counters
  <2>3. CASE MoveIndexTail(p)
    BY <1>0, <2>3, MoveTailIs DEF MoveIndexTail, counters
  <2>4. CASE NoBlock(p)
    BY <1>0, <2>4, NoBlockIs DEF NoBlock, counters
  <2>5. CASE Publish(p)
    BY <2>5, PublishIs
  <2> QED BY <2>1, <2>2, <2>3, <2>4, <2>5 DEF Enqueue
<1>5. /\ Filled(tail'[p], prod'[p].at) = Filled(n, at)
      /\ Built(p)' = Built(p)
  <2>1. CASE AddProducer(p) \/ GrowIndex(p)
    BY <2>1 DEF AddProducer, GrowIndex, counters, Built
  <2>2. CASE ClaimEntry(p)
    <3>1. tail' = tail /\ at = "idle" /\ prod'[p].at = "link" /\ AtStart(n)
      BY <1>0, <2>2, ClaimIs DEF ClaimEntry, counters
    <3> QED BY <3>1 DEF Built, Filled
  <2>3. CASE MoveIndexTail(p)
    <3>1. tail' = tail /\ at = "link" /\ prod'[p].at = "block"
      BY <1>0, <2>3, MoveTailIs DEF MoveIndexTail, counters
    <3> QED BY <3>1 DEF Built, Filled
  <2>4. CASE NoBlock(p)
    <3>1. tail' = tail /\ at = "block" /\ prod'[p].at = "idle"
      BY <1>0, <2>4, NoBlockIs DEF NoBlock, counters
    <3> QED BY <3>1 DEF Built, Filled
  <2>5. CASE Publish(p)
    <3>1. tail'[p] = n + 1 /\ at = "publish" /\ prod'[p].at = "idle"
      BY <2>5, PublishIs
    <3>2. Filled(n + 1, "idle") = Filled(n, "publish")
      BY <1>0, NewestIs
    <3> QED BY <3>1, <3>2 DEF Built
  <2> QED BY <2>1, <2>2, <2>3, <2>4, <2>5 DEF Enqueue
<1>6. ASSUME NEW q \in Producers
      PROVE  /\ Extends(q) /\ Built(q)' = Built(q)
             /\ Filled(tail'[q], prod'[q].at) = Filled(tail[q], prod[q].at)
  <2>1. CASE q = p
    BY <1>1, <1>5, <2>1
  <2>2. CASE q # p
    BY <1>1, <1>4, <2>2 DEF Built
  <2> QED BY <2>1, <2>2
<1>7. (\A q \in Producers : Present(q)') /\ Keeping' /\ Leaving' /\ Returned'
  BY <1>1, <1>2, <1>6, Quiet DEF Accounted
<1> QED BY <1>7 DEF Accounted
-----------------------------------------------------------------------------
(* What one block of many does to the others                               *)

\* Only what was enqueued is moved out.
LEMMA MovedIs ==
    ASSUME QueueAssumption, TypeInv, AllCounts, NEW p \in Producers, NEW i \in Nat, Moved(p, i)
    PROVE  i < tail[p]
<1>1. head[p] \in Nat /\ tail[p] \in Nat /\ head[p] <= tail[p]
  BY HeadTail DEF AllCounts
<1> QED BY <1>1 DEF Moved

LEMMA PresentSame ==
    ASSUME QueueAssumption, NEW p \in Producers, Present(p), Grows(p),
           \A i \in Nat : Moved(p, i) => Moved(p, i)',
           Filled(tail'[p], prod'[p].at) = Filled(tail[p], prod[p].at)
    PROVE  Present(p)'
<1> SUFFICES ASSUME NEW i \in 0 .. Filled(tail'[p], prod'[p].at) - 1, ~ Moved(p, i)'
             PROVE  \E e \in DOMAIN entries'[p] : Holds(entries'[p][e], Base(i))
  BY DEF Present
<1>1. i \in 0 .. Filled(tail[p], prod[p].at) - 1 /\ i \in Nat
  OBVIOUS
<1>2. PICK e \in DOMAIN entries[p] : Holds(entries[p][e], Base(i))
  BY <1>1 DEF Present
<1> QED BY <1>2 DEF Grows, Holds

\* A block that the step leaves alone.
LEMMA KeptApart ==
    ASSUME QueueAssumption, TypeInv, Rings, Keeping, NEW p \in Producers,
           NEW e \in DOMAIN entries[p], entries[p][e].value # Null, entries'[p][e] = entries[p][e],
           NEW b, entries[p][e].value # b, \A x \in Blocks \ {b} : block'[x] = block[x],
           \A d \in Consumers :
               \/ cons'[d] = cons[d]
               \/ (At(d, "empty") => cons[d].b = b) /\ (At(d, "empty")' => cons'[d].b = b),
           NEW base, base = entries[p][e].key,
           \A k \in Slots : Moved(p, base + k)' <=> Moved(p, base + k),
           \A k \in Slots : base + k < Built(p)' <=> base + k < Built(p)
    PROVE  Kept(p, e)'
<1>1. PICK x \in Blocks : x = entries[p][e].value
  BY Leads
<1>2. base \in Nat
  BY Leads
<1>3. block'[x] = block[x] /\ x # b
  BY <1>1
<1>4. Kept(p, e)
  BY DEF Keeping
<1>5. Users(x, {"empty"})' = Users(x, {"empty"})
  BY <1>3 DEF Users, At
<1> QED BY <1>1, <1>2, <1>3, <1>4, <1>5, KeptSame

\* One who has not given its block back yet.
LEMMA LeavesApart ==
    ASSUME TypeInv, NEW d \in Consumers, Leaves(d), cons'[d] = cons[d],
           cons[d].at \in {"unlink", "free"} =>
               block'[cons[d].b].emptied = block[cons[d].b].emptied,
           At(d, "free") => block'[cons[d].b] = block[cons[d].b],
           cons[d].at \in {"empty", "unlink"} =>
               \A p \in Producers : \A e \in DOMAIN entries[p] :
                   entries[p][e].value = cons[d].b =>
                       e \in DOMAIN entries'[p] /\ entries'[p][e] = entries[p][e],
           At(d, "free") =>
               \A p \in Producers : \A e \in DOMAIN entries'[p] :
                   entries'[p][e].value = cons[d].b =>
                       e \in DOMAIN entries[p] /\ entries'[p][e] = entries[p][e]
    PROVE  Leaves(d)'
<1>1. ASSUME cons[d].at \in {"empty", "unlink"}
      PROVE  /\ cons[d].entry \in DOMAIN entries'[cons[d].p]
             /\ entries'[cons[d].p][cons[d].entry].value = cons[d].b
  <2>1. cons[d].p \in Producers
    BY <1>1, Consumer DEF Going
  <2> QED BY <1>1, <2>1 DEF Leaves
<1>2. ASSUME At(d, "free")
      PROVE  /\ block'[cons[d].b].at = "used" /\ block'[cons[d].b].slots = FreshSlots
             /\ \A p \in Producers : \A e \in DOMAIN entries'[p] : entries'[p][e].value # cons[d].b
  BY <1>2 DEF Leaves
<1>3. cons[d].at \in {"unlink", "free"} => block'[cons[d].b].emptied = BLOCK_SIZE
  BY DEF Leaves
<1> QED BY <1>1, <1>2, <1>3 DEF Leaves, At

\* The blocks of those who have not given theirs back.
LEMMA LeaverBlock ==
    ASSUME TypeInv, Keeping, Leaving, NEW d \in Consumers, cons[d].at \in Gone
    PROVE  /\ cons[d] \in Going /\ cons[d].p \in Producers /\ cons[d].b \in Blocks
           /\ block[cons[d].b].at = "used"
           /\ cons[d].at \in {"empty", "unlink"} =>
                  /\ cons[d].entry \in DOMAIN entries[cons[d].p]
                  /\ entries[cons[d].p][cons[d].entry].value = cons[d].b
                  /\ Kept(cons[d].p, cons[d].entry)
<1>1. cons[d] \in Going
  BY Consumer DEF Gone
<1>2. cons[d].p \in Producers /\ cons[d].b \in Blocks /\ cons[d].b # Null
  BY <1>1 DEF Going, Blocks, Null
<1>3. CASE cons[d].at \in {"empty", "unlink"}
  <2>1. /\ cons[d].entry \in DOMAIN entries[cons[d].p]
        /\ entries[cons[d].p][cons[d].entry].value = cons[d].b
    BY <1>3 DEF Leaving, Leaves
  <2>2. Kept(cons[d].p, cons[d].entry)
    BY <1>2, <2>1 DEF Keeping
  <2> QED BY <1>1, <1>2, <2>1, <2>2 DEF Kept
<1>4. CASE cons[d].at = "free"
  BY <1>1, <1>2, <1>4 DEF Leaving, Leaves, At
<1> QED BY <1>3, <1>4 DEF Gone
-----------------------------------------------------------------------------
(* EnqueueInBlock and FillBlock                                            *)

\* The entry at the tail, where there is a block to enqueue in.
LEMMA NewestEntry ==
    ASSUME QueueAssumption, TypeInv, Rings, NEW p \in Producers, prod[p].at = "idle",
           ~ AtStart(tail[p]), NEW e, e = Current(p).index[Current(p).tail],
           entries[p][e].value # Null
    PROVE  entries[p][e].key = Base(tail[p])
<1> DEFINE hs == headers[p]
           es == entries[p]
           n == tail[p]
           now == Last(hs)
           m == Size(now)
<1>1. /\ Ring(hs, es, n, "idle") /\ hs \in Seq(Header) /\ es \in Seq(Entry) /\ n \in Nat
      /\ Current(p) = now /\ Headers(hs, es)
  BY IndexOf DEF Rings
<1>2. m \in Nat \ {0} /\ now.tail \in 1 .. m /\ Size(now) = m /\ DOMAIN now.index = 1 .. m
  BY <1>1, LastHeader
<1>3. Behind(now, now.tail) = 0
  <2> HIDE DEF now, m
  <2> QED BY <1>2, BehindIs
<1>4. es[e].key = Newest(n, "idle") - BLOCK_SIZE * Behind(now, now.tail)
  <2>1. Keyed(hs, es, n, "idle")
    BY <1>1 DEF Ring
  <2>2. now.tail \in DOMAIN Last(hs).index
    BY <1>2
  <2> QED BY <1>1, <2>1, <2>2 DEF Keyed
<1>5. Newest(n, "idle") = Base(n) /\ Base(n) \in Nat
  BY <1>1, NewestIs, BaseIs
<1>6. BLOCK_SIZE * 0 = 0
  BY BlockSize
<1> HIDE DEF n, es
<1>7. es[e].key = Base(n)
  BY <1>3, <1>4, <1>5, <1>6
<1> QED BY <1>7 DEF n, es

LEMMA ProducerBuild ==
    ASSUME QueueAssumption, TypeInv, Rings, AllCounts, Accounted, NEW p \in Producers, Enqueue(p),
           EnqueueInBlock(p)
    PROVE  Accounted'
<1>0. PICK n, e, b, k, base : /\ n = tail[p] /\ e = Current(p).index[Current(p).tail]
                              /\ b = entries[p][e].value /\ k = n % BLOCK_SIZE /\ base = Base(n)
  OBVIOUS
<1>1. /\ cons' = cons /\ SameMoved /\ \A q \in Producers : Grows(q)
  BY ProducerGrows DEF Accounted
<1>2. /\ prod[p].at = "idle" /\ ~ AtStart(n)
      /\ e \in DOMAIN entries[p] /\ b \in Blocks /\ k \in Slots
      /\ Filling(b, k, Item(p), block[b].emptied, block[b].at)
      /\ prod'[p].at = "publish" /\ \A q \in Producers \ {p} : prod'[q] = prod[q]
  BY <1>0, BuildIs DEF Rings
<1>3. entries' = entries /\ tail' = tail /\ pooled' = pooled
  BY DEF EnqueueInBlock, counters
<1>4. n \in Nat /\ Item(p) = <<p, n + 1>>
  BY <1>0, ItemIs DEF TypeInv
<1>5. b # Null
  <2>1. b \in Blocks
    BY <1>2
  <2> QED BY <2>1 DEF Blocks, Null
<1>6. entries[p][e].key = base
  BY <1>0, <1>2, <1>5, NewestEntry
<1>7. base \in Nat /\ base + k = n
  BY <1>0, <1>4, BaseIs
<1>8. Built(p) = n /\ Built(p)' = n + 1 /\ \A q \in Producers \ {p} : Built(q)' = Built(q)
  BY <1>0, <1>2, <1>3 DEF Built
<1>9. \A q \in Producers : Filled(tail'[q], prod'[q].at) = Filled(tail[q], prod[q].at)
  <2>1. Filled(n, "idle") = Filled(n, "publish")
    BY <1>2 DEF Filled
  <2> QED BY <1>0, <1>2, <1>3, <2>1
<1>10. ASSUME NEW q \in Producers PROVE Present(q)'
  <2>1. \A i \in Nat : Moved(q, i) => Moved(q, i)'
    BY <1>1 DEF SameMoved
  <2> QED BY <1>1, <1>9, <2>1, PresentSame DEF Accounted
<1>11. Kept(p, e)
  BY <1>0, <1>2, <1>5 DEF Accounted, Keeping
<1>12. /\ \A x \in Blocks \ {b} : block'[x] = block[x]
       /\ block'[b].emptied = block[b].emptied /\ block'[b].at = block[b].at
       /\ \A j \in Slots : block'[b].slots[j] = IF j = k THEN <<p, n + 1>> ELSE block[b].slots[j]
  BY <1>2, <1>4 DEF Filling
<1>13. ASSUME NEW q \in Producers, NEW f \in DOMAIN entries[q], entries[q][f].value # Null
       PROVE  Kept(q, f)'
  <2>1. PICK key \in Nat : key = entries[q][f].key
    BY <1>13, Leads
  <2>2. /\ \A j \in Slots : key + j \in Nat /\ Base(key + j) = key
        /\ \A g \in DOMAIN entries[q] : entries[q][g].value # Null /\ entries[q][g].key = key => g = f
    BY <1>13, <2>1, Leads
  <2>3. \A j \in Slots : Moved(q, key + j)' <=> Moved(q, key + j)
    BY <1>1, <2>2 DEF SameMoved
  <2>4. CASE q = p /\ f = e
    <3>1. key = base
      BY <1>6, <2>1, <2>4
    <3>2. entries'[p][e].key = base /\ entries'[p][e].value = b
      BY <1>0, <1>3, <1>6
    <3>3. \A j \in Slots : block[b].slots[j] = IF base + j < n /\ ~ Moved(p, base + j)
                                               THEN <<p, base + j + 1>> ELSE Empty
      BY <1>0, <1>6, <1>8, <1>11 DEF Kept
    <3>4. block[b].at = "used"
          /\ block[b].emptied + Cardinality(Users(b, {"empty"})) + Cardinality(Left(p, base)) = BLOCK_SIZE
      BY <1>0, <1>6, <1>11 DEF Kept
    <3>5. ASSUME NEW j \in Slots
          PROVE  block'[b].slots[j] = IF base + j < n + 1 /\ ~ Moved(p, base + j)'
                                      THEN <<p, base + j + 1>> ELSE Empty
      <4>1. base + j \in Nat /\ (Moved(p, base + j)' <=> Moved(p, base + j))
        BY <2>2, <2>3, <2>4, <3>1
      <4>2. CASE j = k
        <5>1. ~ Moved(p, n)
          BY <1>0, <1>4, MovedIs
        <5>2. base + j = n /\ n < n + 1
          BY <1>4, <1>7, <4>2
        <5> QED BY <1>12, <4>1, <4>2, <5>1, <5>2
      <4>3. CASE j # k
        <5>1. base + j # n
          BY <1>2, <1>7, <4>3 DEF Slots
        <5>2. base + j < n + 1 <=> base + j < n
          BY <1>4, <4>1, <5>1
        <5> QED BY <1>12, <3>3, <4>1, <4>3, <5>2
      <4> QED BY <4>2, <4>3
    <3>6. Users(b, {"empty"})' = Users(b, {"empty"})
      BY <1>1 DEF Users
    <3>7. Left(p, base)' = Left(p, base)
      BY <2>3, <2>4, <3>1 DEF Left
    <3>8. block'[b].emptied + Cardinality(Users(b, {"empty"})') + Cardinality(Left(p, base)') = BLOCK_SIZE
      BY <1>12, <3>4, <3>6, <3>7
    <3>9. block'[b].at = "used"
      BY <1>12, <3>4
    <3>10. \A j \in Slots : block'[b].slots[j] = IF base + j < Built(p)' /\ ~ Moved(p, base + j)'
                                                 THEN <<p, base + j + 1>> ELSE Empty
      BY <1>8, <3>5
    <3>11. Kept(p, e)'
      BY <3>2, <3>8, <3>9, <3>10, KeptIs
    <3> QED BY <2>4, <3>11
  <2>5. CASE ~ (q = p /\ f = e)
    <3>1. entries[q][f].value # b
      BY <1>0, <1>2, <1>13, <2>5 DEF Accounted, Keeping
    <3>2. \A j \in Slots : key + j < Built(q)' <=> key + j < Built(q)
      <4>1. CASE q # p
        BY <1>8, <4>1
      <4>2. CASE q = p
        <5>1. key # base
          BY <1>0, <1>2, <1>5, <1>6, <2>2, <2>5, <4>2
        <5>2. ASSUME NEW j \in Slots PROVE key + j < n + 1 <=> key + j < n
          <6>1. key + j \in Nat /\ Base(key + j) = key
            BY <2>2
          <6>2. key + j # n
            BY <1>0, <5>1, <6>1
          <6> QED BY <1>4, <6>1, <6>2
        <5> QED BY <1>8, <4>2, <5>2
      <4> QED BY <4>1, <4>2
    <3>3. entries'[q][f] = entries[q][f]
      BY <1>3
    <3> QED BY <1>1, <1>12, <1>13, <2>1, <2>3, <3>1, <3>2, <3>3, KeptApart DEF Accounted
  <2> QED BY <2>4, <2>5
<1>14. Keeping'
  BY <1>3, <1>13 DEF Accounted, Keeping
<1>15. Leaving'
  <2>1. ASSUME NEW d \in Consumers PROVE Leaves(d)'
    <3>1. Leaves(d) /\ cons'[d] = cons[d]
      BY <1>1 DEF Accounted, Leaving
    <3>2. cons[d].at \in {"unlink", "free"} => block'[cons[d].b].emptied = block[cons[d].b].emptied
      <4>1. cons[d].at \in {"unlink", "free"} => cons[d].b \in Blocks
        BY LeaverBlock DEF Accounted, Gone
      <4> QED BY <1>12, <4>1
    <3>3. At(d, "free") => block'[cons[d].b] = block[cons[d].b]
      <4>1. At(d, "free") => cons[d].b \in Blocks /\ cons[d].b # b
        BY <1>0, <1>2, <3>1, LeaverBlock DEF Accounted, Gone, Leaves, At
      <4> QED BY <1>12, <4>1
    <3> QED BY <1>3, <3>1, <3>2, <3>3, LeavesApart
  <2> QED BY <1>1, <2>1 DEF Accounted, Leaving
<1>16. Returned'
  <2>1. block[b].at = "used"
    BY <1>0, <1>11 DEF Kept
  <2>2. ASSUME NEW x \in Blocks
        PROVE  /\ block'[x].at # "used" => block'[x].slots = FreshSlots
               /\ block'[x].at = "used" /\ block'[x].emptied = BLOCK_SIZE => Users(x, {"unlink", "free"})' # {}
               /\ x \in pooled' + 1 .. PoolSize => block'[x].at = "pool"
    <3>1. block'[x].at = block[x].at /\ block'[x].emptied = block[x].emptied
          /\ (block[x].at # "used" => block'[x] = block[x])
      BY <1>12, <2>1
    <3>2. Users(x, {"unlink", "free"})' = Users(x, {"unlink", "free"})
      BY <1>1 DEF Users
    <3> QED BY <1>3, <3>1, <3>2 DEF Accounted, Returned
  <2> QED BY <2>2 DEF Returned
<1> QED BY <1>10, <1>14, <1>15, <1>16 DEF Accounted

LEMMA SlotsCard ==
    ASSUME QueueAssumption
    PROVE  IsFiniteSet(Slots) /\ Cardinality(Slots) = BLOCK_SIZE
<1>1. BLOCK_SIZE \in Nat /\ 0 \in Int /\ BLOCK_SIZE - 1 \in Int /\ BLOCK_SIZE > 1
  BY BlockSize
<1>2. /\ IsFiniteSet(0 .. BLOCK_SIZE - 1)
      /\ Cardinality(0 .. BLOCK_SIZE - 1) = IF 0 > BLOCK_SIZE - 1 THEN 0 ELSE (BLOCK_SIZE - 1) - 0 + 1
  BY <1>1, FS_Interval
<1>3. ~ (0 > BLOCK_SIZE - 1) /\ (BLOCK_SIZE - 1) - 0 + 1 = BLOCK_SIZE
  BY <1>1
<1> QED BY <1>2, <1>3 DEF Slots

LEMMA ProducerFill ==
    ASSUME QueueAssumption, TypeInv, Rings, AllCounts, Accounted, NEW p \in Producers, Enqueue(p),
           FillBlock(p)
    PROVE  Accounted'
<1>0. PICK n, e : n = tail[p] /\ e = Current(p).index[Current(p).tail]
  OBVIOUS
<1>1. /\ cons' = cons /\ SameMoved /\ \A q \in Producers : Grows(q)
  BY ProducerGrows DEF Accounted
<1>2. /\ prod[p].at = "block" /\ e \in DOMAIN entries[p]
      /\ \E b \in Blocks :
             /\ block[b].at # "used"
             /\ Changed(entries[p], entries'[p], e, entries[p][e].key, b)
             /\ Filling(b, 0, Item(p), 0, "used")
             /\ \A c \in pooled' + 1 .. PoolSize : c # b /\ c \in pooled + 1 .. PoolSize
      /\ prod'[p].at = "publish"
      /\ \A q \in Producers \ {p} : entries'[q] = entries[q] /\ prod'[q] = prod[q]
  BY <1>0, FillIs DEF Rings, Accounted
<1>3. PICK b \in Blocks :
          /\ block[b].at # "used"
          /\ Changed(entries[p], entries'[p], e, entries[p][e].key, b)
          /\ Filling(b, 0, Item(p), 0, "used")
          /\ \A c \in pooled' + 1 .. PoolSize : c # b /\ c \in pooled + 1 .. PoolSize
  BY <1>2
<1>4. tail' = tail
  BY DEF FillBlock, counters
<1>5. n \in Nat /\ Item(p) = <<p, n + 1>>
  BY <1>0, ItemIs DEF TypeInv
<1>6. entries[p][e].key = n /\ entries[p][e].value = Null /\ AtStart(n)
  <2>1. e = Last(headers[p]).index[Last(headers[p]).tail] /\ Ring(headers[p], entries[p], n, "block")
    BY <1>0, <1>2, IndexOf DEF Rings
  <2> QED BY <2>1 DEF Ring, Linked
<1>7. Base(n) = n
  BY <1>5, <1>6, BaseIs
<1>8. /\ DOMAIN entries'[p] = DOMAIN entries[p]
      /\ entries'[p][e].key = n /\ entries'[p][e].value = b
      /\ \A f \in DOMAIN entries[p] \ {e} : entries'[p][f] = entries[p][f]
  BY <1>3, <1>6 DEF Changed
<1>9. Built(p) = n /\ Built(p)' = n + 1 /\ \A q \in Producers \ {p} : Built(q)' = Built(q)
  BY <1>0, <1>2, <1>4 DEF Built
<1>10. Filled(tail[p], prod[p].at) = n /\ Filled(tail'[p], prod'[p].at) = n + BLOCK_SIZE
  <2>1. Filled(n, "block") = n /\ Filled(n, "publish") = n + BLOCK_SIZE
    BY <1>5, <1>6, <1>7, NewestIs
  <2> QED BY <1>0, <1>2, <1>4, <2>1
<1>11. /\ \A x \in Blocks \ {b} : block'[x] = block[x]
       /\ block'[b].emptied = 0 /\ block'[b].at = "used"
       /\ \A j \in Slots : block'[b].slots[j] = IF j = 0 THEN <<p, n + 1>> ELSE block[b].slots[j]
  BY <1>3, <1>5 DEF Filling
<1>12. BLOCK_SIZE \in Nat /\ BLOCK_SIZE > 1 /\ b # Null
  BY BlockSize DEF Blocks, Null
<1>13. \A q \in Producers : \A f \in DOMAIN entries[q] : entries[q][f].value # Null =>
           entries[q][f].value # b
  BY <1>3 DEF Accounted, Keeping, Kept
<1>14. ASSUME NEW q \in Producers, NEW f \in DOMAIN entries[q], entries[q][f].value # Null
       PROVE  f \in DOMAIN entries'[q] /\ entries'[q][f] = entries[q][f]
  <2>1. CASE q = p
    BY <1>6, <1>8, <1>14, <2>1
  <2>2. CASE q # p
    BY <1>2, <1>14, <2>2
  <2> QED BY <2>1, <2>2
<1>15. ASSUME NEW q \in Producers, NEW f \in DOMAIN entries'[q], entries'[q][f].value # Null
       PROVE  \/ q = p /\ f = e
              \/ f \in DOMAIN entries[q] /\ entries[q][f].value # Null /\ entries'[q][f] = entries[q][f]
  <2>1. CASE q = p
    BY <1>8, <1>15, <2>1
  <2>2. CASE q # p
    BY <1>2, <1>15, <2>2
  <2> QED BY <2>1, <2>2
<1>16. ASSUME NEW q \in Producers PROVE Present(q)'
  <2>1. CASE q = p
    <3> SUFFICES ASSUME NEW i \in 0 .. Filled(tail'[p], prod'[p].at) - 1, ~ Moved(p, i)'
                 PROVE  \E f \in DOMAIN entries'[p] : Holds(entries'[p][f], Base(i))
      BY <2>1 DEF Present
    <3>1. i \in 0 .. (n + BLOCK_SIZE) - 1 /\ i \in Nat
      BY <1>10
    <3>2. ~ Moved(p, i)
      BY <1>1, <3>1 DEF SameMoved
    <3>3. CASE i < n
      <4>1. i \in 0 .. Filled(tail[p], prod[p].at) - 1
        BY <1>5, <1>10, <3>1, <3>3
      <4>2. PICK f \in DOMAIN entries[p] : Holds(entries[p][f], Base(i))
        BY <3>2, <4>1 DEF Accounted, Present
      <4> QED BY <1>14, <4>2 DEF Holds
    <3>4. CASE ~ (i < n)
      <4>1. PICK j \in Slots : i = n + j
        <5>1. i - n \in Slots /\ i = n + (i - n)
          BY <1>5, <1>12, <3>1, <3>4 DEF Slots
        <5> QED BY <5>1
      <4>2. Base(i) = n
        BY <1>5, <1>6, <4>1, BaseAt DEF AtStart, Multiple
      <4> QED BY <1>2, <1>8, <1>12, <4>2 DEF Holds
    <3> QED BY <3>3, <3>4
  <2>2. CASE q # p
    <3>1. \A i \in Nat : Moved(q, i) => Moved(q, i)'
      BY <1>1 DEF SameMoved
    <3>2. Filled(tail'[q], prod'[q].at) = Filled(tail[q], prod[q].at)
      BY <1>2, <1>4, <2>2
    <3> QED BY <1>1, <3>1, <3>2, PresentSame DEF Accounted
  <2> QED BY <2>1, <2>2
<1>17. Kept(p, e)'
  <2>1. block[b].slots = FreshSlots
    BY <1>3 DEF Accounted, Returned
  <2>2. \A j \in Slots : n + j \in Nat /\ ~ Moved(p, n + j)
    <3> TAKE j \in Slots
    <3>1. n + j \in Nat /\ ~ (n + j < n)
      BY <1>5 DEF Slots
    <3> QED BY <1>0, <3>1, MovedIs
  <2>3. \A j \in Slots : ~ Moved(p, n + j)'
    BY <1>1, <2>2 DEF SameMoved
  <2>4. ASSUME NEW j \in Slots
        PROVE  block'[b].slots[j] = IF n + j < Built(p)' /\ ~ Moved(p, n + j)'
                                    THEN <<p, n + j + 1>> ELSE Empty
    <3>1. CASE j = 0
      <4>1. n + j = n /\ n + j < n + 1
        BY <1>5, <3>1
      <4> QED BY <1>9, <1>11, <2>3, <3>1, <4>1
    <3>2. CASE j # 0
      <4>1. ~ (n + j < n + 1)
        BY <1>5, <3>2 DEF Slots
      <4>2. block[b].slots[j] = Empty
        BY <2>1 DEF FreshSlots, Slots
      <4> QED BY <1>9, <1>11, <3>2, <4>1, <4>2
    <3> QED BY <3>1, <3>2
  <2>5. Users(b, {"empty"})' = {}
    <3>1. ASSUME NEW d \in Consumers, cons[d].at = "empty" PROVE cons[d].b # b
      BY <1>3, <3>1, LeaverBlock DEF Accounted, Gone
    <3> QED BY <1>1, <3>1 DEF Users
  <2>6. Left(p, n)' = Slots
    BY <2>3 DEF Left
  <2>7. block'[b].emptied + Cardinality(Users(b, {"empty"})') + Cardinality(Left(p, n)') = BLOCK_SIZE
    <3>1. Cardinality({}) = 0
      BY FS_EmptySet
    <3> QED BY <1>11, <1>12, <2>5, <2>6, <3>1, SlotsCard
  <2> QED BY <1>8, <1>11, <2>4, <2>7, KeptIs
<1>18. ASSUME NEW q \in Producers, NEW f \in DOMAIN entries[q], entries[q][f].value # Null
       PROVE  Kept(q, f)'
  <2>1. PICK key \in Nat : key = entries[q][f].key
    BY <1>18, Leads
  <2>2. \A j \in Slots : key + j \in Nat /\ key + j < Filled(tail[q], prod[q].at)
    BY <1>18, <2>1, Leads
  <2>3. \A j \in Slots : Moved(q, key + j)' <=> Moved(q, key + j)
    BY <1>1, <2>2 DEF SameMoved
  <2>4. ASSUME NEW j \in Slots PROVE key + j < Built(q)' <=> key + j < Built(q)
    <3>1. CASE q # p
      BY <1>9, <3>1
    <3>2. CASE q = p
      <4>1. key + j \in Nat /\ key + j < n
        BY <1>10, <2>2, <3>2
      <4>2. key + j < n + 1
        BY <1>5, <4>1
      <4> QED BY <1>9, <3>2, <4>1, <4>2
    <3> QED BY <3>1, <3>2
  <2>5. entries'[q][f] = entries[q][f] /\ entries[q][f].value # b
    BY <1>13, <1>14, <1>18
  <2> QED BY <1>1, <1>11, <1>18, <2>1, <2>3, <2>4, <2>5, KeptApart DEF Accounted
<1>19. Keeping'
  <2>1. ASSUME NEW q \in Producers, NEW f \in DOMAIN entries'[q], entries'[q][f].value # Null
        PROVE  Kept(q, f)'
    BY <1>15, <1>17, <1>18, <2>1
  <2>2. ASSUME NEW q \in Producers, NEW r \in Producers,
               NEW f \in DOMAIN entries'[q], NEW g \in DOMAIN entries'[r],
               entries'[q][f].value # Null, entries'[q][f].value = entries'[r][g].value
        PROVE  q = r /\ f = g
    <3>1. \/ q = p /\ f = e
          \/ f \in DOMAIN entries[q] /\ entries[q][f].value # Null /\ entries'[q][f] = entries[q][f]
      BY <1>15, <2>2
    <3>2. \/ r = p /\ g = e
          \/ g \in DOMAIN entries[r] /\ entries[r][g].value # Null /\ entries'[r][g] = entries[r][g]
      BY <1>15, <2>2
    <3>3. CASE q = p /\ f = e
      BY <1>8, <1>13, <2>2, <3>2, <3>3
    <3>4. CASE r = p /\ g = e
      BY <1>8, <1>13, <2>2, <3>1, <3>4
    <3> QED BY <2>2, <3>1, <3>2, <3>3, <3>4 DEF Accounted, Keeping
  <2> QED BY <2>1, <2>2 DEF Keeping
<1>20. Leaving'
  <2>1. ASSUME NEW d \in Consumers PROVE Leaves(d)'
    <3>1. Leaves(d) /\ cons'[d] = cons[d]
      BY <1>1 DEF Accounted, Leaving
    <3>2. cons[d].at \in Gone => cons[d].b \in Blocks /\ cons[d].b # b /\ cons[d].b # Null
      BY <1>3, LeaverBlock DEF Accounted, Blocks, Null
    <3>3. cons[d].at \in {"unlink", "free"} => block'[cons[d].b].emptied = block[cons[d].b].emptied
      BY <1>11, <3>2 DEF Gone
    <3>4. At(d, "free") => block'[cons[d].b] = block[cons[d].b]
      BY <1>11, <3>2 DEF Gone, At
    <3>5. cons[d].at \in {"empty", "unlink"} =>
              \A q \in Producers : \A f \in DOMAIN entries[q] :
                  entries[q][f].value = cons[d].b =>
                      f \in DOMAIN entries'[q] /\ entries'[q][f] = entries[q][f]
      BY <1>14, <3>2 DEF Gone
    <3>6. At(d, "free") =>
              \A q \in Producers : \A f \in DOMAIN entries'[q] :
                  entries'[q][f].value = cons[d].b =>
                      f \in DOMAIN entries[q] /\ entries'[q][f] = entries[q][f]
      BY <1>8, <1>15, <3>2 DEF Gone, At
    <3> QED BY <3>1, <3>3, <3>4, <3>5, <3>6, LeavesApart
  <2> QED BY <1>1, <2>1 DEF Accounted, Leaving
<1>21. Returned'
  <2>1. ASSUME NEW x \in Blocks
        PROVE  /\ block'[x].at # "used" => block'[x].slots = FreshSlots
               /\ block'[x].at = "used" /\ block'[x].emptied = BLOCK_SIZE => Users(x, {"unlink", "free"})' # {}
               /\ x \in pooled' + 1 .. PoolSize => block'[x].at = "pool"
    <3>1. Users(x, {"unlink", "free"})' = Users(x, {"unlink", "free"})
      BY <1>1 DEF Users
    <3>2. CASE x = b
      BY <1>3, <1>11, <1>12, <3>2
    <3>3. CASE x # b
      <4>1. block'[x] = block[x]
        BY <1>11, <3>3
      <4> QED BY <1>3, <3>1, <4>1 DEF Accounted, Returned
    <3> QED BY <3>2, <3>3
  <2> QED BY <2>1 DEF Returned
<1> QED BY <1>16, <1>19, <1>20, <1>21 DEF Accounted
-----------------------------------------------------------------------------
(* The claims, after a step of a consumer                                  *)

\* What each step but Move does to the elements and to the blocks.
LEMMA ConsumerSame ==
    ASSUME QueueAssumption, TypeInv, Rings, \A d \in Consumers : Chosen(d), Finding, Leaving,
           NEW c \in Consumers, TryDequeue(c), ~ Take(c), ~ Move(c)
    PROVE  Steps(c) /\ SameClaims /\ SameMoved /\ head' = head /\ got' = got
<1>1. head' = head /\ got' = got
  BY DEF TryDequeue, Start, Scan, Choose, LoadTail, Guess, Bump, Recheck, Undo, Locate, Find,
         SetEmpty, Unlink, Free, counters
<1> DEFINE Far == {"idle", "scan", "check", "guess", "bump", "recheck", "take", "undo",
                   "empty", "unlink", "free"}
<1>2. /\ Steps(c)
      /\ \/ cons[c].at \in Far /\ cons'[c].at \in Far
         \/ /\ cons[c].at \in {"locate", "find"} /\ cons'[c].at \in {"find", "move"}
            /\ cons'[c].p = cons[c].p /\ cons'[c].i = cons[c].i
  <2>1. CASE Start(c)
    BY <2>1, StartIs DEF At
  <2>2. CASE Scan(c)
    BY <2>2, ScanIs DEF At
  <2>3. CASE Choose(c)
    BY <2>3, ChooseIs DEF At
  <2>4. CASE LoadTail(c)
    BY <2>4, LoadTailIs DEF At
  <2>5. CASE Guess(c)
    BY <2>5, GuessIs DEF At
  <2>6. CASE Bump(c)
    BY <2>6, BumpIs DEF At
  <2>7. CASE Recheck(c)
    BY <2>7, RecheckIs DEF At
  <2>8. CASE Undo(c)
    BY <2>8, UndoIs DEF At
  <2>9. CASE Locate(c)
    <3>1. cons[c].p \in Producers
      BY <2>9, Consumer DEF Locate, At, Locating
    <3> QED BY <2>9, <3>1, LocateIs, TailNat DEF At
  <2>10. CASE Find(c)
    BY <2>10, FindIs DEF At, Rings
  <2>11. CASE SetEmpty(c)
    BY <2>11, SetEmptyIs DEF At
  <2>12. CASE Unlink(c)
    BY <2>12, UnlinkIs DEF At
  <2>13. CASE Free(c)
    BY <2>13, FreeIs DEF At
  <2> QED BY <2>1, <2>2, <2>3, <2>4, <2>5, <2>6, <2>7, <2>8, <2>9, <2>10, <2>11, <2>12, <2>13
          DEF TryDequeue
<1>3. SameClaims
  <2> SUFFICES ASSUME NEW d \in Consumers, NEW q \in Producers, NEW i \in Nat
               PROVE  Claims(d, q, i)' <=> Claims(d, q, i)
    BY DEF SameClaims
  <2>1. CASE d = c
    BY <1>2, <2>1 DEF Claims
  <2>2. CASE d # c
    <3>1. cons'[d] = cons[d]
      BY <1>2, <2>2 DEF Steps
    <3> QED BY <3>1 DEF Claims
  <2> QED BY <2>1, <2>2
<1>4. SameMoved
  BY <1>1, <1>3 DEF SameMoved, SameClaims, Moved
<1> QED BY <1>1, <1>2, <1>3, <1>4

\* Take: nothing is moved out yet.
LEMMA TakeSame ==
    ASSUME QueueAssumption, TypeInv, NEW c \in Consumers, Take(c)
    PROVE  SameMoved
<1> SUFFICES ASSUME NEW q \in Producers, NEW i \in Nat PROVE Moved(q, i)' <=> Moved(q, i)
  BY DEF SameMoved
<1>0. PICK p, n : p = cons[c].p /\ n = head[p]
  OBVIOUS
<1>1. /\ p \in Producers /\ At(c, "take") /\ Steps(c) /\ n = head[p] /\ n \in Nat
      /\ cons'[c].at = "locate" /\ cons'[c].p = p /\ cons'[c].i = n
      /\ head'[p] = n + 1 /\ \A r \in Producers \ {p} : head'[r] = head[r]
  <2>1. /\ p \in Producers /\ At(c, "take") /\ Steps(c)
        /\ cons'[c].at = "locate" /\ cons'[c].p = p /\ cons'[c].i = n
        /\ head'[p] = n + 1 /\ \A r \in Producers \ {p} : head'[r] = head[r]
    BY <1>0, TakeIs
  <2>2. n \in Nat
    BY <1>0, <2>1 DEF TypeInv
  <2> QED BY <1>0, <2>1, <2>2
<1>2. \A d \in Consumers \ {c} : Claims(d, q, i)' <=> Claims(d, q, i)
  BY <1>1 DEF Steps, Claims
<1>3. ~ Claims(c, q, i) /\ (Claims(c, q, i)' <=> q = p /\ i = n)
  BY <1>1 DEF At, Claims
<1>4. CASE q # p
  BY <1>1, <1>2, <1>3, <1>4 DEF Moved
<1>5. CASE q = p /\ i = n
  <2>1. ~ Moved(q, i)
    BY <1>1, <1>5 DEF Moved
  <2>2. ~ Moved(q, i)'
    BY <1>3, <1>5 DEF Moved
  <2> QED BY <2>1, <2>2
<1>6. CASE q = p /\ i # n
  <2>1. i < n + 1 <=> i < n
    BY <1>1, <1>6
  <2> QED BY <1>1, <1>2, <1>3, <1>6, <2>1 DEF Moved
<1> QED BY <1>4, <1>5, <1>6

\* Take: the one that takes it claims the next element, which no one else does.
LEMMA TakeTaking ==
    ASSUME QueueAssumption, TypeInv, Taking, Taken, NEW c \in Consumers, Take(c)
    PROVE  Taking' /\ Taken'
<1>0. PICK p, n : p = cons[c].p /\ n = head[p]
  OBVIOUS
<1>1. /\ p \in Producers /\ At(c, "take") /\ Steps(c) /\ n = head[p] /\ n \in Nat
      /\ cons'[c].at = "locate" /\ cons'[c].p = p /\ cons'[c].i = n
      /\ head'[p] = n + 1 /\ \A r \in Producers \ {p} : head'[r] = head[r]
  <2>1. /\ p \in Producers /\ At(c, "take") /\ Steps(c)
        /\ cons'[c].at = "locate" /\ cons'[c].p = p /\ cons'[c].i = n
        /\ head'[p] = n + 1 /\ \A r \in Producers \ {p} : head'[r] = head[r]
    BY <1>0, TakeIs
  <2>2. n \in Nat
    BY <1>0, <2>1 DEF TypeInv
  <2> QED BY <1>0, <2>1, <2>2
<1>2. \A d \in Consumers \ {c}, q \in Producers, i \in Nat : Claims(d, q, i)' <=> Claims(d, q, i)
  BY <1>1 DEF Steps, Claims
<1>3. \A q \in Producers, i \in Nat : Claims(c, q, i)' <=> q = p /\ i = n
  BY <1>1 DEF At, Claims
<1>4. got' = got
  BY DEF Take
<1>5. Taking'
  <2> SUFFICES ASSUME NEW d \in Consumers, NEW f \in Consumers, NEW q \in Producers, NEW i \in Nat,
                      Claims(d, q, i)'
               PROVE  i < head'[q] /\ (Claims(f, q, i)' => d = f)
    BY DEF Taking
  <2>1. ASSUME NEW g \in Consumers \ {c}, Claims(g, q, i)' PROVE i < head[q] /\ Claims(g, q, i)
    <3>1. Claims(g, q, i)
      BY <1>2, <2>1
    <3> QED BY <3>1 DEF Taking
  <2>2. i < head'[q]
    <3>1. CASE d = c
      BY <1>1, <1>3, <3>1
    <3>2. CASE d # c
      <4>1. i < head[q]
        BY <2>1, <3>2
      <4>2. CASE q = p
        BY <1>1, <4>1, <4>2
      <4>3. CASE q # p
        BY <1>1, <4>1, <4>3
      <4> QED BY <4>2, <4>3
    <3> QED BY <3>1, <3>2
  <2>3. ASSUME Claims(f, q, i)' PROVE d = f
    <3>1. CASE d # c /\ f # c
      BY <2>1, <2>3, <3>1 DEF Taking
    <3>2. CASE (d = c /\ f # c) \/ (d # c /\ f = c)
      <4>1. q = p /\ i = n /\ i < head[q]
        BY <1>3, <2>1, <2>3, <3>2
      <4> QED BY <1>1, <4>1
    <3> QED BY <3>1, <3>2
  <2> QED BY <2>2, <2>3
<1>6. Taken'
  <2>1. ASSUME NEW d \in Consumers, NEW j \in DOMAIN got'[d]
        PROVE  /\ got'[d][j][1] \in Producers /\ got'[d][j][2] > 0
               /\ Moved(got[d][j][1], got[d][j][2] - 1)'
    <3>1. got[d][j][1] \in Producers /\ got[d][j][2] > 0 /\ Moved(got[d][j][1], got[d][j][2] - 1)
      BY <1>4, <2>1 DEF Taken
    <3>2. got[d][j] \in Nat \X Nat
      BY <1>4, <2>1 DEF TypeInv
    <3>3. PICK q \in Producers, i \in Nat : q = got[d][j][1] /\ i = got[d][j][2] - 1
      BY <3>1, <3>2
    <3>4. Moved(q, i)
      BY <3>1, <3>3
    <3>5. Moved(q, i)'
      BY <3>4, TakeSame DEF SameMoved
    <3>6. q = got'[d][j][1] /\ i = got'[d][j][2] - 1
      BY <1>4, <3>3
    <3> QED BY <1>4, <3>1, <3>5, <3>6 DEF Moved, Claims
  <2>2. ASSUME NEW d \in Consumers, NEW j \in DOMAIN got'[d], NEW q \in Producers, NEW i \in Nat,
               Claims(d, q, i)', got'[d][j][1] = q
        PROVE  got'[d][j][2] <= i
    <3>1. CASE d = c
      <4>1. q = p /\ i = n
        BY <1>3, <2>2, <3>1
      <4>2. got[d][j][2] > 0 /\ Moved(q, got[d][j][2] - 1) /\ got[d][j] \in Nat \X Nat
        BY <1>4, <2>2 DEF Taken, TypeInv
      <4>3. got[d][j][2] - 1 < n
        <5>1. PICK k : k = got[d][j][2] - 1
          OBVIOUS
        <5>2. Moved(q, k)
          BY <4>2, <5>1
        <5>3. k < head[q]
          BY <5>2 DEF Moved
        <5> QED BY <1>1, <4>1, <5>1, <5>3
      <4>4. got[d][j][2] \in Nat
        BY <4>2
      <4> QED BY <1>1, <1>4, <4>1, <4>3, <4>4
    <3>2. CASE d # c
      BY <1>2, <1>4, <2>2, <3>2 DEF Taken
    <3> QED BY <3>1, <3>2
  <2> QED BY <2>1, <2>2 DEF Taken
<1> QED BY <1>5, <1>6
-----------------------------------------------------------------------------
(* The blocks, after a step of a consumer                                  *)

\* What a consumer does to the index of a producer.
LEMMA ConsumerIndex ==
    ASSUME NEW c \in Consumers, TryDequeue(c), ~ Unlink(c)
    PROVE  /\ headers' = headers /\ entries' = entries /\ tail' = tail /\ prod' = prod /\ pooled' = pooled
           /\ \A p \in Producers : /\ Extends(p) /\ Grows(p) /\ Built(p)' = Built(p)
                                   /\ Filled(tail'[p], prod'[p].at) = Filled(tail[p], prod[p].at)
<1>1. headers' = headers /\ entries' = entries /\ tail' = tail /\ prod' = prod /\ pooled' = pooled
  BY DEF TryDequeue, Start, Scan, Choose, LoadTail, Guess, Bump, Recheck, Undo, Take, Locate, Find,
         Move, SetEmpty, Free, counters, memory
<1>2. \A p \in Producers : Extends(p)
  BY <1>1, SameIndex
<1> QED BY <1>1, <1>2 DEF Extends, Built

\* Until an element is moved out, nothing happens to the blocks.
LEMMA ConsumerQuiet ==
    ASSUME QueueAssumption, TypeInv, Rings, \A d \in Consumers : Chosen(d), Finding, Accounted,
           NEW c \in Consumers, TryDequeue(c),
           ~ Move(c), ~ SetEmpty(c), ~ Unlink(c), ~ Free(c)
    PROVE  Accounted'
<1>1. SameMoved
  BY ConsumerSame, TakeSame DEF Accounted
<1>2. block' = block
  BY DEF TryDequeue, Start, Scan, Choose, LoadTail, Guess, Bump, Recheck, Undo, Take, Locate, Find, memory
<1>3. /\ Steps(c) /\ cons[c].at \notin Gone /\ cons'[c].at \notin Gone
  <2>1. CASE Start(c)
    BY <2>1, StartIs DEF At, Gone
  <2>2. CASE Scan(c)
    BY <2>2, ScanIs DEF At, Gone
  <2>3. CASE Choose(c)
    BY <2>3, ChooseIs DEF At, Gone
  <2>4. CASE LoadTail(c)
    BY <2>4, LoadTailIs DEF At, Gone
  <2>5. CASE Guess(c)
    BY <2>5, GuessIs DEF At, Gone
  <2>6. CASE Bump(c)
    BY <2>6, BumpIs DEF At, Gone
  <2>7. CASE Recheck(c)
    BY <2>7, RecheckIs DEF At, Gone
  <2>8. CASE Undo(c)
    BY <2>8, UndoIs DEF At, Gone
  <2>9. CASE Take(c)
    BY <2>9, TakeIs DEF At, Gone
  <2>10. CASE Locate(c)
    <3>1. cons[c].p \in Producers
      BY <2>10, Consumer DEF Locate, At, Locating
    <3> QED BY <2>10, <3>1, LocateIs, TailNat DEF At, Gone
  <2>11. CASE Find(c)
    BY <2>11, FindIs DEF At, Rings, Gone
  <2> QED BY <2>1, <2>2, <2>3, <2>4, <2>5, <2>6, <2>7, <2>8, <2>9, <2>10, <2>11 DEF TryDequeue
<1>4. SameLeavers
  BY <1>3 DEF SameLeavers, Steps
<1>5. (\A p \in Producers : Present(p)') /\ Keeping' /\ Leaving' /\ Returned'
  BY <1>1, <1>2, <1>4, ConsumerIndex, Quiet DEF Accounted
<1> QED BY <1>5 DEF Accounted

\* One less to wait for.
LEMMA OneLess ==
    ASSUME NEW S, NEW x \in S, IsFiniteSet(S)
    PROVE  IsFiniteSet(S \ {x}) /\ Cardinality(S \ {x}) = Cardinality(S) - 1
           /\ Cardinality(S) \in Nat /\ Cardinality(S) > 0
<1>1. IsFiniteSet(S \ {x}) /\ Cardinality(S \ {x}) = IF x \in S THEN Cardinality(S) - 1 ELSE Cardinality(S)
  BY FS_RemoveElement
<1>2. Cardinality(S) \in Nat /\ Cardinality(S \ {x}) \in Nat
  BY <1>1, FS_CardinalityType
<1> QED BY <1>1, <1>2

LEMMA OneMore ==
    ASSUME NEW S, NEW x, x \notin S, IsFiniteSet(S)
    PROVE  IsFiniteSet(S \cup {x}) /\ Cardinality(S \cup {x}) = Cardinality(S) + 1
           /\ Cardinality(S) \in Nat
BY FS_AddElement, FS_CardinalityType

\* SetEmpty: the one that has moved an element out has left the block, and the last one
\* to leave will give it back.
LEMMA ConsumerSetEmpty ==
    ASSUME QueueAssumption, TypeInv, Rings, \A d \in Consumers : Chosen(d), Finding, Accounted,
           NEW c \in Consumers, TryDequeue(c), SetEmpty(c)
    PROVE  Accounted'
<1>0. PICK p, e, b, n : p = cons[c].p /\ e = cons[c].entry /\ b = cons[c].b /\ n = block[b].emptied
  OBVIOUS
<1>1. /\ At(c, "empty") /\ Steps(c) /\ p \in Producers /\ b \in Blocks
      /\ Recounted(b, n + 1, block[b].at)
      /\ \/ /\ n + 1 = BLOCK_SIZE
            /\ cons'[c].at = "unlink" /\ cons'[c].p = p
            /\ cons'[c].entry = e /\ cons'[c].b = b
         \/ n + 1 # BLOCK_SIZE /\ cons'[c].at = "idle"
  BY <1>0, SetEmptyIs
<1>2. ~ Take(c) /\ ~ Move(c) /\ ~ Unlink(c)
  BY <1>1 DEF At, Take, Move, Unlink
<1>3. SameMoved
  BY <1>2, ConsumerSame DEF Accounted
<1>4. /\ entries' = entries /\ pooled' = pooled
      /\ \A q \in Producers : /\ Grows(q) /\ Built(q)' = Built(q)
                              /\ Filled(tail'[q], prod'[q].at) = Filled(tail[q], prod[q].at)
  BY <1>2, ConsumerIndex
<1>5. /\ e \in DOMAIN entries[p] /\ entries[p][e].value = b /\ Kept(p, e) /\ block[b].at = "used"
      /\ b # Null
  BY <1>0, <1>1, LeaverBlock DEF Accounted, Gone, At, Blocks, Null
<1>6. /\ \A x \in Blocks \ {b} : block'[x] = block[x]
      /\ block'[b].slots = block[b].slots /\ block'[b].emptied = n + 1 /\ block'[b].at = block[b].at
  BY <1>1 DEF Recounted
<1>7. \A d \in Consumers \ {c} : cons'[d] = cons[d]
  BY <1>1 DEF Steps
<1>8. PICK base \in Nat : /\ base = entries[p][e].key
                          /\ \A j \in Slots : base + j \in Nat
  BY <1>1, <1>5, Leads
<1>9. n \in Nat /\ BLOCK_SIZE \in Nat
  BY <1>0, <1>1, BlockSize DEF TypeInv, Memory
<1> DEFINE U == Users(b, {"empty"})
<1>10. /\ Users(b, {"empty"})' = U \ {c} /\ c \in U
  BY <1>0, <1>1, <1>7 DEF Users, At
<1>11. n + Cardinality(U) + Cardinality(Left(p, base)) = BLOCK_SIZE
  BY <1>0, <1>5, <1>8 DEF Kept
<1>12. /\ Cardinality(U) \in Nat /\ Cardinality(U \ {c}) = Cardinality(U) - 1 /\ Cardinality(U) > 0
       /\ Cardinality(Left(p, base)) \in Nat
  <2>1. IsFiniteSet(U)
    BY Cards DEF Users
  <2>2. IsFiniteSet(Left(p, base)) /\ Cardinality(Left(p, base)) \in Nat
    <3>1. Left(p, base) \subseteq Slots
      BY DEF Left
    <3> QED BY <3>1, SlotsCard, FS_Subset, FS_CardinalityType
  <2> HIDE DEF U
  <2> QED BY <1>10, <2>1, <2>2, OneLess
<1>13. n < BLOCK_SIZE
  <2> HIDE DEF U
  <2> QED BY <1>9, <1>11, <1>12
<1>14. ASSUME NEW d \in Consumers, cons[d].at \in {"unlink", "free"}
       PROVE  cons[d].b # b /\ cons[d].b \in Blocks /\ d # c
  <2>1. block[cons[d].b].emptied = BLOCK_SIZE
    BY <1>14 DEF Accounted, Leaving, Leaves
  <2>2. cons[d].b \in Blocks
    BY <1>14, LeaverBlock DEF Accounted, Gone
  <2> QED BY <1>0, <1>1, <1>9, <1>13, <1>14, <2>1, <2>2 DEF At
<1>15. ASSUME NEW q \in Producers PROVE Present(q)'
  <2>1. \A i \in Nat : Moved(q, i) => Moved(q, i)'
    BY <1>3 DEF SameMoved
  <2> QED BY <1>4, <2>1, PresentSame DEF Accounted
<1>16. Kept(p, e)'
  <2>1. Left(p, base)' = Left(p, base)
    <3>1. \A j \in Slots : Moved(p, base + j)' <=> Moved(p, base + j)
      BY <1>1, <1>3, <1>8 DEF SameMoved
    <3> QED BY <3>1 DEF Left
  <2>2. block'[b].emptied + Cardinality(Users(b, {"empty"})') + Cardinality(Left(p, base)') = BLOCK_SIZE
    <3> HIDE DEF U
    <3>1. (n + 1) + (Cardinality(U) - 1) + Cardinality(Left(p, base)) = BLOCK_SIZE
      BY <1>9, <1>11, <1>12
    <3> QED BY <1>6, <1>10, <1>12, <2>1, <3>1
  <2>3. entries'[p][e].key = base /\ entries'[p][e].value = b /\ block'[b].at = "used"
    BY <1>4, <1>5, <1>6, <1>8
  <2>4. \A j \in Slots : block'[b].slots[j] = IF base + j < Built(p)' /\ ~ Moved(p, base + j)'
                                              THEN <<p, base + j + 1>> ELSE Empty
    <3> TAKE j \in Slots
    <3>1. block[b].slots[j] = IF base + j < Built(p) /\ ~ Moved(p, base + j)
                              THEN <<p, base + j + 1>> ELSE Empty
      BY <1>5, <1>8 DEF Kept
    <3>2. Moved(p, base + j)' <=> Moved(p, base + j)
      BY <1>1, <1>3, <1>8 DEF SameMoved
    <3> QED BY <1>1, <1>4, <1>6, <3>1, <3>2
  <2> QED BY <2>2, <2>3, <2>4, KeptIs
<1>17. ASSUME NEW q \in Producers, NEW f \in DOMAIN entries[q], entries[q][f].value # Null
       PROVE  Kept(q, f)'
  <2>1. CASE q = p /\ f = e
    BY <1>16, <2>1
  <2>2. CASE ~ (q = p /\ f = e)
    <3>1. PICK key \in Nat : key = entries[q][f].key /\ \A j \in Slots : key + j \in Nat
      BY <1>17, Leads
    <3>2. entries[q][f].value # b
      BY <1>1, <1>5, <1>17, <2>2 DEF Accounted, Keeping
    <3>3. \A j \in Slots : Moved(q, key + j)' <=> Moved(q, key + j)
      BY <1>3, <3>1 DEF SameMoved
    <3>4. entries'[q][f] = entries[q][f] /\ \A j \in Slots : key + j < Built(q)' <=> key + j < Built(q)
      BY <1>4
    <3>5. \A d \in Consumers :
              \/ cons'[d] = cons[d]
              \/ (At(d, "empty") => cons[d].b = b) /\ (At(d, "empty")' => cons'[d].b = b)
      BY <1>0, <1>1, <1>7 DEF At
    <3> QED BY <1>6, <1>17, <3>1, <3>2, <3>3, <3>4, <3>5, KeptApart DEF Accounted
  <2> QED BY <2>1, <2>2
<1>18. Keeping'
  BY <1>4, <1>17 DEF Accounted, Keeping
<1>19. Leaving'
  <2>1. ASSUME NEW d \in Consumers PROVE Leaves(d)'
    <3>1. CASE d = c
      <4>1. cons'[c].at = "unlink" => /\ cons'[c].p = p /\ cons'[c].entry = e /\ cons'[c].b = b
                                      /\ block'[b].emptied = BLOCK_SIZE
        BY <1>1, <1>6
      <4> QED BY <1>1, <1>4, <1>5, <3>1, <4>1 DEF Leaves, At
    <3>2. CASE d # c
      <4>1. Leaves(d) /\ cons'[d] = cons[d]
        BY <1>7, <3>2 DEF Accounted, Leaving
      <4>2. cons[d].at \in {"unlink", "free"} => block'[cons[d].b] = block[cons[d].b]
        BY <1>6, <1>14
      <4> QED BY <1>4, <4>1, <4>2, LeavesApart DEF At
    <3> QED BY <3>1, <3>2
  <2>2. ASSUME NEW d \in Consumers, NEW f \in Consumers,
               {cons'[d].at, cons'[f].at} \subseteq {"unlink", "free"}, cons'[d].b = cons'[f].b
        PROVE  d = f
    <3>1. CASE d # c /\ f # c
      BY <1>7, <2>2, <3>1 DEF Accounted, Leaving
    <3>2. CASE (d = c /\ f # c) \/ (d # c /\ f = c)
      BY <1>1, <1>7, <1>14, <2>2, <3>2
    <3> QED BY <3>1, <3>2
  <2> QED BY <2>1, <2>2 DEF Leaving
<1>20. Returned'
  <2>1. ASSUME NEW x \in Blocks
        PROVE  /\ block'[x].at # "used" => block'[x].slots = FreshSlots
               /\ block'[x].at = "used" /\ block'[x].emptied = BLOCK_SIZE => Users(x, {"unlink", "free"})' # {}
               /\ x \in pooled' + 1 .. PoolSize => block'[x].at = "pool"
    <3>1. CASE x = b
      <4>1. block'[x].emptied = BLOCK_SIZE => c \in Users(x, {"unlink", "free"})'
        BY <1>1, <1>6, <3>1 DEF Users
      <4>2. block'[x].at = "used"
        BY <1>5, <1>6, <3>1
      <4>3. x \notin pooled' + 1 .. PoolSize
        BY <1>1, <1>4, <1>5, <3>1 DEF Accounted, Returned
      <4> QED BY <4>1, <4>2, <4>3
    <3>2. CASE x # b
      <4>1. block'[x] = block[x]
        BY <1>6, <3>2
      <4>2. \A d \in Users(x, {"unlink", "free"}) : d \in Users(x, {"unlink", "free"})'
        BY <1>7, <1>14 DEF Users
      <4> QED BY <1>4, <4>1, <4>2 DEF Accounted, Returned
    <3> QED BY <3>1, <3>2
  <2> QED BY <2>1 DEF Returned
<1> QED BY <1>15, <1>18, <1>19, <1>20 DEF Accounted

\* Move: one element less in the block, and one more that has to leave it.
LEMMA ConsumerMove ==
    ASSUME QueueAssumption, TypeInv, Rings, AllCounts, Taking, Finding, Accounted,
           NEW c \in Consumers, TryDequeue(c), Move(c)
    PROVE  /\ Accounted'
           /\ LET p == cons[c].p
                  i == cons[c].i
              IN  /\ p \in Producers /\ i \in Nat /\ Claims(c, p, i) /\ Steps(c)
                  /\ cons'[c].at = "empty"
                  /\ \A q \in Producers, j \in Nat : Moved(q, j)' <=> Moved(q, j) \/ (q = p /\ j = i)
                  /\ got'[c] = Append(got[c], <<p, i + 1>>)
                  /\ \A d \in Consumers \ {c} : got'[d] = got[d]
<1>0. PICK p, e, b, i, k, base : /\ p = cons[c].p /\ e = cons[c].entry /\ b = entries[p][e].value
                                 /\ i = cons[c].i /\ k = i % BLOCK_SIZE /\ base = Base(i)
  OBVIOUS
<1>1. /\ At(c, "move") /\ Steps(c) /\ p \in Producers /\ i \in Nat
      /\ e \in DOMAIN entries[p] /\ Holds(entries[p][e], base) /\ b \in Blocks /\ k \in Slots
      /\ Filling(b, k, Empty, block[b].emptied, block[b].at)
      /\ got'[c] = Append(got[c], block[b].slots[k])
      /\ \A d \in Consumers \ {c} : got'[d] = got[d]
      /\ cons'[c].at = "empty" /\ cons'[c].p = p /\ cons'[c].entry = e /\ cons'[c].b = b
  BY <1>0, MoveIs
<1>2. ~ Unlink(c)
  BY <1>1 DEF At, Unlink
<1>3. /\ entries' = entries /\ pooled' = pooled
      /\ \A q \in Producers : /\ Grows(q) /\ Built(q)' = Built(q)
                              /\ Filled(tail'[q], prod'[q].at) = Filled(tail[q], prod[q].at)
  BY <1>2, ConsumerIndex
<1>4. head' = head
  BY DEF Move, counters
<1>5. Claims(c, p, i) /\ \A q \in Producers, j \in Nat : Claims(c, q, j) <=> q = p /\ j = i
  BY <1>0, <1>1 DEF Claims, At
<1>6. \A q, j : ~ Claims(c, q, j)'
  BY <1>1 DEF Claims
<1>7. \A d \in Consumers \ {c} : cons'[d] = cons[d]
  BY <1>1 DEF Steps
<1>8. \A d \in Consumers \ {c}, q \in Producers, j \in Nat : Claims(d, q, j)' <=> Claims(d, q, j)
  BY <1>7 DEF Claims
<1>9. i < head[p] /\ \A d \in Consumers \ {c} : ~ Claims(d, p, i)
  BY <1>1, <1>5 DEF Taking
<1>10. ASSUME NEW q \in Producers, NEW j \in Nat
       PROVE  Moved(q, j)' <=> Moved(q, j) \/ (q = p /\ j = i)
  <2>1. CASE q = p /\ j = i
    <3>1. \A d \in Consumers : ~ Claims(d, q, j)'
      BY <1>6, <1>8, <1>9, <2>1
    <3> QED BY <1>4, <1>9, <2>1, <3>1 DEF Moved
  <2>2. CASE ~ (q = p /\ j = i)
    <3>1. \A d \in Consumers : Claims(d, q, j)' <=> Claims(d, q, j)
      BY <1>5, <1>6, <1>8, <2>2
    <3> QED BY <1>4, <2>2, <3>1 DEF Moved
  <2> QED BY <2>1, <2>2
<1>11. ~ Moved(p, i)
  BY <1>5 DEF Moved
<1>12. /\ base \in Nat /\ base + k = i /\ entries[p][e].key = base /\ entries[p][e].value = b
       /\ b # Null /\ \A j \in Slots : base + j \in Nat
  <2>1. base \in Nat /\ base + k = i
    BY <1>0, <1>1, BaseIs
  <2>2. \A j \in Slots : base + j \in Nat
    BY <2>1 DEF Slots
  <2> QED BY <1>0, <1>1, <2>1, <2>2 DEF Holds
<1>13. Kept(p, e)
  BY <1>1, <1>12 DEF Accounted, Keeping
<1>14. i < Built(p)
  <2>1. head[p] \in Nat /\ tail[p] \in Nat /\ head[p] <= tail[p]
    BY <1>1, HeadTail DEF AllCounts
  <2> QED BY <1>1, <1>9, <2>1 DEF Built
<1>15. /\ block[b].at = "used"
       /\ \A j \in Slots : block[b].slots[j] = IF base + j < Built(p) /\ ~ Moved(p, base + j)
                                               THEN <<p, base + j + 1>> ELSE Empty
       /\ block[b].emptied + Cardinality(Users(b, {"empty"})) + Cardinality(Left(p, base)) = BLOCK_SIZE
  BY <1>12, <1>13 DEF Kept
<1>16. block[b].slots[k] = <<p, i + 1>>
  BY <1>1, <1>11, <1>12, <1>14, <1>15
<1>17. /\ \A x \in Blocks \ {b} : block'[x] = block[x]
       /\ block'[b].emptied = block[b].emptied /\ block'[b].at = block[b].at
       /\ \A j \in Slots : block'[b].slots[j] = IF j = k THEN Empty ELSE block[b].slots[j]
  BY <1>1 DEF Filling
<1>18. ASSUME NEW q \in Producers PROVE Present(q)'
  <2>1. \A j \in Nat : Moved(q, j) => Moved(q, j)'
    BY <1>10
  <2> QED BY <1>3, <2>1, PresentSame DEF Accounted
<1>19. Kept(p, e)'
  <2> DEFINE U == Users(b, {"empty"})
             L == Left(p, base)
  <2>1. Users(b, {"empty"})' = U \cup {c} /\ c \notin U
    BY <1>1, <1>7 DEF Users, At
  <2>2. ASSUME NEW j \in Slots
        PROVE  Moved(p, base + j)' <=> Moved(p, base + j) \/ j = k
    <3>1. base + j = i <=> j = k
      BY <1>1, <1>12 DEF Slots
    <3> QED BY <1>1, <1>10, <1>12, <3>1
  <2>3. Left(p, base)' = L \ {k} /\ k \in L
    <3>1. k \in L
      BY <1>1, <1>11, <1>12 DEF Left
    <3>2. \A j \in Slots : (~ Moved(p, base + j)') <=> (~ Moved(p, base + j) /\ j # k)
      BY <2>2
    <3>3. Left(p, base)' = {j \in Slots : ~ Moved(p, base + j)'}
      BY DEF Left
    <3> QED BY <3>1, <3>2, <3>3 DEF Left
  <2>4. IsFiniteSet(U) /\ IsFiniteSet(L)
    <3>1. IsFiniteSet(U)
      BY Cards DEF Users
    <3>2. L \subseteq Slots
      BY DEF Left
    <3> QED BY <3>1, <3>2, SlotsCard, FS_Subset
  <2> DEFINE u == Cardinality(U)
             l == Cardinality(L)
             n == block[b].emptied
  <2>5. /\ Cardinality(Users(b, {"empty"})') = u + 1 /\ u \in Nat
        /\ Cardinality(Left(p, base)') = l - 1 /\ l \in Nat
    <3> HIDE DEF U, L
    <3> QED BY <2>1, <2>3, <2>4, OneLess, OneMore
  <2>6. n \in Nat /\ n + u + l = BLOCK_SIZE
    BY <1>1, <1>15 DEF TypeInv, Memory
  <2>7. block'[b].emptied + Cardinality(Users(b, {"empty"})') + Cardinality(Left(p, base)') = BLOCK_SIZE
    <3>1. block'[b].emptied = n
      BY <1>17
    <3> HIDE DEF n, u, l
    <3>2. n + (u + 1) + (l - 1) = BLOCK_SIZE
      BY <2>5, <2>6
    <3> QED BY <2>5, <3>1, <3>2
  <2>8. entries'[p][e].key = base /\ entries'[p][e].value = b /\ block'[b].at = "used"
    BY <1>3, <1>12, <1>15, <1>17
  <2>9. \A j \in Slots : block'[b].slots[j] = IF base + j < Built(p)' /\ ~ Moved(p, base + j)'
                                              THEN <<p, base + j + 1>> ELSE Empty
    <3> TAKE j \in Slots
    <3>1. Moved(p, base + j)' <=> Moved(p, base + j) \/ j = k
      BY <2>2
    <3>2. Built(p)' = Built(p)
      BY <1>1, <1>3
    <3>3. CASE j = k
      BY <1>17, <3>1, <3>3
    <3>4. CASE j # k
      BY <1>15, <1>17, <3>1, <3>2, <3>4
    <3> QED BY <3>3, <3>4
  <2> QED BY <2>7, <2>8, <2>9, KeptIs
<1>20. ASSUME NEW q \in Producers, NEW f \in DOMAIN entries[q], entries[q][f].value # Null
       PROVE  Kept(q, f)'
  <2>1. CASE q = p /\ f = e
    BY <1>19, <2>1
  <2>2. CASE ~ (q = p /\ f = e)
    <3>1. PICK key \in Nat : key = entries[q][f].key
      BY <1>20, Leads
    <3>2. /\ \A j \in Slots : key + j \in Nat /\ Base(key + j) = key
          /\ \A g \in DOMAIN entries[q] : entries[q][g].value # Null /\ entries[q][g].key = key => g = f
      BY <1>20, <3>1, Leads
    <3>3. entries[q][f].value # b
      BY <1>1, <1>12, <1>20, <2>2 DEF Accounted, Keeping
    <3>4. ASSUME NEW j \in Slots PROVE Moved(q, key + j)' <=> Moved(q, key + j)
      <4>1. key + j \in Nat /\ Base(key + j) = key
        BY <3>2
      <4>2. ~ (q = p /\ key + j = i)
        <5> SUFFICES ASSUME q = p, key + j = i PROVE FALSE
          OBVIOUS
        <5>1. key = base
          BY <1>0, <4>1
        <5> QED BY <1>1, <1>12, <2>2, <3>2, <5>1
      <4> QED BY <1>10, <4>1, <4>2
    <3>5. entries'[q][f] = entries[q][f] /\ \A j \in Slots : key + j < Built(q)' <=> key + j < Built(q)
      BY <1>3
    <3>6. \A d \in Consumers :
              \/ cons'[d] = cons[d]
              \/ (At(d, "empty") => cons[d].b = b) /\ (At(d, "empty")' => cons'[d].b = b)
      BY <1>1, <1>7 DEF At
    <3> QED BY <1>17, <1>20, <3>1, <3>3, <3>4, <3>5, <3>6, KeptApart DEF Accounted
  <2> QED BY <2>1, <2>2
<1>21. Keeping'
  BY <1>3, <1>20 DEF Accounted, Keeping
<1>22. Leaving'
  <2>1. ASSUME NEW d \in Consumers PROVE Leaves(d)'
    <3>1. CASE d = c
      BY <1>1, <1>3, <1>12, <3>1 DEF Leaves, At
    <3>2. CASE d # c
      <4>1. Leaves(d) /\ cons'[d] = cons[d]
        BY <1>7, <3>2 DEF Accounted, Leaving
      <4>2. cons[d].at \in {"unlink", "free"} =>
                cons[d].b \in Blocks /\ block'[cons[d].b].emptied = block[cons[d].b].emptied
        <5>1. cons[d].at \in {"unlink", "free"} => cons[d].b \in Blocks
          BY LeaverBlock DEF Accounted, Gone
        <5> QED BY <1>17, <5>1
      <4>3. At(d, "free") => block'[cons[d].b] = block[cons[d].b]
        BY <1>1, <1>12, <1>17, <4>1, <4>2 DEF Leaves, At
      <4> QED BY <1>3, <4>1, <4>2, <4>3, LeavesApart
    <3> QED BY <3>1, <3>2
  <2>2. ASSUME NEW d \in Consumers, NEW f \in Consumers,
               {cons'[d].at, cons'[f].at} \subseteq {"unlink", "free"}, cons'[d].b = cons'[f].b
        PROVE  d = f
    BY <1>1, <1>7, <2>2 DEF Accounted, Leaving
  <2> QED BY <2>1, <2>2 DEF Leaving
<1>23. Returned'
  <2>1. ASSUME NEW x \in Blocks
        PROVE  /\ block'[x].at # "used" => block'[x].slots = FreshSlots
               /\ block'[x].at = "used" /\ block'[x].emptied = BLOCK_SIZE => Users(x, {"unlink", "free"})' # {}
               /\ x \in pooled' + 1 .. PoolSize => block'[x].at = "pool"
    <3>1. block'[x].at = block[x].at /\ block'[x].emptied = block[x].emptied
          /\ (block[x].at # "used" => block'[x] = block[x])
      BY <1>15, <1>17
    <3>2. \A d \in Users(x, {"unlink", "free"}) : d \in Users(x, {"unlink", "free"})'
      BY <1>1, <1>7 DEF Users, At
    <3> QED BY <1>3, <3>1, <3>2 DEF Accounted, Returned
  <2> QED BY <2>1 DEF Returned
<1>24. Accounted'
  BY <1>18, <1>21, <1>22, <1>23 DEF Accounted
<1> QED BY <1>0, <1>1, <1>5, <1>10, <1>16, <1>24

\* Unlink: every element of the block has been moved out, and all have left it.
LEMMA ConsumerUnlink ==
    ASSUME QueueAssumption, TypeInv, Rings, \A d \in Consumers : Chosen(d), Taking, Finding, Accounted,
           NEW c \in Consumers, TryDequeue(c), Unlink(c)
    PROVE  Accounted' /\ Finding'
<1>0. PICK p, e, b : p = cons[c].p /\ e = cons[c].entry /\ b = cons[c].b
  OBVIOUS
<1>1. /\ At(c, "unlink") /\ Steps(c) /\ p \in Producers /\ b \in Blocks
      /\ e \in DOMAIN entries[p] /\ entries[p][e].value = b
      /\ Changed(entries[p], entries'[p], e, entries[p][e].key, Null)
      /\ \A q \in Producers \ {p} : entries'[q] = entries[q]
      /\ cons'[c].at = "free" /\ cons'[c].p = p /\ cons'[c].entry = e /\ cons'[c].b = b
  BY <1>0, UnlinkIs DEF Accounted
<1>2. ~ Take(c) /\ ~ Move(c)
  BY <1>1 DEF At, Take, Move
<1>3. SameMoved
  BY <1>2, ConsumerSame DEF Accounted
<1>4. headers' = headers /\ block' = block /\ pooled' = pooled /\ tail' = tail /\ prod' = prod
  BY DEF Unlink, counters
<1>5. \A d \in Consumers \ {c} : cons'[d] = cons[d]
  BY <1>1 DEF Steps
<1>6. Kept(p, e) /\ b # Null /\ block[b].emptied = BLOCK_SIZE
  <2>1. Kept(p, e)
    BY <1>0, <1>1, LeaverBlock DEF Accounted, Gone, At
  <2>2. block[b].emptied = BLOCK_SIZE
    BY <1>0, <1>1 DEF Accounted, Leaving, Leaves, At
  <2> QED BY <1>1, <2>1, <2>2 DEF Blocks, Null
<1>7. PICK base \in Nat : /\ base = entries[p][e].key
                          /\ \A j \in Slots : base + j \in Nat
  BY <1>1, <1>6, Leads
<1>8. /\ block[b].at = "used"
      /\ \A j \in Slots : block[b].slots[j] = IF base + j < Built(p) /\ ~ Moved(p, base + j)
                                              THEN <<p, base + j + 1>> ELSE Empty
      /\ block[b].emptied + Cardinality(Users(b, {"empty"})) + Cardinality(Left(p, base)) = BLOCK_SIZE
  BY <1>1, <1>6, <1>7 DEF Kept
<1>9. Users(b, {"empty"}) = {} /\ Left(p, base) = {}
  <2> DEFINE U == Users(b, {"empty"})
             L == Left(p, base)
  <2>1. IsFiniteSet(U) /\ IsFiniteSet(L)
    <3>1. IsFiniteSet(U)
      BY Cards DEF Users
    <3>2. L \subseteq Slots
      BY DEF Left
    <3> QED BY <3>1, <3>2, SlotsCard, FS_Subset
  <2>2. BLOCK_SIZE + Cardinality(U) + Cardinality(L) = BLOCK_SIZE /\ BLOCK_SIZE \in Nat
    BY <1>6, <1>8, BlockSize
  <2> HIDE DEF U, L
  <2>3. Cardinality(U) \in Nat /\ Cardinality(L) \in Nat
    BY <2>1, FS_CardinalityType
  <2>4. Cardinality(U) = 0 /\ Cardinality(L) = 0
    BY <2>2, <2>3
  <2>5. U = {} /\ L = {}
    BY <2>1, <2>4, FS_EmptySet
  <2> QED BY <2>5 DEF U, L
<1>10. \A j \in Slots : Moved(p, base + j) /\ block[b].slots[j] = Empty
  BY <1>8, <1>9 DEF Left
<1>11. block[b].slots = FreshSlots
  <2>1. block[b].slots \in [Slots -> Nat \X Nat]
    BY <1>1 DEF TypeInv, Memory
  <2> QED BY <1>10, <2>1 DEF FreshSlots, Slots
<1>12. /\ DOMAIN entries'[p] = DOMAIN entries[p]
       /\ entries'[p][e].key = entries[p][e].key /\ entries'[p][e].value = Null
       /\ \A f \in DOMAIN entries[p] \ {e} : entries'[p][f] = entries[p][f]
  BY <1>1 DEF Changed
\* No one looks for an element of the block any more.
<1>13. ASSUME NEW i \in Nat, Holds(entries[p][e], Base(i)) PROVE Moved(p, i)
  <2>1. PICK j \in Slots : i = base + j
    BY <1>7, <1>13, InBlock DEF Holds
  <2> QED BY <1>10, <2>1
<1>14. ASSUME NEW q \in Producers, NEW f \in DOMAIN entries[q], ~ (q = p /\ f = e)
       PROVE  f \in DOMAIN entries'[q] /\ entries'[q][f] = entries[q][f]
  <2>1. CASE q = p
    BY <1>12, <1>14, <2>1
  <2>2. CASE q # p
    BY <1>1, <1>14, <2>2
  <2> QED BY <2>1, <2>2
<1>15. ASSUME NEW q \in Producers, NEW f \in DOMAIN entries'[q], entries'[q][f].value # Null
       PROVE  /\ f \in DOMAIN entries[q] /\ entries'[q][f] = entries[q][f]
              /\ ~ (q = p /\ f = e)
  <2>1. CASE q = p
    BY <1>12, <1>15, <2>1
  <2>2. CASE q # p
    BY <1>1, <1>15, <2>2
  <2> QED BY <2>1, <2>2
<1>16. ASSUME NEW q \in Producers PROVE Present(q)'
  <2> SUFFICES ASSUME NEW i \in 0 .. Filled(tail'[q], prod'[q].at) - 1, ~ Moved(q, i)'
               PROVE  \E f \in DOMAIN entries'[q] : Holds(entries'[q][f], Base(i))
    BY DEF Present
  <2>1. i \in 0 .. Filled(tail[q], prod[q].at) - 1 /\ i \in Nat
    BY <1>4
  <2>2. ~ Moved(q, i)
    BY <1>3, <2>1 DEF SameMoved
  <2>3. PICK f \in DOMAIN entries[q] : Holds(entries[q][f], Base(i))
    BY <2>1, <2>2 DEF Accounted, Present
  <2>4. ~ (q = p /\ f = e)
    BY <1>13, <2>1, <2>2, <2>3
  <2> QED BY <1>14, <2>3, <2>4
<1>17. Keeping'
  <2>1. ASSUME NEW q \in Producers, NEW f \in DOMAIN entries'[q], entries'[q][f].value # Null
        PROVE  Kept(q, f)'
    <3>1. f \in DOMAIN entries[q] /\ entries'[q][f] = entries[q][f] /\ entries[q][f].value # Null
      BY <1>15, <2>1
    <3>2. PICK key \in Nat : key = entries[q][f].key /\ \A j \in Slots : key + j \in Nat
      BY <3>1, Leads
    <3>3. \A j \in Slots : Moved(q, key + j)' <=> Moved(q, key + j)
      BY <1>3, <3>2 DEF SameMoved
    <3>4. \A j \in Slots : key + j < Built(q)' <=> key + j < Built(q)
      BY <1>4 DEF Built
    <3>5. \A d \in Consumers :
              \/ cons'[d] = cons[d]
              \/ (At(d, "empty") => cons[d].b = Null) /\ (At(d, "empty")' => cons'[d].b = Null)
      BY <1>1, <1>5 DEF At
    <3> QED BY <1>4, <3>1, <3>2, <3>3, <3>4, <3>5, KeptApart DEF Accounted
  <2>2. ASSUME NEW q \in Producers, NEW r \in Producers,
               NEW f \in DOMAIN entries'[q], NEW g \in DOMAIN entries'[r],
               entries'[q][f].value # Null, entries'[q][f].value = entries'[r][g].value
        PROVE  q = r /\ f = g
    BY <1>15, <2>2 DEF Accounted, Keeping
  <2> QED BY <2>1, <2>2 DEF Keeping
<1>18. Leaving'
  <2>1. ASSUME NEW d \in Consumers \ {c}, cons[d].at \in Gone PROVE cons[d].b # b
    <3>1. CASE cons[d].at = "empty"
      BY <1>9, <2>1, <3>1 DEF Users
    <3>2. CASE cons[d].at \in {"unlink", "free"}
      BY <1>0, <1>1, <2>1, <3>2 DEF Accounted, Leaving, At
    <3> QED BY <2>1, <3>1, <3>2 DEF Gone
  <2>2. ASSUME NEW d \in Consumers PROVE Leaves(d)'
    <3>1. CASE d = c
      <4>1. ASSUME NEW q \in Producers, NEW f \in DOMAIN entries'[q], entries'[q][f].value = b
            PROVE  FALSE
        BY <1>1, <1>6, <1>15, <4>1 DEF Accounted, Keeping
      <4>2. At(c, "free")' /\ cons'[c].at \notin {"empty", "unlink"}
        BY <1>1 DEF At
      <4> QED BY <1>1, <1>4, <1>6, <1>8, <1>11, <3>1, <4>1, <4>2 DEF Leaves
    <3>2. CASE d # c
      <4>1. Leaves(d) /\ cons'[d] = cons[d]
        BY <1>5, <3>2 DEF Accounted, Leaving
      <4>2. cons[d].at \in {"empty", "unlink"} =>
                \A q \in Producers : \A f \in DOMAIN entries[q] :
                    entries[q][f].value = cons[d].b =>
                        f \in DOMAIN entries'[q] /\ entries'[q][f] = entries[q][f]
        BY <1>1, <1>14, <2>1, <3>2 DEF Gone
      <4>3. At(d, "free") =>
                \A q \in Producers : \A f \in DOMAIN entries'[q] :
                    entries'[q][f].value = cons[d].b =>
                        f \in DOMAIN entries[q] /\ entries'[q][f] = entries[q][f]
        <5>1. At(d, "free") => cons[d].b # Null
          BY LeaverBlock DEF Accounted, Gone, At, Blocks, Null
        <5> QED BY <1>15, <5>1
      <4> QED BY <1>4, <4>1, <4>2, <4>3, LeavesApart
    <3> QED BY <3>1, <3>2
  <2>3. ASSUME NEW d \in Consumers, NEW f \in Consumers,
               {cons'[d].at, cons'[f].at} \subseteq {"unlink", "free"}, cons'[d].b = cons'[f].b
        PROVE  d = f
    <3>1. cons[d].at \in {"unlink", "free"} /\ cons[d].b = cons'[d].b
      BY <1>0, <1>1, <1>5, <2>3 DEF At
    <3>2. cons[f].at \in {"unlink", "free"} /\ cons[f].b = cons'[f].b
      BY <1>0, <1>1, <1>5, <2>3 DEF At
    <3> QED BY <2>3, <3>1, <3>2 DEF Accounted, Leaving
  <2> QED BY <2>2, <2>3 DEF Leaving
<1>19. Returned'
  <2>1. ASSUME NEW x \in Blocks, NEW d \in Users(x, {"unlink", "free"})
        PROVE  d \in Users(x, {"unlink", "free"})'
    BY <1>0, <1>1, <1>5, <2>1 DEF Users
  <2> QED BY <1>4, <2>1 DEF Accounted, Returned
<1>20. Finding'
  <2>1. ASSUME NEW d \in Consumers, cons'[d].at \in {"find", "move"}
        PROVE  cons'[d] = cons[d] /\ d # c
    BY <1>1, <1>5, <2>1
  <2>2. ASSUME NEW d \in Consumers, At(d, "find")'
        PROVE  Finds(cons'[d], headers'[cons'[d].p], entries'[cons'[d].p])
    <3>0. PICK s, q : s = cons[d] /\ q = s.p
      OBVIOUS
    <3>1. cons'[d] = s /\ At(d, "find") /\ s \in Seeking
      BY <2>1, <2>2, <3>0, Consumer DEF At
    <3>2. q \in Producers /\ s.i \in Nat /\ Finds(s, headers[q], entries[q])
      BY <3>0, <3>1 DEF Seeking, Finding
    <3>3. /\ s.h \in DOMAIN headers[q] /\ s.t \in DOMAIN headers[q][s.h].index
          /\ entries[q][headers[q][s.h].index[s.t]].key # INVALID_BLOCK_BASE
      BY <3>2 DEF Finds
    <3>4. PICK x \in DOMAIN headers[q][s.h].index : Holds(entries[q][headers[q][s.h].index[x]], Base(s.i))
      BY <3>2 DEF Finds
    <3>5. /\ headers[q][s.h].index[x] \in DOMAIN entries[q]
          /\ headers[q][s.h].index[s.t] \in DOMAIN entries[q]
      <4>1. Headers(headers[q], entries[q])
        BY <3>2, IndexOf DEF Rings
      <4> QED BY <3>3, <3>4, <4>1 DEF Headers
    <3>6. PICK f, g : f = headers[q][s.h].index[x] /\ g = headers[q][s.h].index[s.t]
      OBVIOUS
    <3>7. ~ Moved(q, s.i)
      <4>1. Claims(d, q, s.i)
        BY <3>0, <3>1 DEF Claims, At
      <4> QED BY <4>1 DEF Moved
    <3>8. ~ (q = p /\ f = e)
      BY <1>13, <3>2, <3>4, <3>6, <3>7
    <3>9. entries'[q][f] = entries[q][f]
      BY <1>14, <3>2, <3>5, <3>6, <3>8
    <3>10. entries'[q][g].key = entries[q][g].key
      BY <1>12, <1>14, <3>2, <3>5, <3>6
    <3>11. Finds(s, headers'[q], entries'[q])
      BY <1>4, <3>3, <3>4, <3>6, <3>9, <3>10 DEF Finds
    <3> QED BY <3>0, <3>1, <3>11
  <2>3. ASSUME NEW d \in Consumers, At(d, "move")'
        PROVE  /\ cons'[d].entry \in DOMAIN entries'[cons'[d].p]
               /\ Holds(entries'[cons'[d].p][cons'[d].entry], Base(cons'[d].i))
    <3>0. PICK s, q : s = cons[d] /\ q = s.p
      OBVIOUS
    <3>1. cons'[d] = s /\ At(d, "move") /\ s \in Moving
      BY <2>1, <2>3, <3>0, Consumer DEF At
    <3>2. q \in Producers /\ s.i \in Nat /\ s.entry \in DOMAIN entries[q]
          /\ Holds(entries[q][s.entry], Base(s.i))
      BY <3>0, <3>1 DEF Moving, Finding
    <3>3. ~ Moved(q, s.i)
      <4>1. Claims(d, q, s.i)
        BY <3>0, <3>1 DEF Claims, At
      <4> QED BY <4>1 DEF Moved
    <3>4. ~ (q = p /\ s.entry = e)
      BY <1>13, <3>2, <3>3
    <3> QED BY <1>14, <3>0, <3>1, <3>2, <3>4
  <2> QED BY <2>2, <2>3 DEF Finding
<1> QED BY <1>16, <1>17, <1>18, <1>19, <1>20 DEF Accounted

\* Free: no entry leads to the block any more.
LEMMA ConsumerFree ==
    ASSUME QueueAssumption, TypeInv, Rings, \A d \in Consumers : Chosen(d), Finding, Accounted,
           NEW c \in Consumers, TryDequeue(c), Free(c)
    PROVE  Accounted'
<1>0. PICK b : b = cons[c].b
  OBVIOUS
<1>1. /\ At(c, "free") /\ Steps(c) /\ b \in Blocks /\ cons'[c].at = "idle"
      /\ \/ Recounted(b, block[b].emptied, "free")
         \/ Recounted(b, block[b].emptied, "heap")
  BY <1>0, FreeIs
<1>2. ~ Take(c) /\ ~ Move(c) /\ ~ Unlink(c)
  BY <1>1 DEF At, Take, Move, Unlink
<1>3. SameMoved
  BY <1>2, ConsumerSame DEF Accounted
<1>4. /\ entries' = entries /\ pooled' = pooled
      /\ \A q \in Producers : /\ Grows(q) /\ Built(q)' = Built(q)
                              /\ Filled(tail'[q], prod'[q].at) = Filled(tail[q], prod[q].at)
  BY <1>2, ConsumerIndex
<1>5. \A d \in Consumers \ {c} : cons'[d] = cons[d]
  BY <1>1 DEF Steps
<1>6. /\ \A x \in Blocks \ {b} : block'[x] = block[x]
      /\ block'[b].slots = block[b].slots /\ block'[b].at \in {"free", "heap"}
      /\ block'[b].emptied = block[b].emptied
  BY <1>1 DEF Recounted
<1>7. /\ block[b].at = "used" /\ block[b].slots = FreshSlots
      /\ \A q \in Producers : \A f \in DOMAIN entries[q] : entries[q][f].value # b
  BY <1>0, <1>1 DEF Accounted, Leaving, Leaves
<1>8. ASSUME NEW d \in Consumers \ {c}, cons[d].at \in Gone
      PROVE  cons[d].b # b /\ cons[d].b \in Blocks
  <2>1. cons[d].b \in Blocks
    BY <1>8, LeaverBlock DEF Accounted
  <2>2. CASE cons[d].at \in {"empty", "unlink"}
    BY <1>7, <1>8, <2>1, <2>2, LeaverBlock DEF Accounted
  <2>3. CASE cons[d].at = "free"
    BY <1>0, <1>1, <2>1, <2>3 DEF Accounted, Leaving, At
  <2> QED BY <1>8, <2>2, <2>3 DEF Gone
<1>9. ASSUME NEW q \in Producers PROVE Present(q)'
  <2>1. \A i \in Nat : Moved(q, i) => Moved(q, i)'
    BY <1>3 DEF SameMoved
  <2> QED BY <1>4, <2>1, PresentSame DEF Accounted
<1>10. Keeping'
  <2>1. ASSUME NEW q \in Producers, NEW f \in DOMAIN entries[q], entries[q][f].value # Null
        PROVE  Kept(q, f)'
    <3>1. PICK key \in Nat : key = entries[q][f].key /\ \A j \in Slots : key + j \in Nat
      BY <2>1, Leads
    <3>2. entries[q][f].value # b
      BY <1>7
    <3>3. \A j \in Slots : Moved(q, key + j)' <=> Moved(q, key + j)
      BY <1>3, <3>1 DEF SameMoved
    <3>4. entries'[q][f] = entries[q][f] /\ \A j \in Slots : key + j < Built(q)' <=> key + j < Built(q)
      BY <1>4
    <3>5. \A d \in Consumers :
              \/ cons'[d] = cons[d]
              \/ (At(d, "empty") => cons[d].b = b) /\ (At(d, "empty")' => cons'[d].b = b)
      BY <1>1, <1>5 DEF At
    <3> QED BY <1>6, <2>1, <3>1, <3>2, <3>3, <3>4, <3>5, KeptApart DEF Accounted
  <2> QED BY <1>4, <2>1 DEF Accounted, Keeping
<1>11. Leaving'
  <2>1. ASSUME NEW d \in Consumers PROVE Leaves(d)'
    <3>1. CASE d = c
      BY <1>1, <3>1 DEF Leaves, At
    <3>2. CASE d # c
      <4>1. Leaves(d) /\ cons'[d] = cons[d]
        BY <1>5, <3>2 DEF Accounted, Leaving
      <4>2. cons[d].at \in {"unlink", "free"} => block'[cons[d].b] = block[cons[d].b]
        BY <1>6, <1>8, <3>2 DEF Gone
      <4> QED BY <1>4, <4>1, <4>2, LeavesApart DEF At
    <3> QED BY <3>1, <3>2
  <2>2. ASSUME NEW d \in Consumers, NEW f \in Consumers,
               {cons'[d].at, cons'[f].at} \subseteq {"unlink", "free"}, cons'[d].b = cons'[f].b
        PROVE  d = f
    BY <1>1, <1>5, <2>2 DEF Accounted, Leaving
  <2> QED BY <2>1, <2>2 DEF Leaving
<1>12. Returned'
  <2>1. ASSUME NEW x \in Blocks
        PROVE  /\ block'[x].at # "used" => block'[x].slots = FreshSlots
               /\ block'[x].at = "used" /\ block'[x].emptied = BLOCK_SIZE => Users(x, {"unlink", "free"})' # {}
               /\ x \in pooled' + 1 .. PoolSize => block'[x].at = "pool"
    <3>1. CASE x = b
      BY <1>1, <1>4, <1>6, <1>7, <3>1 DEF Accounted, Returned
    <3>2. CASE x # b
      <4>1. block'[x] = block[x]
        BY <1>6, <3>2
      <4>2. \A d \in Users(x, {"unlink", "free"}) : d \in Users(x, {"unlink", "free"})'
        BY <1>0, <1>5, <3>2 DEF Users
      <4> QED BY <1>4, <4>1, <4>2 DEF Accounted, Returned
    <3> QED BY <3>1, <3>2
  <2> QED BY <2>1 DEF Returned
<1> QED BY <1>9, <1>10, <1>11, <1>12 DEF Accounted
-----------------------------------------------------------------------------
(* What the consumers find, and what they took                             *)

\* Locate: the last header names every entry, that of the element among them.
LEMMA LocateFinds ==
    ASSUME QueueAssumption, TypeInv, AllCounts, Rings, Taking, Accounted,
           NEW c \in Consumers, Locate(c)
    PROVE  /\ Steps(c) /\ cons'[c].at = "find" /\ cons'[c].p \in Producers
           /\ Finds(cons'[c], headers[cons'[c].p], entries[cons'[c].p])
<1>0. PICK p, i, n, at : p = cons[c].p /\ i = cons[c].i /\ n = tail[p] /\ at = prod[p].at
  OBVIOUS
<1>1. p \in Producers /\ At(c, "locate")
  BY <1>0, Consumer DEF Locate, At, Locating
<1>2. /\ Steps(c) /\ i \in Nat
      /\ cons'[c].at = "find" /\ cons'[c].p = p /\ cons'[c].i = i
      /\ cons'[c].h = Len(headers[p]) /\ cons'[c].t = Current(p).tail
  BY <1>0, <1>1, LocateIs, TailNat
<1> DEFINE hs == headers[p]
           es == entries[p]
           now == Last(hs)
           m == Size(now)
<1>3. /\ Ring(hs, es, n, at) /\ hs \in Seq(Header) /\ es \in Seq(Entry) /\ n \in Nat /\ at \in States
      /\ Headers(hs, es) /\ Current(p) = now /\ head[p] \in Nat
  BY <1>0, <1>1, IndexOf DEF Rings
<1>4. /\ Len(hs) \in DOMAIN hs /\ hs[Len(hs)] = now /\ DOMAIN now.index = 1 .. m
      /\ DOMAIN es = 1 .. m /\ now.tail \in 1 .. m
      /\ \A e \in 1 .. m : \E x \in 1 .. m : now.index[x] = e
  BY <1>3, LastHeader
<1>5. Claims(c, p, i)
  BY <1>0, <1>1 DEF Claims, At
<1>6. i < n /\ n > 0
  <2>1. i < head[p]
    BY <1>1, <1>2, <1>5 DEF Taking
  <2>2. head[p] <= n
    BY <1>0, <1>1, HeadTail DEF AllCounts
  <2> QED BY <1>2, <1>3, <2>1, <2>2
<1>7. es[now.index[now.tail]].key # INVALID_BLOCK_BASE
  <2>1. Linked(hs, es, n, at)
    BY <1>3 DEF Ring
  <2>2. CASE at # "block"
    BY <1>6, <2>1, <2>2 DEF Linked
  <2>3. CASE at = "block"
    <3>1. es[now.index[now.tail]].key = n /\ AtStart(n)
      BY <2>1, <2>3 DEF Linked
    <3> QED BY <1>3, <3>1, NotInvalid
  <2> QED BY <2>2, <2>3
<1>8. i \in 0 .. Filled(n, at) - 1
  <2>1. n <= Filled(n, at) /\ Filled(n, at) \in Nat
    <3>1. Base(n) \in Nat /\ n < Base(n) + BLOCK_SIZE /\ BLOCK_SIZE \in Nat
      BY <1>3, BaseIs, BlockSize
    <3> QED BY <1>3, <3>1 DEF Filled
  <2> QED BY <1>2, <1>3, <1>6, <2>1
<1>9. PICK e \in DOMAIN es : Holds(es[e], Base(i))
  <2>1. ~ Moved(p, i)
    BY <1>5 DEF Moved
  <2> QED BY <1>0, <1>1, <1>8, <2>1 DEF Accounted, Present
<1>10. PICK x \in DOMAIN now.index : now.index[x] = e
  <2>1. e \in 1 .. m
    BY <1>4
  <2> QED BY <1>4, <2>1
<1>11. PICK s : s = cons'[c]
  OBVIOUS
<1>12. Finds(s, hs, es)
  <2>1. s.h \in DOMAIN hs /\ hs[s.h] = now /\ s.t = now.tail /\ now.tail \in DOMAIN now.index /\ s.i = i
    BY <1>2, <1>3, <1>4, <1>11
  <2> HIDE DEF now, hs, es
  <2> QED BY <1>7, <1>9, <1>10, <2>1 DEF Finds
<1> QED BY <1>1, <1>2, <1>11, <1>12

LEMMA ConsumerFinding ==
    ASSUME QueueAssumption, TypeInv, AllChosen, AllCounts, Rings, Taking, Finding, Accounted,
           NEW c \in Consumers, TryDequeue(c), ~ Unlink(c)
    PROVE  Finding'
<1>1. headers' = headers /\ entries' = entries /\ \A q \in Producers : Grows(q)
  BY ConsumerIndex
<1>2. ASSUME Steps(c),
             \/ cons'[c].at \notin {"find", "move"}
             \/ /\ cons'[c].at = "find"
                /\ Finds(cons'[c], headers[cons'[c].p], entries[cons'[c].p])
             \/ /\ cons'[c].at = "move"
                /\ cons'[c].entry \in DOMAIN entries[cons'[c].p]
                /\ Holds(entries[cons'[c].p][cons'[c].entry], Base(cons'[c].i))
      PROVE  Finding'
  <2>1. ASSUME NEW d \in Consumers, cons'[d].at = "find"
        PROVE  Finds(cons'[d], headers'[cons'[d].p], entries'[cons'[d].p])
    <3>1. CASE d = c
      BY <1>1, <1>2, <2>1, <3>1
    <3>2. CASE d # c
      BY <1>1, <1>2, <2>1, <3>2 DEF Steps, Finding, At
    <3> QED BY <3>1, <3>2
  <2>2. ASSUME NEW d \in Consumers, cons'[d].at = "move"
        PROVE  /\ cons'[d].entry \in DOMAIN entries'[cons'[d].p]
               /\ Holds(entries'[cons'[d].p][cons'[d].entry], Base(cons'[d].i))
    <3>1. CASE d = c
      BY <1>1, <1>2, <2>2, <3>1
    <3>2. CASE d # c
      BY <1>1, <1>2, <2>2, <3>2 DEF Steps, Finding, At
    <3> QED BY <3>1, <3>2
  <2> QED BY <2>1, <2>2 DEF Finding, At
<1>3. CASE Locate(c)
  BY <1>2, <1>3, LocateFinds
<1>4. CASE Find(c)
  BY <1>2, <1>4, FindIs DEF Rings
<1>5. CASE ~ Locate(c) /\ ~ Find(c)
  <2>1. Steps(c) /\ cons'[c].at \notin {"find", "move"}
    <3>1. CASE Start(c)
      BY <3>1, StartIs
    <3>2. CASE Scan(c)
      BY <3>2, ScanIs DEF AllChosen
    <3>3. CASE Choose(c)
      BY <3>3, ChooseIs DEF AllChosen
    <3>4. CASE LoadTail(c)
      BY <3>4, LoadTailIs
    <3>5. CASE Guess(c)
      BY <3>5, GuessIs
    <3>6. CASE Bump(c)
      BY <3>6, BumpIs
    <3>7. CASE Recheck(c)
      BY <3>7, RecheckIs
    <3>8. CASE Undo(c)
      BY <3>8, UndoIs
    <3>9. CASE Take(c)
      BY <3>9, TakeIs
    <3>10. CASE Move(c)
      BY <3>10, MoveIs
    <3>11. CASE SetEmpty(c)
      BY <3>11, SetEmptyIs
    <3>12. CASE Free(c)
      BY <3>12, FreeIs
    <3> QED BY <1>5, <3>1, <3>2, <3>3, <3>4, <3>5, <3>6, <3>7, <3>8, <3>9, <3>10, <3>11, <3>12
            DEF TryDequeue
  <2> QED BY <1>2, <2>1
<1> QED BY <1>3, <1>4, <1>5

\* Move: what is taken is the element claimed, which comes after all of its producer that
\* this consumer has taken, and which no one has taken before.
LEMMA MoveTakes ==
    ASSUME QueueAssumption, TypeInv, Rings, AllCounts, Taking, Finding, Accounted,
           Taken, InOrder, OnceOnly, NEW c \in Consumers, TryDequeue(c), Move(c)
    PROVE  Taking' /\ Taken' /\ InOrder' /\ OnceOnly'
<1>0. PICK p, i : p = cons[c].p /\ i = cons[c].i
  OBVIOUS
<1>1. /\ p \in Producers /\ i \in Nat /\ Claims(c, p, i) /\ Steps(c)
      /\ cons'[c].at = "empty"
      /\ \A q \in Producers, j \in Nat : Moved(q, j)' <=> Moved(q, j) \/ (q = p /\ j = i)
      /\ got'[c] = Append(got[c], <<p, i + 1>>)
      /\ \A d \in Consumers \ {c} : got'[d] = got[d]
  BY <1>0, ConsumerMove
<1>2. \A q, j : ~ Claims(c, q, j)'
  BY <1>1 DEF Claims
<1>3. \A d \in Consumers \ {c}, q \in Producers, j \in Nat : Claims(d, q, j)' <=> Claims(d, q, j)
  BY <1>1 DEF Steps, Claims
<1>4. head' = head
  BY DEF Move, counters
<1>5. Taking'
  BY <1>2, <1>3, <1>4 DEF Taking
<1> DEFINE n == Len(got[c])
           v == <<p, i + 1>>
<1>6. /\ n \in Nat /\ DOMAIN got[c] = 1 .. n /\ DOMAIN got'[c] = 1 .. n + 1
      /\ \A j \in 1 .. n : got'[c][j] = got[c][j] /\ got[c][j] \in Nat \X Nat
      /\ got'[c][n + 1] = v /\ v[1] = p /\ v[2] = i + 1 /\ v # Empty
  <2>1. got[c] \in Seq(Nat \X Nat)
    BY DEF TypeInv
  <2>2. p \in Nat
    BY <1>1 DEF QueueAssumption
  <2>3. v \in Nat \X Nat /\ v # Empty
    BY <1>1, <2>2 DEF Empty
  <2>4. got'[c] = Append(got[c], v)
    BY <1>1
  <2>5. v[1] = p /\ v[2] = i + 1
    OBVIOUS
  <2> HIDE DEF v
  <2> QED BY <2>1, <2>3, <2>4, <2>5
<1> HIDE DEF n, v
\* Each thing that was taken was there before, or is the element moved now.
<1>7. ASSUME NEW d \in Consumers, NEW j \in DOMAIN got'[d]
      PROVE  \/ j \in DOMAIN got[d] /\ got'[d][j] = got[d][j]
             \/ d = c /\ j = n + 1 /\ got'[d][j] = v
  <2>1. CASE d = c
    <3>1. j \in 1 .. n \/ j = n + 1
      BY <1>6, <1>7, <2>1
    <3> QED BY <1>6, <2>1, <3>1
  <2>2. CASE d # c
    BY <1>1, <1>7, <2>2
  <2> QED BY <2>1, <2>2
\* What was taken before is not this element.
<1>8. ASSUME NEW d \in Consumers, NEW j \in DOMAIN got[d] PROVE got[d][j] # v
  <2> SUFFICES ASSUME got[d][j] = v PROVE FALSE
    OBVIOUS
  <2>1. Moved(p, (i + 1) - 1)
    BY <1>6 DEF Taken
  <2>2. (i + 1) - 1 = i
    BY <1>1
  <2>3. Moved(p, i)
    BY <2>1, <2>2
  <2> QED BY <1>1, <2>3 DEF Moved
<1>9. Taken'
  <2>1. ASSUME NEW d \in Consumers, NEW j \in DOMAIN got'[d], NEW g, g = got'[d][j]
        PROVE  g[1] \in Producers /\ g[2] > 0 /\ Moved(g[1], g[2] - 1)'
    <3>1. CASE j \in DOMAIN got[d] /\ got'[d][j] = got[d][j]
      <4>1. g[1] \in Producers /\ g[2] > 0 /\ Moved(g[1], g[2] - 1) /\ g \in Nat \X Nat
        BY <2>1, <3>1 DEF Taken, TypeInv
      <4>2. g[2] - 1 \in Nat
        BY <4>1
      <4> QED BY <1>1, <4>1, <4>2
    <3>2. CASE d = c /\ j = n + 1 /\ got'[d][j] = v
      <4>1. g[1] = p /\ g[2] = i + 1 /\ (i + 1) - 1 = i /\ i + 1 > 0
        BY <1>1, <1>6, <2>1, <3>2
      <4>2. Moved(p, i)'
        BY <1>1
      <4>3. PICK k : k = g[2] - 1 /\ k = i
        BY <4>1
      <4> QED BY <1>1, <4>1, <4>2, <4>3
    <3> QED BY <1>7, <2>1, <3>1, <3>2
  <2>2. ASSUME NEW d \in Consumers, NEW j \in DOMAIN got'[d], NEW q \in Producers, NEW k \in Nat,
               Claims(d, q, k)', got'[d][j][1] = q
        PROVE  got'[d][j][2] <= k
    <3>1. d # c
      BY <1>2, <2>2
    <3> QED BY <1>1, <1>3, <2>2, <3>1 DEF Taken
  <2> QED BY <2>1, <2>2 DEF Taken, Moved, Claims
<1>10. InOrder'
  <2> SUFFICES ASSUME NEW d \in Consumers, NEW j \in DOMAIN got'[d], NEW k \in DOMAIN got'[d],
                      j < k, got'[d][j][1] = got'[d][k][1]
               PROVE  got'[d][j][2] < got'[d][k][2]
    BY DEF InOrder
  <2>1. CASE d # c
    BY <1>1, <2>1 DEF InOrder
  <2>2. CASE d = c /\ k # n + 1
    <3>1. j \in 1 .. n /\ k \in 1 .. n
      BY <1>6, <2>2
    <3>2. /\ j \in DOMAIN got[c] /\ k \in DOMAIN got[c]
          /\ got'[c][j] = got[c][j] /\ got'[c][k] = got[c][k]
      BY <1>6, <3>1
    <3> QED BY <2>2, <3>2 DEF InOrder
  <2>3. CASE d = c /\ k = n + 1
    <3>1. j \in 1 .. n
      BY <1>6, <2>3
    <3>2. j \in DOMAIN got[c] /\ got'[c][j] = got[c][j] /\ got[c][j] \in Nat \X Nat
      BY <1>6, <3>1
    <3>3. got'[c][k] = v /\ got[c][j][1] = p
      BY <1>6, <2>3, <3>2
    <3>4. got[c][j][2] <= i
      BY <1>1, <3>2, <3>3 DEF Taken
    <3>5. got[c][j][2] \in Nat
      BY <3>2
    <3> QED BY <1>1, <1>6, <2>3, <3>2, <3>3, <3>4, <3>5
  <2> QED BY <2>1, <2>2, <2>3
<1>11. OnceOnly'
  <2>1. ASSUME NEW d \in Consumers, NEW j \in DOMAIN got'[d] PROVE got'[d][j] # Empty
    BY <1>6, <1>7, <2>1 DEF OnceOnly
  <2>2. ASSUME NEW d \in Consumers, NEW f \in Consumers, NEW j \in DOMAIN got'[d],
               NEW k \in DOMAIN got'[f], got'[d][j] = got'[f][k]
        PROVE  d = f /\ j = k
    <3>1. \/ j \in DOMAIN got[d] /\ got'[d][j] = got[d][j]
          \/ d = c /\ j = n + 1 /\ got'[d][j] = v
      BY <1>7
    <3>2. \/ k \in DOMAIN got[f] /\ got'[f][k] = got[f][k]
          \/ f = c /\ k = n + 1 /\ got'[f][k] = v
      BY <1>7
    <3> QED BY <1>8, <2>2, <3>1, <3>2 DEF OnceOnly
  <2> QED BY <2>1, <2>2 DEF OnceOnly
<1> QED BY <1>5, <1>9, <1>10, <1>11
-----------------------------------------------------------------------------
(* The invariant                                                           *)

LEMMA ProducerKeeps ==
    ASSUME QueueAssumption, IInv, NEW p \in Producers, Enqueue(p)
    PROVE  IInv'
<1>1. /\ TypeInv /\ AllChosen /\ AllCounts /\ Rings /\ Taking /\ Finding /\ Accounted
      /\ Taken /\ InOrder /\ OnceOnly /\ Returned
  BY DEF IInv, Accounted
<1>2. TypeInv' /\ Rings' /\ AllCounts'
  BY <1>1, ProducerTypes, ProducerRings, ProducerCounts
<1>3. /\ cons' = cons /\ head' = head /\ got' = got
      /\ SameClaims /\ SameMoved /\ \A q \in Producers : Grows(q)
  BY <1>1, ProducerGrows
<1>4. AllChosen'
  BY <1>1, <1>3 DEF AllChosen, Chosen, At
<1>5. Taking'
  <2>1. \A q \in Producers : head[q] <= head'[q]
    BY <1>1, <1>3 DEF TypeInv
  <2> QED BY <1>1, <1>2, <1>3, <2>1, TakingSame
<1>6. Finding'
  BY <1>1, <1>3, FindingSame
<1>7. Accounted'
  BY <1>1, ProducerQuiet, ProducerBuild, ProducerFill
<1>8. Taken'
  BY <1>1, <1>3, TakenSame
<1>9. InOrder' /\ OnceOnly'
  BY <1>1, <1>3 DEF InOrder, OnceOnly
<1> QED BY <1>2, <1>4, <1>5, <1>6, <1>7, <1>8, <1>9 DEF IInv

LEMMA ConsumerKeeps ==
    ASSUME QueueAssumption, IInv, NEW c \in Consumers, TryDequeue(c)
    PROVE  IInv'
<1>1. /\ TypeInv /\ AllChosen /\ AllCounts /\ Rings /\ Taking /\ Finding /\ Accounted
      /\ Taken /\ InOrder /\ OnceOnly /\ Leaving /\ \A d \in Consumers : Chosen(d)
  BY DEF IInv, Accounted, AllChosen
<1>2. TypeInv' /\ AllChosen' /\ Rings' /\ AllCounts'
  BY <1>1, ConsumerTypes, ConsumerRings, ConsumerCounts DEF AllChosen
<1>3. Finding'
  BY <1>1, ConsumerFinding, ConsumerUnlink
<1>4. Accounted'
  BY <1>1, ConsumerQuiet, ConsumerMove, ConsumerSetEmpty, ConsumerUnlink, ConsumerFree
<1>5. Taking' /\ Taken' /\ InOrder' /\ OnceOnly'
  <2>1. CASE Move(c)
    BY <1>1, <2>1, MoveTakes
  <2>2. CASE Take(c)
    <3>1. got' = got
      BY <2>2 DEF Take
    <3>2. InOrder' /\ OnceOnly'
      BY <1>1, <3>1 DEF InOrder, OnceOnly
    <3> QED BY <1>1, <2>2, <3>2, TakeTaking
  <2>3. CASE ~ Move(c) /\ ~ Take(c)
    <3>1. SameClaims /\ SameMoved /\ head' = head /\ got' = got
      BY <1>1, <2>3, ConsumerSame
    <3>2. Taking'
      <4>1. \A q \in Producers : head[q] <= head'[q]
        BY <1>1, <3>1 DEF TypeInv
      <4> QED BY <1>1, <1>2, <3>1, <4>1, TakingSame
    <3>3. Taken'
      BY <1>1, <3>1, TakenSame
    <3>4. InOrder' /\ OnceOnly'
      BY <1>1, <3>1 DEF InOrder, OnceOnly
    <3> QED BY <3>2, <3>3, <3>4
  <2> QED BY <2>1, <2>2, <2>3
<1> QED BY <1>2, <1>3, <1>4, <1>5 DEF IInv

LEMMA IInvStep ==
    ASSUME QueueAssumption, IInv, [Next]_vars
    PROVE  IInv'
<1>1. CASE Next
  BY <1>1, ProducerKeeps, ConsumerKeeps DEF Next
<1>2. CASE UNCHANGED vars
  <2>1. /\ list' = list /\ tail' = tail /\ head' = head /\ optimistic' = optimistic
        /\ overcommit' = overcommit /\ headers' = headers /\ entries' = entries
        /\ block' = block /\ pooled' = pooled /\ prod' = prod /\ cons' = cons /\ got' = got
    BY <1>2 DEF vars, counters, memory
  <2>2. TypeInv' <=> TypeInv
    BY <2>1 DEF TypeInv
  <2>3. AllChosen' <=> AllChosen
    BY <2>1 DEF AllChosen, Chosen, At
  <2>4. AllCounts' <=> AllCounts
    BY <2>1 DEF AllCounts, Counts, Promised, Rechecking, Before, Busy, At
  <2>5. Rings' <=> Rings
    BY <2>1 DEF Rings
  <2>6. (Taking' <=> Taking) /\ (Finding' <=> Finding)
    BY <2>1 DEF Taking, Finding, Claims, At
  <2>7. (\A p \in Producers : Present(p))' <=> \A p \in Producers : Present(p)
    BY <2>1 DEF Present, Moved, Claims
  <2>8. Keeping' <=> Keeping
    BY <2>1 DEF Keeping, Kept, Moved, Claims, Built, Users, Left
  <2>9. Leaving' <=> Leaving
    BY <2>1 DEF Leaving, Leaves, At
  <2>10. Returned' <=> Returned
    BY <2>1 DEF Returned, Users
  <2>11. (Taken' <=> Taken) /\ (InOrder' <=> InOrder) /\ (OnceOnly' <=> OnceOnly)
    BY <2>1 DEF Taken, InOrder, OnceOnly, Moved, Claims
  <2> QED BY <2>2, <2>3, <2>4, <2>5, <2>6, <2>7, <2>8, <2>9, <2>10, <2>11 DEF IInv, Accounted
<1> QED BY <1>1, <1>2

\* The index a producer begins with.
LEMMA RingInit ==
    ASSUME QueueAssumption, NEW hs, hs = <<FirstHeader>>,
           NEW es, es = [i \in 1 .. InitialIndexSize |-> FreshEntry]
    PROVE  hs \in Seq(Header) /\ es \in Seq(Entry) /\ Ring(hs, es, 0, "idle")
<1> DEFINE m == InitialIndexSize
           ix == [i \in 1 .. m |-> i]
<1>1. m \in Nat \ {0}
  BY DEF QueueAssumption
<1>2. ix \in Seq(Nat) /\ Len(ix) = m /\ DOMAIN ix = 1 .. m /\ \A i \in 1 .. m : ix[i] = i
  <2>1. ix \in [1 .. m -> Nat] /\ \A i \in 1 .. m : ix[i] = i
    BY <1>1
  <2> HIDE DEF ix, m
  <2> QED BY <1>1, <2>1, FunctionSeq
<1>3. es \in Seq(Entry) /\ Len(es) = m /\ DOMAIN es = 1 .. m
  <2>1. FreshEntry \in Entry
    BY DEF FreshEntry, Entry, INVALID_BLOCK_BASE
  <2>2. es \in [1 .. m -> Entry]
    BY <2>1
  <2> HIDE DEF m
  <2> QED BY <1>1, <2>2, FunctionSeq
<1>4. \A e \in 1 .. m : es[e].key = INVALID_BLOCK_BASE /\ es[e].value = Null
  BY DEF FreshEntry
<1>5. FirstHeader.tail = m /\ FirstHeader.index = ix
  BY DEF FirstHeader
<1>6. FirstHeader \in Header
  BY <1>1, <1>2 DEF FirstHeader, Header
<1> HIDE DEF ix, m
<1>7. hs \in Seq(Header) /\ hs # <<>> /\ Last(hs) = FirstHeader /\ DOMAIN hs = {1} /\ hs[1] = FirstHeader
  BY <1>6 DEF Last
<1>8. Headers(hs, es)
  <2>1. Last(hs).index = ix /\ Len(ix) = Len(es)
    BY <1>2, <1>3, <1>5, <1>7
  <2>2. \A h \in DOMAIN hs : hs[h].tail = m /\ hs[h].index = ix
    BY <1>5, <1>7
  <2>3. m \in DOMAIN ix /\ \A x \in DOMAIN ix : ix[x] \in DOMAIN es
    <3>1. m \in 1 .. m
      BY <1>1
    <3>2. \A x \in 1 .. m : ix[x] = x
      BY <1>2
    <3> QED BY <1>2, <1>3, <3>1, <3>2
  <2>4. \A x, y \in DOMAIN ix : ix[x] = ix[y] => x = y
    BY <1>2
  <2>5. \A e \in DOMAIN es : \E x \in DOMAIN ix : ix[x] = e
    BY <1>2, <1>3
  <2> QED BY <1>7, <2>1, <2>2, <2>3, <2>4, <2>5 DEF Headers
<1>9. Spaced(ix, ix)
  <2>1. Multiple(m, m) /\ Multiple(0, m)
    BY <1>1, MultipleSelf
  <2>2. ASSUME NEW x \in DOMAIN ix, NEW y \in DOMAIN ix, NEW u \in DOMAIN ix, NEW v \in DOMAIN ix,
               ix[x] = ix[u], ix[y] = ix[v]
        PROVE  Multiple((x - y) - (u - v), m)
    <3>1. x = u /\ y = v /\ x \in Int /\ y \in Int
      BY <1>2, <2>2
    <3>2. (x - y) - (u - v) = 0
      BY <3>1
    <3> QED BY <2>1, <3>2
  <2> QED BY <1>2, <2>1, <2>2 DEF Spaced
<1>10. \A h \in DOMAIN hs : Spaced(hs[h].index, Last(hs).index)
  BY <1>5, <1>7, <1>9
<1>11. Keyed(hs, es, 0, "idle")
  <2>1. Last(hs).index = ix
    BY <1>5, <1>7
  <2>2. \A x \in DOMAIN ix : /\ es[ix[x]].key = INVALID_BLOCK_BASE
                             /\ es[ix[x]].value = Null
    BY <1>2, <1>4
  <2> QED BY <2>1, <2>2 DEF Keyed
<1>12. Linked(hs, es, 0, "idle")
  BY DEF Linked
<1> QED BY <1>3, <1>7, <1>8, <1>10, <1>11, <1>12 DEF Ring

LEMMA IInvInit ==
    ASSUME QueueAssumption, Init
    PROVE  IInv
<1>1. \A p \in Producers : /\ headers[p] = <<FirstHeader>>
                           /\ entries[p] = [i \in 1 .. InitialIndexSize |-> FreshEntry]
                           /\ tail[p] = 0 /\ head[p] = 0 /\ optimistic[p] = 0 /\ overcommit[p] = 0
                           /\ prod[p] = Idle
  BY DEF Init
<1>2. \A c \in Consumers : cons[c] = Idle /\ cons[c].at = "idle" /\ got[c] = <<>> /\ DOMAIN got[c] = {}
  BY DEF Init, Idle
<1>3. \A p \in Producers : /\ headers[p] \in Seq(Header) /\ entries[p] \in Seq(Entry)
                           /\ Ring(headers[p], entries[p], 0, "idle")
  BY <1>1, RingInit
<1>4. Rings
  BY <1>1, <1>3 DEF Rings, Idle
<1>5. FreshSlots \in [Slots -> Nat \X Nat]
  BY DEF FreshSlots, Slots, Empty
<1>6. TypeInv
  <2>1. headers \in [Producers -> Seq(Header)] /\ entries \in [Producers -> Seq(Entry)]
    BY <1>3 DEF Init
  <2>2. block \in [Blocks -> Memory]
    BY <1>5 DEF Init, Memory
  <2>3. cons \in [Consumers -> ConsumerState] /\ prod \in [Producers -> [at : {"idle", "link", "block", "publish"}]]
    BY InState DEF Init, Idle
  <2>4. got \in [Consumers -> Seq(Nat \X Nat)] /\ list \in Seq(Producers)
    BY DEF Init
  <2>5. pooled \in 0 .. PoolSize
    BY DEF Init, QueueAssumption
  <2>6. /\ tail \in [Producers -> Nat] /\ head \in [Producers -> Nat]
        /\ optimistic \in [Producers -> Nat] /\ overcommit \in [Producers -> Nat]
    BY DEF Init
  <2> QED BY <2>1, <2>2, <2>3, <2>4, <2>5, <2>6 DEF TypeInv
<1>7. AllChosen
  BY <1>2 DEF AllChosen, Chosen, At
<1>8. AllCounts
  <2> SUFFICES ASSUME NEW p \in Producers PROVE Counts(p)
    BY DEF AllCounts
  <2>1. \A at : at # "idle" => Busy(p, at) = {}
    BY <1>2 DEF Busy, At
  <2>2. Busy(p, "take") = {} /\ Busy(p, "undo") = {} /\ Rechecking(p) = {}
    BY <2>1 DEF Rechecking
  <2>3. Cardinality({}) = 0
    BY FS_EmptySet
  <2>4. Cardinality(Busy(p, "take")) = 0 /\ Cardinality(Busy(p, "undo")) = 0
        /\ Cardinality(Rechecking(p)) = 0
    BY <2>2, <2>3
  <2>5. head[p] = 0 /\ tail[p] = 0 /\ optimistic[p] = 0 /\ overcommit[p] = 0
    BY <1>1
  <2>6. Promised(p) = 0
    BY <2>4, <2>5 DEF Promised
  <2>7. /\ Promised(p) <= tail[p]
        /\ optimistic[p] = Promised(p) + overcommit[p] + Cardinality(Busy(p, "undo"))
                           + Cardinality(Rechecking(p))
    BY <2>4, <2>5, <2>6
  <2>8. \A c \in Consumers : cons[c].at \notin {"guess", "bump", "recheck"}
    BY <1>2
  <2>9. \A c \in Rechecking(p) : FALSE
    BY <2>2
  <2> QED BY <2>7, <2>8, <2>9 DEF Counts
<1>9. \A c \in Consumers : \A p, i : ~ Claims(c, p, i)
  BY <1>2 DEF Claims
<1>10. Taking /\ Finding /\ Taken
  BY <1>2, <1>9 DEF Taking, Finding, Taken, At
<1>11. InOrder /\ OnceOnly
  BY <1>2 DEF InOrder, OnceOnly
<1>12. \A p \in Producers : \A e \in DOMAIN entries[p] : entries[p][e].value = Null
  <2> SUFFICES ASSUME NEW p \in Producers, NEW e \in DOMAIN entries[p]
               PROVE  entries[p][e].value = Null
    OBVIOUS
  <2>1. entries[p] = [i \in 1 .. InitialIndexSize |-> FreshEntry]
    BY <1>1
  <2>2. entries[p][e] = FreshEntry
    BY <2>1
  <2> QED BY <2>2 DEF FreshEntry
<1>13. \A p \in Producers : Present(p)
  <2> SUFFICES ASSUME NEW p \in Producers PROVE Present(p)
    OBVIOUS
  <2>1. Filled(0, "idle") = 0
    BY BlockSize DEF Filled, AtStart
  <2>2. Filled(tail[p], prod[p].at) = 0
    BY <1>1, <2>1 DEF Idle
  <2>3. 0 .. Filled(tail[p], prod[p].at) - 1 = {}
    BY <2>2
  <2> QED BY <2>3 DEF Present
<1>14. Keeping
  BY <1>12 DEF Keeping
<1>15. Leaving
  BY <1>2 DEF Leaving, Leaves, At
<1>16. Returned
  <2>1. \A b \in Blocks : block[b].at = (IF b <= PoolSize THEN "pool" ELSE "heap") /\ block[b].slots = FreshSlots
    BY DEF Init
  <2>2. \A b \in Blocks : b \in pooled + 1 .. PoolSize => b <= PoolSize
    BY <1>6 DEF QueueAssumption, Blocks
  <2> QED BY <2>1, <2>2 DEF Returned
<1> QED BY <1>4, <1>6, <1>7, <1>8, <1>10, <1>11, <1>13, <1>14, <1>15, <1>16 DEF IInv, Accounted

\* A queue keeps its invariant.
THEOREM QueueInvariant ==
    ASSUME QueueAssumption
    PROVE  Spec => []IInv
<1>1. Init => IInv
  BY IInvInit
<1>2. IInv /\ [Next]_vars => IInv'
  BY IInvStep
<1> QED BY <1>1, <1>2, PTL DEF Spec

\* A block that was given back is empty and out of use; a block that is empty is in the
\* hands of the one that gives it back.
LEMMA ReturnedBlocks ==
    ASSUME QueueAssumption, IInv
    PROVE  BlocksReturn
<1>1. TypeInv /\ Keeping /\ Leaving /\ Returned
  BY DEF IInv, Accounted
<1> SUFFICES ASSUME NEW b \in Blocks
             PROVE  /\ block[b].at \in {"free", "heap"} =>
                           ~ InUse(b) /\ \A i \in 0 .. BLOCK_SIZE - 1 : block[b].slots[i] = Empty
                    /\ block[b].at = "used" /\ block[b].emptied = BLOCK_SIZE => InUse(b)
  BY DEF BlocksReturn
<1>2. InUse(b) => block[b].at = "used"
  BY <1>1, LeaverBlock DEF InUse, Gone
<1>3. block[b].at # "used" => \A i \in 0 .. BLOCK_SIZE - 1 : block[b].slots[i] = Empty
  BY <1>1 DEF Returned, FreshSlots
<1>4. block[b].at = "used" /\ block[b].emptied = BLOCK_SIZE => InUse(b)
  BY <1>1 DEF Returned, Users, InUse
<1> QED BY <1>2, <1>3, <1>4

\* For any threads that enqueue and that dequeue, in any interleaving of their accesses to
\* what they share: a consumer takes the elements of a producer in the order they were
\* enqueued, nothing is taken twice, no slot is read that nothing was built in, and a block
\* is given back exactly when its last element is gone.
THEOREM QueueSafe ==
    ASSUME QueueAssumption
    PROVE  Spec => [](TypeInv /\ InOrder /\ OnceOnly /\ BlocksReturn)
<1>1. IInv => TypeInv /\ InOrder /\ OnceOnly /\ BlocksReturn
  BY ReturnedBlocks DEF IInv
<1> QED BY <1>1, QueueInvariant, PTL
=============================================================================
