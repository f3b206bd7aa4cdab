---------------------------- MODULE Stream_proofs ----------------------------
(***************************************************************************)
(* Whatever the block size, the limit and the calls, a Stream keeps its    *)
(* positions inside its memory, shows only written bytes, stays within the *)
(* limit, and is a queue of bytes.                                         *)
(***************************************************************************)
EXTENDS Stream, SequenceTheorems, TLAPS

Cell == Bytes \cup {Junk}

\* The invariant, of any record: the three properties of s together.
Good(t) ==
    /\ t \in [mem : Seq(Cell), rpos : Nat, size : Nat]
    /\ t.size <= Len(t.mem)
    /\ t.rpos < t.size \/ (t.rpos = 0 /\ t.size = 0)
    /\ \A i \in t.rpos + 1 .. t.size : t.mem[i] \in Bytes
    /\ t.size <= MaxSize

\* u shows what t shows, and perhaps more behind it.
Extends(t, u) ==
    /\ StreamLen(t) <= StreamLen(u)
    /\ \A i \in 1 .. StreamLen(t) : u.mem[u.rpos + i] = t.mem[t.rpos + i]

\* u shows what t shows, and then d.
Adds(t, u, d) ==
    /\ Extends(t, u)
    /\ StreamLen(u) = StreamLen(t) + Len(d)
    /\ \A i \in 1 .. Len(d) : u.mem[u.rpos + StreamLen(t) + i] = d[i]

\* u has room for n bytes more.
Room(u, n) == u.size + n <= Len(u.mem) /\ u.size + n <= MaxSize

\* A function on 1 .. n is a sequence of length n.
LEMMA FunctionSeq ==
    ASSUME NEW S, NEW n \in Nat, NEW f \in [1 .. n -> S]
    PROVE  f \in Seq(S) /\ Len(f) = n
OBVIOUS

\* ROUNDUP never rounds down.
LEMMA RoundUpBound ==
    ASSUME NEW x \in Nat
    PROVE  RoundUp(x, Block) \in Nat /\ RoundUp(x, Block) >= x
<1> DEFINE y == x + (Block - 1)
           q == y \div Block
           r == y % Block
<1>1. Block \in Nat \ {0} /\ y \in Nat
  BY BlockAssumption
<1>2. q \in Int /\ r \in 0 .. Block - 1 /\ y = Block * q + r
  BY <1>1
<1>3. RoundUp(x, Block) = q * Block
  BY DEF RoundUp
<1> HIDE DEF q, r
<1>4. q * Block = Block * q
  BY <1>1, <1>2
<1>5. q * Block \in Int /\ q * Block >= x
  BY <1>1, <1>2, <1>4
<1> QED BY <1>3, <1>5

\* Shrink moves what is shown to the start of the memory.
LEMMA ShrinkGood ==
    ASSUME NEW t, Good(t)
    PROVE  /\ Good(Shrink(t)) /\ Extends(t, Shrink(t))
           /\ Shrink(t).rpos = 0 /\ Shrink(t).size = StreamLen(t)
<1>1. CASE t.rpos > 0
  <2> DEFINE m == [i \in 1 .. Capacity(t) |->
                     IF i <= StreamLen(t) THEN t.mem[t.rpos + i] ELSE t.mem[i]]
  <2>1. Shrink(t) = [mem |-> m, rpos |-> 0, size |-> StreamLen(t)]
    BY <1>1 DEF Shrink
  <2>2. /\ Capacity(t) \in Nat /\ StreamLen(t) \in Nat /\ t.rpos \in Nat
        /\ StreamLen(t) <= Capacity(t) /\ t.rpos + StreamLen(t) <= Capacity(t)
        /\ t.rpos + StreamLen(t) = t.size
    BY DEF Good, Capacity, StreamLen
  <2>3. \A i \in 1 .. Capacity(t) : t.mem[i] \in Cell
    BY DEF Good, Capacity
  <2>4. m \in [1 .. Capacity(t) -> Cell]
    BY <2>2, <2>3
  <2>5. m \in Seq(Cell) /\ Len(m) = Capacity(t)
    <3> HIDE DEF m
    <3> QED BY <2>2, <2>4, FunctionSeq
  <2>6. \A i \in 1 .. StreamLen(t) : m[i] = t.mem[t.rpos + i]
    BY <2>2
  <2>7. \A i \in 1 .. StreamLen(t) : m[i] \in Bytes
    BY <2>2, <2>6 DEF Good
  <2> HIDE DEF m
  <2>8. StreamLen(t) <= MaxSize
    BY <2>2, BlockAssumption DEF Good
  <2>9. Good(Shrink(t))
    BY <2>1, <2>2, <2>5, <2>7, <2>8 DEF Good
  <2> QED BY <2>1, <2>2, <2>6, <2>9 DEF Extends, StreamLen
<1>2. CASE ~ (t.rpos > 0)
  BY <1>2 DEF Shrink, Extends, Good, StreamLen
<1> QED BY <1>1, <1>2

\* Grow leaves the bytes and makes the memory large enough.
LEMMA GrowGood ==
    ASSUME NEW t, NEW n \in Nat, Good(t), t.size + n <= MaxSize
    PROVE  /\ Good(Grow(t, n)) /\ Extends(t, Grow(t, n)) /\ Room(Grow(t, n), n)
           /\ Grow(t, n).rpos = t.rpos /\ Grow(t, n).size = t.size
<1> t.size \in Nat /\ t.rpos \in Nat /\ Len(t.mem) \in Nat
  BY DEF Good
<1>1. CASE Capacity(t) < t.size + n
  <2> DEFINE c == RoundUp(t.size + n, Block)
             m == [i \in 1 .. c |-> IF i <= t.size THEN t.mem[i] ELSE Junk]
  <2>1. c \in Nat /\ c >= t.size + n
    <3>1. t.size + n \in Nat
      OBVIOUS
    <3> QED BY <3>1, RoundUpBound
  <2>2. \A i \in 1 .. t.size : t.mem[i] \in Cell
    BY DEF Good
  <2>3. m \in [1 .. c -> Cell]
    <3> HIDE DEF c
    <3> QED BY <2>1, <2>2 DEF Cell
  <2>4. m \in Seq(Cell) /\ Len(m) = c
    <3> HIDE DEF m, c
    <3> QED BY <2>1, <2>3, FunctionSeq
  <2>5. \A i \in 1 .. t.size : m[i] = t.mem[i]
    <3> HIDE DEF c
    <3> QED BY <2>1
  <2>6. Grow(t, n) = [t EXCEPT !.mem = m]
    BY <1>1 DEF Grow
  <2> HIDE DEF m, c
  <2>7. /\ Grow(t, n) \in [mem : Seq(Cell), rpos : Nat, size : Nat]
        /\ Grow(t, n).mem = m /\ Grow(t, n).rpos = t.rpos /\ Grow(t, n).size = t.size
    BY <2>4, <2>6 DEF Good
  <2>8. \A i \in t.rpos + 1 .. t.size : m[i] \in Bytes
    BY <2>5 DEF Good
  <2>9. Good(Grow(t, n))
    BY <2>1, <2>4, <2>7, <2>8 DEF Good
  <2>10. Room(Grow(t, n), n)
    BY <2>1, <2>4, <2>7 DEF Room
  <2>11. Extends(t, Grow(t, n))
    <3>1. StreamLen(t) = t.size - t.rpos /\ StreamLen(Grow(t, n)) = t.size - t.rpos
      BY <2>7 DEF StreamLen
    <3>2. \A i \in 1 .. t.size - t.rpos : m[t.rpos + i] = t.mem[t.rpos + i]
      BY <2>5
    <3> QED BY <2>7, <3>1, <3>2 DEF Extends
  <2> QED BY <2>7, <2>9, <2>10, <2>11
<1>2. CASE ~ (Capacity(t) < t.size + n)
  BY <1>2 DEF Grow, Capacity, Extends, Room, StreamLen
<1> QED BY <1>1, <1>2

\* EnsureWritable never changes what is shown; when it returns 0, there is room.
LEMMA EnsureGood ==
    ASSUME NEW t, NEW n \in Nat, Good(t)
    PROVE  /\ Good(EnsureWritable(t, n)) /\ Extends(t, EnsureWritable(t, n))
           /\ StreamLen(EnsureWritable(t, n)) = StreamLen(t)
           /\ Writable(t, n) => Room(EnsureWritable(t, n), n)
<1> DEFINE u == Shrink(t)
<1>1. /\ Good(u) /\ Extends(t, u) /\ u.rpos = 0 /\ u.size = StreamLen(t)
      /\ StreamLen(t) \in Nat
  BY ShrinkGood DEF Good, StreamLen
<1>2. StreamLen(u) = StreamLen(t)
  BY <1>1 DEF StreamLen
<1>3. CASE n <= 0
  BY <1>3 DEF EnsureWritable, Extends, Room, Good, StreamLen
<1>4. CASE n > 0 /\ Writable(t, n)
  <2> DEFINE v == Grow(u, n)
  <2>1. EnsureWritable(t, n) = v /\ u.size + n <= MaxSize
    BY <1>4 DEF EnsureWritable, Writable
  <2> HIDE DEF u
  <2>2. Good(v) /\ Extends(u, v) /\ Room(v, n) /\ v.rpos = u.rpos /\ v.size = u.size
    BY <1>1, <2>1, GrowGood
  <2> HIDE DEF v
  <2>3. StreamLen(v) = StreamLen(u)
    BY <2>2 DEF StreamLen
  <2>4. Extends(t, v)
    BY <1>1, <1>2, <2>2, <2>3 DEF Extends
  <2> QED BY <1>2, <2>1, <2>2, <2>3, <2>4
<1>5. CASE n > 0 /\ ~ Writable(t, n)
  BY <1>1, <1>2, <1>5 DEF EnsureWritable
<1> QED BY <1>3, <1>4, <1>5

\* A copy to End() changes nothing that is shown; what it writes is written.
LEMMA CopiedGood ==
    ASSUME NEW t, NEW d \in Seq(Bytes), Good(t), Room(t, Len(d))
    PROVE  LET u == Copied(t, d)
               v == [u EXCEPT !.size = @ + Len(d)]
           IN  /\ Good(v) /\ Adds(t, v, d)
               /\ Capacity(u) = Capacity(t) /\ u.size = t.size
<1> DEFINE m == [i \in 1 .. Capacity(t) |->
                   IF i > t.size /\ i <= t.size + Len(d) THEN d[i - t.size] ELSE t.mem[i]]
           u == Copied(t, d)
           v == [u EXCEPT !.size = @ + Len(d)]
<1>1. /\ t.size \in Nat /\ t.rpos \in Nat /\ Len(d) \in Nat /\ Capacity(t) \in Nat
      /\ t.size + Len(d) <= Capacity(t) /\ Capacity(t) = Len(t.mem)
      /\ t.rpos <= t.size
  BY DEF Good, Room, Capacity
<1>2. \A i \in 1 .. Len(d) : d[i] \in Bytes
  OBVIOUS
<1>3. \A i \in t.size + 1 .. t.size + Len(d) : m[i] = d[i - t.size] /\ m[i] \in Bytes
  BY <1>1, <1>2
<1>4. \A i \in 1 .. t.size : m[i] = t.mem[i]
  BY <1>1
<1>5. \A i \in 1 .. Capacity(t) : t.mem[i] \in Cell
  BY <1>1 DEF Good
<1>6. m \in [1 .. Capacity(t) -> Cell]
  BY <1>1, <1>2, <1>5 DEF Cell
<1>7. m \in Seq(Cell) /\ Len(m) = Capacity(t)
  <2> HIDE DEF m
  <2> QED BY <1>1, <1>6, FunctionSeq
<1>8. u = [t EXCEPT !.mem = m]
  BY DEF Copied
<1> HIDE DEF m, u
<1>9. /\ u \in [mem : Seq(Cell), rpos : Nat, size : Nat]
      /\ u.mem = m /\ u.rpos = t.rpos /\ u.size = t.size
  BY <1>7, <1>8 DEF Good
<1>10. /\ v \in [mem : Seq(Cell), rpos : Nat, size : Nat]
       /\ v.mem = m /\ v.rpos = t.rpos /\ v.size = t.size + Len(d)
  BY <1>1, <1>9
<1>11. \A i \in t.rpos + 1 .. t.size + Len(d) : m[i] \in Bytes
  <2> SUFFICES ASSUME NEW i \in t.rpos + 1 .. t.size + Len(d) PROVE m[i] \in Bytes
    OBVIOUS
  <2>1. CASE i <= t.size
    <3>1. i \in t.rpos + 1 .. t.size /\ i \in 1 .. t.size
      BY <1>1, <2>1
    <3> QED BY <1>4, <3>1 DEF Good
  <2>2. CASE i > t.size
    <3>1. i \in t.size + 1 .. t.size + Len(d)
      BY <1>1, <2>2
    <3> QED BY <1>3, <3>1
  <2> QED BY <1>1, <2>1, <2>2
<1> HIDE DEF v
<1>12. Good(v)
  BY <1>1, <1>7, <1>10, <1>11 DEF Good, Room
<1>13. Adds(t, v, d)
  <2>1. StreamLen(t) = t.size - t.rpos /\ StreamLen(v) = (t.size + Len(d)) - t.rpos
    BY <1>10 DEF StreamLen
  <2>2. \A i \in 1 .. t.size - t.rpos : m[t.rpos + i] = t.mem[t.rpos + i]
    <3>1. \A i \in 1 .. t.size - t.rpos : t.rpos + i \in 1 .. t.size
      BY <1>1
    <3> QED BY <1>4, <3>1
  <2>3. StreamLen(t) <= StreamLen(v) /\ StreamLen(v) = StreamLen(t) + Len(d)
    BY <1>1, <2>1
  <2>4. Extends(t, v)
    BY <1>10, <2>1, <2>2, <2>3 DEF Extends
  <2>5. \A i \in 1 .. Len(d) : m[t.rpos + (t.size - t.rpos) + i] = d[i]
    <3>1. \A i \in 1 .. Len(d) : /\ t.rpos + (t.size - t.rpos) + i = t.size + i
                                 /\ t.size + i \in t.size + 1 .. t.size + Len(d)
                                 /\ (t.size + i) - t.size = i
      BY <1>1
    <3> QED BY <1>3, <3>1
  <2> QED BY <1>10, <2>1, <2>3, <2>4, <2>5 DEF Adds
<1> QED BY <1>7, <1>9, <1>12, <1>13 DEF Capacity, u, v

\* Extends is transitive where the lengths are numbers.
LEMMA ExtendsTrans ==
    ASSUME NEW t, NEW u, NEW v, Good(t), Good(u), Good(v), Extends(t, u), Extends(u, v)
    PROVE  Extends(t, v)
<1> StreamLen(t) \in Nat /\ StreamLen(u) \in Nat /\ StreamLen(v) \in Nat
  BY DEF Good, StreamLen
<1> QED BY DEF Extends

\* WriteSome adds its bytes behind the others.
LEMMA WriteGood ==
    ASSUME NEW t, NEW n \in Nat, NEW d \in Seq(Bytes), Good(t), Writable(t, n), Len(d) <= n
    PROVE  Good(Write(t, n, d)) /\ Adds(t, Write(t, n, d), d)
<1> DEFINE u == EnsureWritable(t, n)
           c == Copied(u, d)
           v == [c EXCEPT !.size = @ + Len(d)]
<1>1. Good(u) /\ Extends(t, u) /\ Room(u, n) /\ StreamLen(u) = StreamLen(t)
  BY EnsureGood
<1> HIDE DEF u
<1>2. u.size \in Nat /\ Len(u.mem) \in Nat /\ Len(d) \in Nat
  BY <1>1 DEF Good
<1>3. Room(u, Len(d))
  BY <1>1, <1>2, BlockAssumption DEF Room
<1>4. Good(v) /\ Adds(u, v, d) /\ Capacity(c) = Capacity(u) /\ c.size = u.size
  BY <1>1, <1>3, CopiedGood
<1>5. Write(t, n, d) = AddSize(c, Len(d))
  BY DEF Write, u
<1> HIDE DEF c
<1>6. c.size + Len(d) <= Capacity(c)
  BY <1>3, <1>4 DEF Room, Capacity
<1>7. Write(t, n, d) = v
  BY <1>5, <1>6 DEF AddSize
<1> HIDE DEF v
<1>8. Extends(t, v)
  BY <1>1, <1>4, ExtendsTrans DEF Adds
<1> QED BY <1>1, <1>4, <1>7, <1>8 DEF Adds

\* Append adds all of its bytes, or none.
LEMMA AppendGood ==
    ASSUME NEW t, NEW d \in Seq(Bytes), Good(t)
    PROVE  Good(AppendData(t, d)) /\ Extends(t, AppendData(t, d))
<1> DEFINE u == EnsureWritable(t, Len(d))
           c == Copied(u, d)
           v == [c EXCEPT !.size = @ + Len(d)]
<1>1. Good(u) /\ Extends(t, u) /\ (Writable(t, Len(d)) => Room(u, Len(d)))
  BY EnsureGood
<1>2. AppendData(t, d) = IF Writable(t, Len(d)) THEN v ELSE u
  BY DEF AppendData
<1> HIDE DEF u
<1>3. Writable(t, Len(d)) => Good(v) /\ Extends(u, v)
  BY <1>1, CopiedGood DEF Adds
<1> HIDE DEF v
<1>4. Writable(t, Len(d)) => Extends(t, v)
  BY <1>1, <1>3, ExtendsTrans
<1> QED BY <1>1, <1>2, <1>3, <1>4

\* Skip drops bytes from the front, all of them when there are no more.
LEMMA SkipGood ==
    ASSUME NEW t, NEW n \in Nat, Good(t)
    PROVE  LET u == Skip(t, n)
               k == StreamLen(t) - StreamLen(u)
           IN  /\ Good(u) /\ k \in 0 .. StreamLen(t)
               /\ \A i \in 1 .. StreamLen(u) : u.mem[u.rpos + i] = t.mem[t.rpos + k + i]
<1> DEFINE u == Skip(t, n)
<1>1. t.size \in Nat /\ t.rpos \in Nat /\ Len(t.mem) \in Nat /\ t.rpos <= t.size
  BY DEF Good
<1>2. CASE t.rpos + n < t.size
  <2>1. u = [t EXCEPT !.rpos = t.rpos + n]
    BY <1>1, <1>2 DEF Skip
  <2>2. /\ u \in [mem : Seq(Cell), rpos : Nat, size : Nat]
        /\ u.mem = t.mem /\ u.rpos = t.rpos + n /\ u.size = t.size
    BY <1>1, <2>1 DEF Good
  <2>3. Good(u)
    BY <1>1, <1>2, <2>2 DEF Good
  <2> HIDE DEF u
  <2>4. StreamLen(t) - StreamLen(u) = n
    BY <1>1, <2>2 DEF StreamLen
  <2>5. \A i \in 1 .. StreamLen(u) : u.mem[u.rpos + i] = t.mem[t.rpos + n + i]
    BY <2>2
  <2>6. n \in 0 .. StreamLen(t)
    BY <1>1, <1>2 DEF StreamLen
  <2> QED BY <2>3, <2>4, <2>5, <2>6 DEF u
<1>3. CASE ~ (t.rpos + n < t.size)
  <2>1. u = [t EXCEPT !.rpos = 0, !.size = 0]
    BY <1>1, <1>3 DEF Skip
  <2>2. /\ u \in [mem : Seq(Cell), rpos : Nat, size : Nat]
        /\ u.mem = t.mem /\ u.rpos = 0 /\ u.size = 0
    <3> HIDE DEF u
    <3> QED BY <2>1 DEF Good
  <2> HIDE DEF u
  <2>3. Good(u)
    BY <1>1, <2>2, BlockAssumption DEF Good
  <2> QED BY <1>1, <2>2, <2>3 DEF StreamLen, u
<1> QED BY <1>2, <1>3

\* Reset empties the stream.
LEMMA ResetGood ==
    ASSUME NEW t, Good(t)
    PROVE  Good(Reset(t)) /\ StreamLen(Reset(t)) = 0
<1>1. /\ Reset(t) \in [mem : Seq(Cell), rpos : Nat, size : Nat]
      /\ Reset(t).mem = t.mem /\ Reset(t).rpos = 0 /\ Reset(t).size = 0
  BY DEF Good, Reset
<1>2. Len(t.mem) \in Nat
  BY DEF Good
<1> QED BY <1>1, <1>2, BlockAssumption DEF Good, StreamLen

-----------------------------------------------------------------------------
(* The same facts about what is shown, as sequences.                       *)

\* What Buf() and Len() show.
LEMMA Shown ==
    ASSUME NEW t, Good(t)
    PROVE  /\ StreamLen(t) \in Nat
           /\ Contents(t) \in Seq(Bytes)
           /\ Len(Contents(t)) = StreamLen(t)
           /\ \A i \in 1 .. StreamLen(t) : Contents(t)[i] = t.mem[t.rpos + i]
<1> DEFINE l == StreamLen(t)
           q == Contents(t)
<1>1. t.rpos \in Nat /\ t.size \in Nat /\ l = t.size - t.rpos /\ l \in Nat
  BY DEF Good, StreamLen
<1>2. q = [i \in 1 .. l |-> t.mem[t.rpos + i]]
  BY DEF Contents
<1> HIDE DEF l, q
<1>3. \A i \in 1 .. l : t.rpos + i \in t.rpos + 1 .. t.size
  BY <1>1
<1>4. \A i \in 1 .. l : t.mem[t.rpos + i] \in Bytes
  BY <1>3 DEF Good
<1>5. q \in [1 .. l -> Bytes]
  BY <1>2, <1>4
<1>6. q \in Seq(Bytes) /\ Len(q) = l
  BY <1>1, <1>5, FunctionSeq
<1> QED BY <1>1, <1>2, <1>6 DEF l, q

\* What is written comes behind what was there.
LEMMA WriteShows ==
    ASSUME NEW t, NEW n \in Nat, NEW d \in Seq(Bytes), Good(t), Writable(t, n), Len(d) <= n
    PROVE  Contents(Write(t, n, d)) = Contents(t) \o d
<1> DEFINE u == Write(t, n, d)
           p == Contents(t)
           q == Contents(u)
<1>1. Good(u) /\ Adds(t, u, d)
  BY WriteGood
<1> HIDE DEF u
<1>2. /\ StreamLen(t) \in Nat /\ p \in Seq(Bytes) /\ Len(p) = StreamLen(t)
      /\ \A i \in 1 .. StreamLen(t) : p[i] = t.mem[t.rpos + i]
  BY Shown
<1>3. /\ StreamLen(u) \in Nat /\ q \in Seq(Bytes) /\ Len(q) = StreamLen(u)
      /\ \A i \in 1 .. StreamLen(u) : q[i] = u.mem[u.rpos + i]
  BY <1>1, Shown
<1> HIDE DEF p, q
<1>4. Len(q) = Len(p) + Len(d)
  BY <1>1, <1>2, <1>3 DEF Adds
<1>5. \A i \in 1 .. Len(p) : q[i] = p[i]
  BY <1>1, <1>2, <1>3 DEF Adds, Extends
<1>6. \A i \in 1 .. Len(d) : q[Len(p) + i] = d[i]
  <2> SUFFICES ASSUME NEW i \in 1 .. Len(d) PROVE q[Len(p) + i] = d[i]
    OBVIOUS
  <2>1. Len(p) + i \in 1 .. StreamLen(u)
    BY <1>2, <1>3, <1>4
  <2>2. q[Len(p) + i] = u.mem[u.rpos + (Len(p) + i)]
    BY <1>3, <2>1
  <2>3. u.rpos + (Len(p) + i) = u.rpos + StreamLen(t) + i
    BY <1>1, <1>2 DEF Good
  <2> QED BY <1>1, <2>2, <2>3 DEF Adds
<1>7. q = p \o d
  <2> DEFINE r == p \o d
  <2>1. /\ r \in Seq(Bytes) /\ Len(r) = Len(p) + Len(d)
        /\ \A i \in 1 .. Len(p) : r[i] = p[i]
        /\ \A i \in 1 .. Len(d) : r[Len(p) + i] = d[i]
    BY <1>2
  <2> HIDE DEF r
  <2>2. \A i \in 1 .. Len(q) : q[i] = r[i]
    <3> SUFFICES ASSUME NEW i \in 1 .. Len(q) PROVE q[i] = r[i]
      OBVIOUS
    <3>1. CASE i <= Len(p)
      BY <1>2, <1>5, <2>1, <3>1
    <3>2. CASE i > Len(p)
      <4>1. i - Len(p) \in 1 .. Len(d) /\ Len(p) + (i - Len(p)) = i
        BY <1>2, <1>3, <1>4, <3>2
      <4> QED BY <1>6, <2>1, <4>1
    <3> QED BY <1>2, <1>3, <3>1, <3>2
  <2>3. q = r
    BY <1>3, <1>4, <2>1, <2>2, SeqEqual
  <2> QED BY <2>3 DEF r
<1> QED BY <1>7 DEF p, q, u

\* What is skipped is the front.
LEMMA SkipShows ==
    ASSUME NEW t, Good(t), NEW n \in 0 .. StreamLen(t)
    PROVE  /\ Good(Skip(t, n)) /\ StreamLen(Skip(t, n)) = StreamLen(t) - n
           /\ Contents(Skip(t, n)) = SubSeq(Contents(t), n + 1, StreamLen(t))
<1> DEFINE u == Skip(t, n)
           p == Contents(t)
           q == Contents(u)
<1>1. /\ StreamLen(t) \in Nat /\ p \in Seq(Bytes) /\ Len(p) = StreamLen(t)
      /\ \A i \in 1 .. StreamLen(t) : p[i] = t.mem[t.rpos + i]
  BY Shown
<1>2. Good(u) /\ t.rpos \in Nat /\ t.size \in Nat /\ StreamLen(t) = t.size - t.rpos
  <2>1. n \in Nat
    BY <1>1
  <2> QED BY <2>1, SkipGood DEF Good, StreamLen
<1>3. StreamLen(u) = StreamLen(t) - n
  <2>1. CASE t.rpos + n < t.size
    <3>1. u.rpos = t.rpos + n /\ u.size = t.size
      BY <1>1, <2>1 DEF Skip, Good
    <3> QED BY <1>1, <1>2, <3>1 DEF StreamLen
  <2>2. CASE ~ (t.rpos + n < t.size)
    <3>1. u.rpos = 0 /\ u.size = 0
      BY <1>1, <2>2 DEF Skip, Good
    <3> QED BY <1>1, <1>2, <2>2, <3>1 DEF StreamLen
  <2> QED BY <2>1, <2>2
<1>4. \A i \in 1 .. StreamLen(u) : u.mem[u.rpos + i] = t.mem[t.rpos + n + i]
  <2>1. StreamLen(t) - StreamLen(u) = n
    BY <1>1, <1>3
  <2> QED BY <2>1, <1>1, SkipGood
<1>5. /\ StreamLen(u) \in Nat /\ q \in Seq(Bytes) /\ Len(q) = StreamLen(u)
      /\ \A i \in 1 .. StreamLen(u) : q[i] = u.mem[u.rpos + i]
  BY <1>2, Shown
<1> HIDE DEF p, q, u
<1>6. \A i \in 1 .. StreamLen(u) : q[i] = p[n + i]
  <2> SUFFICES ASSUME NEW i \in 1 .. StreamLen(u) PROVE q[i] = p[n + i]
    OBVIOUS
  <2>1. n + i \in 1 .. StreamLen(t) /\ t.rpos + (n + i) = t.rpos + n + i
    BY <1>1, <1>2, <1>3, <1>5
  <2> QED BY <1>1, <1>4, <1>5, <2>1
<1>7. q = SubSeq(p, n + 1, StreamLen(t))
  BY <1>1, <1>3, <1>5, <1>6
<1> QED BY <1>2, <1>3, <1>7 DEF p, q, u

-----------------------------------------------------------------------------
(* The specification.                                                      *)

\* A new stream is empty.
LEMMA InitGood == Init => Good(s) /\ StreamLen(s) = 0
<1> SUFFICES ASSUME Init PROVE Good(s) /\ StreamLen(s) = 0
  OBVIOUS
<1>1. Fresh(Block) \in [1 .. Block -> Cell]
  BY DEF Fresh, Cell
<1>2. Fresh(Block) \in Seq(Cell) /\ Len(Fresh(Block)) = Block
  BY <1>1, BlockAssumption, FunctionSeq
<1>3. s = [mem |-> Fresh(Block), rpos |-> 0, size |-> 0]
  BY DEF Init, NewStream
<1> QED BY <1>2, <1>3, BlockAssumption DEF Good, StreamLen

\* Every call is one of three kinds: it adds, it takes from the front, or
\* (Reset) it takes everything.
LEMMA NextGood ==
    ASSUME ChunksAssumption, Good(s), [Next]_s
    PROVE  /\ Good(s')
           /\ \/ Extends(s, s')
              \/ LET k == StreamLen(s) - StreamLen(s')
                 IN  /\ k \in 0 .. StreamLen(s)
                     /\ \A i \in 1 .. StreamLen(s') :
                            s'.mem[s'.rpos + i] = s.mem[s.rpos + k + i]
<1> StreamLen(s) \in Nat
  BY DEF Good, StreamLen
<1>1. ASSUME NEW n \in Sizes, NEW d \in Chunks, WriteSome(n, d)
      PROVE  Good(s') /\ Extends(s, s')
  BY <1>1, WriteGood, BlockAssumption DEF ChunksAssumption, WriteSome, Sizes, Adds
<1>2. ASSUME NEW n \in Sizes, WriteRefused(n)
      PROVE  Good(s') /\ Extends(s, s')
  BY <1>2, EnsureGood, BlockAssumption DEF WriteRefused, Sizes
<1>3. ASSUME NEW d \in Chunks, DoAppend(d)
      PROVE  Good(s') /\ Extends(s, s')
  BY <1>3, AppendGood DEF ChunksAssumption, DoAppend
<1>4. ASSUME NEW n \in Sizes, DoSkip(n)
      PROVE  /\ Good(s')
             /\ LET k == StreamLen(s) - StreamLen(s')
                IN  /\ k \in 0 .. StreamLen(s)
                    /\ \A i \in 1 .. StreamLen(s') :
                           s'.mem[s'.rpos + i] = s.mem[s.rpos + k + i]
  BY <1>4, SkipGood, BlockAssumption DEF DoSkip, Sizes
<1>5. CASE DoReset
  <2>1. Good(s') /\ StreamLen(s') = 0
    BY <1>5, ResetGood DEF DoReset
  <2> QED BY <2>1
<1>6. CASE UNCHANGED s
  BY <1>6 DEF Extends
<1> QED BY <1>1, <1>2, <1>3, <1>4, <1>5, <1>6 DEF Next

\* A stream stays good.
LEMMA StaysGood ==
    ASSUME ChunksAssumption
    PROVE  Spec => []Good(s)
<1>1. Init => Good(s)
  BY InitGood
<1>2. Good(s) /\ [Next]_s => Good(s)'
  BY NextGood DEF Good
<1> QED BY <1>1, <1>2, PTL DEF Spec

\* The positions stay inside the memory (Skip, Shrink, AddSize).
THEOREM PositionsHold ==
    ASSUME ChunksAssumption
    PROVE  Spec => []Positions
<1>1. Good(s) => Positions
  BY DEF Good, Positions, Capacity, Cell
<1> QED BY <1>1, StaysGood, PTL

\* No byte is shown that nobody wrote: growing copies, shrinking moves.
THEOREM NoJunkShown ==
    ASSUME ChunksAssumption
    PROVE  Spec => []NoJunk
<1>1. Good(s) => NoJunk
  BY DEF Good, NoJunk
<1> QED BY <1>1, StaysGood, PTL

\* stream_max_size is never passed.
THEOREM StaysWithinLimit ==
    ASSUME ChunksAssumption
    PROVE  Spec => []WithinLimit
<1>1. Good(s) => WithinLimit
  BY DEF Good, WithinLimit
<1> QED BY <1>1, StaysGood, PTL

\* The stream implements a bounded queue of bytes.
THEOREM StreamIsByteQueue ==
    ASSUME ChunksAssumption
    PROVE  Spec => IsByteQueue
<1>1. Init => Queue!Init
  <2> SUFFICES ASSUME Init PROVE Contents(s) = <<>>
    BY DEF Queue!Init
  <2>1. StreamLen(s) = 0
    BY InitGood
  <2> QED BY <2>1 DEF Contents
<1>2. Good(s) /\ [Next]_s => [Queue!Next]_(Contents(s))
  <2> SUFFICES ASSUME Good(s), [Next]_s PROVE [Queue!Next]_(Contents(s))
    OBVIOUS
  <2> DEFINE q == Contents(s)
             p == Contents(s')
             l == StreamLen(s)
             m == StreamLen(s')
  <2>1. Good(s')
    BY NextGood
  <2>2. l \in Nat /\ m \in Nat /\ m <= MaxSize
    BY <2>1, BlockAssumption DEF Good, StreamLen
  <2>3. q = [i \in 1 .. l |-> s.mem[s.rpos + i]] /\ Len(q) = l
    BY <2>2 DEF Contents
  <2>4. p = [i \in 1 .. m |-> s'.mem[s'.rpos + i]] /\ Len(p) = m
    BY <2>2 DEF Contents
  <2>5. \A i \in 1 .. m : p[i] \in Bytes
    <3>1. s'.rpos \in Nat /\ s'.size \in Nat /\ m = s'.size - s'.rpos
      BY <2>1 DEF Good, StreamLen
    <3>2. \A i \in 1 .. m : s'.rpos + i \in s'.rpos + 1 .. s'.size
      <4> HIDE DEF m
      <4> QED BY <2>2, <3>1
    <3>3. \A i \in s'.rpos + 1 .. s'.size : s'.mem[i] \in Bytes
      BY <2>1 DEF Good
    <3> HIDE DEF p, m
    <3> QED BY <2>4, <3>2, <3>3
  <2>6. CASE Extends(s, s')
    <3>1. l <= m /\ \A i \in 1 .. l : p[i] = q[i]
      BY <2>2, <2>3, <2>4, <2>6 DEF Extends
    <3>2. Queue!Put
      <4> HIDE DEF q, p, l, m
      <4>1. Len(p) >= Len(q) /\ Len(p) <= MaxSize
        BY <2>2, <2>3, <2>4, <3>1
      <4>2. \A i \in 1 .. Len(q) : p[i] = q[i]
        BY <2>3, <3>1
      <4>3. \A i \in Len(q) + 1 .. Len(p) : p[i] \in Bytes
        BY <2>2, <2>3, <2>4, <2>5
      <4> QED BY <4>1, <4>2, <4>3 DEF Queue!Put, q, p
    <3> QED BY <3>2 DEF Queue!Next
  <2>7. CASE ~ Extends(s, s')
    <3> DEFINE k == l - m
    <3>1. k \in 0 .. l /\ \A i \in 1 .. m : s'.mem[s'.rpos + i] = s.mem[s.rpos + k + i]
      BY <2>7, NextGood
    <3>2. p = [i \in 1 .. l - k |-> q[k + i]]
      <4>1. l - k = m
        BY <2>2
      <4>2. \A i \in 1 .. m : k + i \in 1 .. l
        BY <2>2, <3>1
      <4>3. \A i \in 1 .. m : q[k + i] = s.mem[s.rpos + (k + i)]
        BY <2>3, <4>2
      <4>4. \A i \in 1 .. m : s.rpos + (k + i) = s.rpos + k + i
        BY <2>2, <3>1 DEF Good
      <4>5. \A i \in 1 .. m : q[k + i] = s'.mem[s'.rpos + i]
        BY <3>1, <4>3, <4>4
      <4> HIDE DEF q, p, l, m, k
      <4> QED BY <2>4, <4>1, <4>5
    <3>3. CASE k = 0
      <4> HIDE DEF q, p
      <4>1. p = q
        BY <2>2, <2>3, <3>2, <3>3
      <4> QED BY <4>1 DEF q, p
    <3>4. CASE k # 0
      <4>1. k \in 1 .. Len(q) /\ Len(q) = l
        BY <2>2, <2>3, <3>1, <3>4
      <4>2. Queue!Take(k)
        BY <3>2, <4>1 DEF Queue!Take
      <4> QED BY <4>1, <4>2 DEF Queue!Next
    <3> QED BY <3>3, <3>4
  <2> QED BY <2>6, <2>7
<1> QED BY <1>1, <1>2, StaysGood, PTL DEF Spec, IsByteQueue, Queue!Spec
=============================================================================
