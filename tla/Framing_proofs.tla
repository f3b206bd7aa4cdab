--------------------------- MODULE Framing_proofs ---------------------------
(***************************************************************************)
(* For any frames, cuts and limits: what ReadStream handles are the frames *)
(* of this connection, whole and in order, and what the kernel takes are   *)
(* the bytes of the frames sent, whatever is refused, cut or closed        *)
(* between.                                                                *)
(***************************************************************************)
EXTENDS Framing, FiniteSetTheorems, WellFoundedInduction, SequenceTheorems, TLAPS

\* What is proved of the stream holds of a stream of these bytes.
Buf == INSTANCE Stream_proofs WITH Bytes <- AnyByte, Chunks <- {}, s <- m.rd

AnyFrame == [kind : Kinds \cup {"out"}, len : Nat]

\* The p-th byte of the i-th frame f of connection c.
Byte(c, i, p, f) == [conn |-> c, id |-> i, pos |-> p, kind |-> f.kind, len |-> f.len]

\* AllBytes, of any connection.
AllOf(c, frames) == FlattenSeq([i \in 1 .. Len(frames) |-> FrameBytes(c, i, frames[i])])

\* The j-th of the bytes q is one of the frames, and the next one follows it.
InPlace(q, c, frames, j) ==
    /\ q[j].id \in 1 .. Len(frames)
    /\ q[j].pos \in 1 .. frames[q[j].id].len
    /\ q[j] = Byte(c, q[j].id, q[j].pos, frames[q[j].id])
    /\ j = Len(q) => q[j].id = Len(frames) /\ q[j].pos = q[j].len
    /\ j # Len(q) /\ q[j].pos < q[j].len =>
           q[j + 1].id = q[j].id /\ q[j + 1].pos = q[j].pos + 1
    /\ j # Len(q) /\ ~ (q[j].pos < q[j].len) =>
           q[j + 1].id = q[j].id + 1 /\ q[j + 1].pos = 1

\* q is the bytes of the frames behind the n-th.
Continues(q, c, n, frames) ==
    /\ q = <<>> => n = Len(frames)
    /\ q # <<>> => q[1].id = n + 1 /\ q[1].pos = 1
    /\ \A j \in 1 .. Len(q) : InPlace(q, c, frames, j)

\* What the net thread keeps, apart from what the bytes are.
Typed(c) ==
    /\ c \in [state : {"init", "connecting", "connected", "logic"}, writable : BOOLEAN,
              rd : [mem : Seq(Buf!Cell), rpos : Nat, size : Nat],
              wr : [mem : Seq(Buf!Cell), rpos : Nat, size : Nat],
              up : Seq(AnyByte), asked : Seq(AnyFrame)]
    /\ Buf!Good(c.rd) /\ Buf!Good(c.wr)

\* What the kernel took begins what was to be sent on connection k; while it is
\* open the write stream has the rest, and a closed one has empty streams.
Fine(c, k) ==
    /\ Typed(c)
    /\ IsPrefix(c.up, AllOf(k, c.asked))
    /\ IF c.state = "init" THEN StreamLen(c.rd) = 0 /\ StreamLen(c.wr) = 0
       ELSE c.up \o Contents(c.wr) = AllOf(k, c.asked)

TypeInv ==
    /\ phase \in {"loop", "parse"}
    /\ conn \in Nat
    /\ down \in Seq(AnyByte)
    /\ given \in Seq([kind : Kinds, len : Nat])
    /\ \A i \in 1 .. Len(given) : given[i].len >= HeadLen
    /\ handled \in Seq(Seq(AnyByte))

\* The read stream and what is on the way to it are the frames not handled yet.
Incoming ==
    m.state # "init" => Continues(Contents(m.rd) \o down, conn, Len(handled), given)

IInv == TypeInv /\ Fine(m, conn) /\ Incoming /\ HandledWhole
-----------------------------------------------------------------------------
(* Sequences                                                               *)

\* Some numbers have a least one.
LEMMA LeastNumber ==
    ASSUME NEW T, T \subseteq Nat, T # {}
    PROVE  \E m0 \in T : \A n \in T : m0 <= n
<1> DEFINE U == {0 .. n : n \in T}
           R == StrictSubsetOrdering(Nat)
<1>1. IsWellFoundedOn(R, FiniteSubsetsOf(Nat))
  BY FS_StrictSubsetOrderingWellFounded
<1>2. U \subseteq FiniteSubsetsOf(Nat) /\ U # {}
  <2>1. \A n \in T : 0 .. n \in FiniteSubsetsOf(Nat)
    <3> TAKE n \in T
    <3>1. IsFiniteSet(0 .. n) /\ 0 .. n \subseteq Nat
      BY FS_Interval
    <3> QED BY <3>1 DEF FiniteSubsetsOf
  <2> QED BY <2>1
<1>3. PICK A \in U : \A B \in U : ~ (<<B, A>> \in R)
  <2> HIDE DEF U, R
  <2> QED BY <1>1, <1>2, WFMin
<1>4. PICK m0 \in T : A = 0 .. m0
  OBVIOUS
<1>5. \A n \in T : m0 <= n
  <2> SUFFICES ASSUME NEW n \in T, n < m0 PROVE FALSE
    OBVIOUS
  <2>1. 0 .. n \in U /\ 0 .. n \subseteq 0 .. m0 /\ 0 .. n # 0 .. m0
    OBVIOUS
  <2>2. <<0 .. n, A>> \in R
    BY <1>2, <1>4, <2>1 DEF StrictSubsetOrdering, FiniteSubsetsOf
  <2> QED BY <1>3, <2>1, <2>2
<1> QED BY <1>5

\* A set of numbers that holds the first and with each the next holds them all.
LEMMA Climb ==
    ASSUME NEW a \in Nat, NEW b \in Nat, NEW T,
           a \in T, \A n \in a .. b - 1 : n \in T => n + 1 \in T
    PROVE  \A n \in a .. b : n \in T
<1> SUFFICES ASSUME (a .. b) \ T # {} PROVE FALSE
  OBVIOUS
<1>1. PICK n \in (a .. b) \ T : \A k \in (a .. b) \ T : n <= k
  <2>1. (a .. b) \ T \subseteq Nat
    OBVIOUS
  <2> QED BY <2>1, LeastNumber
<1>2. n # a /\ n - 1 \in a .. b - 1 /\ n - 1 \in a .. b /\ (n - 1) + 1 = n
  BY <1>1
<1>3. n - 1 \notin T
  BY <1>1, <1>2
<1>4. ~ (n <= n - 1)
  BY <1>2
<1> QED BY <1>1, <1>2, <1>3, <1>4

\* The function that FlattenSeq names.
Flat(s, g) == g = [i \in 1 .. Len(s) |-> IF i = 1 THEN s[i] ELSE g[i - 1] \o s[i]]

\* Its values.
LEMMA FlatStep ==
    ASSUME NEW s, NEW g, Flat(s, g)
    PROVE  \A i \in 1 .. Len(s) : g[i] = IF i = 1 THEN s[i] ELSE g[i - 1] \o s[i]
<1> DEFINE e(i) == IF i = 1 THEN s[i] ELSE g[i - 1] \o s[i]
<1>1. g = [i \in 1 .. Len(s) |-> e(i)]
  BY DEF Flat
<1> HIDE DEF e
<1>2. \A i \in 1 .. Len(s) : g[i] = e(i)
  BY <1>1
<1> QED BY <1>2 DEF e

\* There is such a function, for each number of its arguments.
LEMMA FlattenExists ==
    ASSUME NEW S, NEW s \in Seq(S)
    PROVE  \E g : Flat(s, g)
<1> DEFINE G(n, g) == g = [i \in 1 .. n |-> IF i = 1 THEN s[i] ELSE g[i - 1] \o s[i]]
           T == {n \in Nat : \E g : G(n, g)}
<1>1. 0 \in T
  <2>1. G(0, <<>>)
    OBVIOUS
  <2> HIDE DEF G
  <2> QED BY <2>1
<1>2. \A n \in 0 .. Len(s) - 1 : n \in T => n + 1 \in T
  <2> SUFFICES ASSUME NEW n \in Nat, NEW g, G(n, g) PROVE \E h : G(n + 1, h)
    <3> HIDE DEF G
    <3> QED OBVIOUS
  <2> DEFINE h == [i \in 1 .. n + 1 |-> IF i <= n THEN g[i] ELSE IF i = 1 THEN s[i] ELSE g[i - 1] \o s[i]]
  <2>1. \A i \in 1 .. n : h[i] = g[i]
    OBVIOUS
  <2>2. \A i \in 1 .. n : g[i] = IF i = 1 THEN s[i] ELSE g[i - 1] \o s[i]
    <3> DEFINE e(i) == IF i = 1 THEN s[i] ELSE g[i - 1] \o s[i]
    <3>1. g = [i \in 1 .. n |-> e(i)]
      OBVIOUS
    <3> HIDE DEF e
    <3>2. \A i \in 1 .. n : g[i] = e(i)
      BY <3>1
    <3> QED BY <3>2 DEF e
  <2>3. \A i \in 1 .. n + 1 : h[i] = IF i = 1 THEN s[i] ELSE h[i - 1] \o s[i]
    <3> SUFFICES ASSUME NEW i \in 1 .. n + 1
                 PROVE  h[i] = IF i = 1 THEN s[i] ELSE h[i - 1] \o s[i]
      OBVIOUS
    <3>1. CASE i <= n
      <4>1. i \in 1 .. n /\ (i # 1 => i - 1 \in 1 .. n)
        BY <3>1
      <4> HIDE DEF h
      <4> QED BY <2>1, <2>2, <4>1
    <3>2. CASE i = n + 1
      <4>1. h[i] = IF i = 1 THEN s[i] ELSE g[i - 1] \o s[i]
        BY <3>2
      <4>2. i # 1 => i - 1 \in 1 .. n
        BY <3>2
      <4> HIDE DEF h
      <4> QED BY <2>1, <4>1, <4>2
    <3> QED BY <3>1, <3>2
  <2>4. h = [i \in 1 .. n + 1 |-> h[i]]
    OBVIOUS
  <2> HIDE DEF h
  <2>5. G(n + 1, h)
    BY <2>3, <2>4
  <2> QED BY <2>5
<1>3. Len(s) \in T
  <2>1. Len(s) \in Nat /\ Len(s) \in 0 .. Len(s)
    OBVIOUS
  <2> HIDE DEF T
  <2>2. \A n \in 0 .. Len(s) : n \in T
    BY <1>1, <1>2, <2>1, Climb
  <2> QED BY <2>1, <2>2
<1> QED BY <1>3 DEF Flat

\* The bytes of one sequence more come behind those of the others.
LEMMA FlattenAppend ==
    ASSUME NEW S, NEW s \in Seq(Seq(S)), NEW x \in Seq(S)
    PROVE  /\ FlattenSeq(s) \in Seq(S)
           /\ FlattenSeq(Append(s, x)) = FlattenSeq(s) \o x
<1> DEFINE n == Len(s)
           t == Append(s, x)
           g == CHOOSE g : Flat(s, g)
           h == CHOOSE h : Flat(t, h)
<1>1. n \in Nat /\ t \in Seq(Seq(S)) /\ Len(t) = n + 1 /\ t[n + 1] = x
      /\ \A i \in 1 .. n : t[i] = s[i]
  OBVIOUS
<1>2. Flat(s, g) /\ Flat(t, h)
  <2>1. (\E f : Flat(s, f)) /\ \E f : Flat(t, f)
    BY <1>1, FlattenExists
  <2> HIDE DEF t
  <2> QED BY <2>1, Zenon
<1>3. /\ FlattenSeq(s) = IF n = 0 THEN s ELSE g[n]
      /\ FlattenSeq(t) = IF Len(t) = 0 THEN t ELSE h[Len(t)]
  BY Zenon DEF FlattenSeq, Flat
<1> HIDE DEF g, h, t
<1>4. \A i \in 1 .. n : g[i] = IF i = 1 THEN s[i] ELSE g[i - 1] \o s[i]
  BY <1>2, FlatStep
<1>5. \A i \in 1 .. n + 1 : h[i] = IF i = 1 THEN t[i] ELSE h[i - 1] \o t[i]
  BY <1>1, <1>2, FlatStep
<1>6. \A i \in 1 .. n : g[i] \in Seq(S) /\ h[i] = g[i]
  <2> DEFINE T == {i \in 1 .. n : g[i] \in Seq(S) /\ h[i] = g[i]}
  <2>1. CASE n = 0
    BY <2>1
  <2>2. CASE n # 0
    <3>1. 1 \in T
      <4>1. 1 \in 1 .. n /\ 1 \in 1 .. n + 1 /\ s[1] \in Seq(S) /\ t[1] = s[1]
        BY <1>1, <2>2
      <4>2. g[1] = s[1] /\ h[1] = t[1]
        BY <1>4, <1>5, <4>1
      <4> QED BY <4>1, <4>2
    <3>2. \A i \in 1 .. n - 1 : i \in T => i + 1 \in T
      <4> SUFFICES ASSUME NEW i \in 1 .. n - 1, g[i] \in Seq(S), h[i] = g[i]
                   PROVE  i + 1 \in T
        OBVIOUS
      <4>1. /\ i + 1 \in 1 .. n /\ i + 1 \in 1 .. n + 1 /\ i + 1 # 1 /\ (i + 1) - 1 = i
            /\ s[i + 1] \in Seq(S) /\ t[i + 1] = s[i + 1]
        BY <1>1
      <4>2. g[i + 1] = g[i] \o s[i + 1] /\ h[i + 1] = h[i] \o t[i + 1]
        BY <1>4, <1>5, <4>1
      <4> QED BY <4>1, <4>2, ConcatProperties
    <3> HIDE DEF T
    <3>3. \A i \in 1 .. n : i \in T
      BY <1>1, <2>2, <3>1, <3>2, Climb
    <3> QED BY <3>3 DEF T
  <2> QED BY <2>1, <2>2
<1>7. CASE n = 0
  <2>1. s = <<>> /\ FlattenSeq(s) = <<>> /\ FlattenSeq(t) = x
    BY <1>1, <1>3, <1>5, <1>7
  <2>2. <<>> \in Seq(S) /\ <<>> \o x = x
    OBVIOUS
  <2>3. FlattenSeq(s) \in Seq(S) /\ FlattenSeq(t) = FlattenSeq(s) \o x
    BY <2>1, <2>2, Zenon
  <2> QED BY <2>3 DEF t
<1>8. CASE n # 0
  <2>1. /\ n \in 1 .. n /\ n + 1 \in 1 .. n + 1 /\ n + 1 # 1 /\ (n + 1) - 1 = n
    BY <1>1, <1>8
  <2>2. h[n + 1] = h[n] \o x
    BY <1>1, <1>5, <2>1
  <2>3. FlattenSeq(s) = g[n] /\ FlattenSeq(t) = h[n + 1] /\ g[n] \in Seq(S) /\ h[n] = g[n]
    BY <1>1, <1>3, <1>6, <1>8, <2>1
  <2>4. FlattenSeq(s) \in Seq(S) /\ FlattenSeq(t) = FlattenSeq(s) \o x
    BY <2>2, <2>3, Zenon
  <2> QED BY <2>4 DEF t
<1> QED BY <1>7, <1>8

\* A prefix stays one when more comes behind.
LEMMA PrefixFact ==
    ASSUME NEW S, NEW s \in Seq(S), NEW t \in Seq(S), NEW u \in Seq(S)
    PROVE  /\ IsPrefix(s, s \o t)
           /\ IsPrefix(s, t) => IsPrefix(s, t \o u)
<1>1. \A p, q \in Seq(S) : IsPrefix(p, q) <=> Len(p) <= Len(q) /\ \A i \in 1 .. Len(p) : p[i] = q[i]
  <2> SUFFICES ASSUME NEW p \in Seq(S), NEW q \in Seq(S), Len(p) <= Len(q)
               PROVE  SubSeq(p, 1, Len(p)) = SubSeq(q, 1, Len(p)) <=>
                          \A i \in 1 .. Len(p) : p[i] = q[i]
    BY DEF IsPrefix
  <2> DEFINE a == SubSeq(p, 1, Len(p))
             b == SubSeq(q, 1, Len(p))
  <2>1. /\ a \in Seq(S) /\ Len(a) = Len(p) /\ \A i \in 1 .. Len(p) : a[i] = p[i]
        /\ b \in Seq(S) /\ Len(b) = Len(p) /\ \A i \in 1 .. Len(p) : b[i] = q[i]
    OBVIOUS
  <2> HIDE DEF a, b
  <2>2. a = b <=> \A i \in 1 .. Len(p) : a[i] = b[i]
    BY <2>1, SeqEqual
  <2> QED BY <2>1, <2>2 DEF a, b
<1>2. \A p, q \in Seq(S) : /\ p \o q \in Seq(S) /\ Len(p) <= Len(p \o q)
                           /\ \A i \in 1 .. Len(p) : (p \o q)[i] = p[i]
  OBVIOUS
<1>3. IsPrefix(s, s \o t)
  BY <1>1, <1>2
<1>4. ASSUME IsPrefix(s, t) PROVE IsPrefix(s, t \o u)
  <2>1. Len(s) <= Len(t) /\ \A i \in 1 .. Len(s) : s[i] = t[i]
    BY <1>1, <1>4
  <2>2. Len(t) <= Len(t \o u) /\ t \o u \in Seq(S) /\ \A i \in 1 .. Len(t) : (t \o u)[i] = t[i]
    BY <1>2
  <2>3. Len(s) <= Len(t \o u) /\ \A i \in 1 .. Len(s) : s[i] = (t \o u)[i]
    <3>1. Len(s) \in Nat /\ Len(t) \in Nat /\ Len(t \o u) \in Nat
      BY <2>2
    <3> QED BY <2>1, <2>2, <3>1
  <2> QED BY <1>1, <2>2, <2>3
<1> QED BY <1>3, <1>4

\* The first n of q, and the others.
Ahead(q, n) == SubSeq(q, 1, n)
Behind(q, n) == SubSeq(q, n + 1, Len(q))

\* The first part with what is taken, and with what is not taken behind that.
LEMMA Taken ==
    ASSUME NEW S, NEW p \in Seq(S), NEW q \in Seq(S), NEW n \in 0 .. Len(q)
    PROVE  /\ Ahead(q, n) \in Seq(S) /\ Behind(q, n) \in Seq(S)
           /\ p \o Ahead(q, n) \in Seq(S)
           /\ (p \o Ahead(q, n)) \o Behind(q, n) = p \o q
<1> DEFINE a == SubSeq(q, 1, n)
           b == SubSeq(q, n + 1, Len(q))
<1>1. /\ a \in Seq(S) /\ Len(a) = n /\ \A i \in 1 .. n : a[i] = q[i]
      /\ b \in Seq(S) /\ Len(b) = Len(q) - n /\ \A i \in 1 .. Len(q) - n : b[i] = q[n + i]
  OBVIOUS
<1> HIDE DEF a, b
<1>2. a \o b = q
  <2> DEFINE r == a \o b
  <2>1. /\ r \in Seq(S) /\ Len(r) = Len(q)
        /\ \A i \in 1 .. Len(q) : r[i] = IF i <= n THEN a[i] ELSE b[i - n]
    BY <1>1, ConcatProperties
  <2> HIDE DEF r
  <2>2. \A i \in 1 .. Len(q) : r[i] = q[i]
    <3> SUFFICES ASSUME NEW i \in 1 .. Len(q) PROVE r[i] = q[i]
      OBVIOUS
    <3>1. CASE i <= n
      BY <1>1, <2>1, <3>1
    <3>2. CASE i > n
      <4>1. i - n \in 1 .. Len(q) - n /\ n + (i - n) = i
        BY <3>2
      <4> QED BY <1>1, <2>1, <3>2, <4>1
    <3> QED BY <3>1, <3>2
  <2>3. r = q
    BY <2>1, <2>2, SeqEqual
  <2> QED BY <2>3 DEF r
<1>3. (p \o a) \o b = p \o (a \o b)
  BY <1>1, ConcatAssociative
<1>4. p \o a \in Seq(S)
  BY <1>1, ConcatProperties
<1> QED BY <1>1, <1>2, <1>3, <1>4 DEF a, b, Ahead, Behind

\* Two parts.
LEMMA Joined ==
    ASSUME NEW S, NEW p \in Seq(S), NEW q \in Seq(S)
    PROVE  /\ p \o q \in Seq(S) /\ Len(p \o q) = Len(p) + Len(q)
           /\ \A i \in 1 .. Len(p) : (p \o q)[i] = p[i]
           /\ \A i \in 1 .. Len(q) : (p \o q)[Len(p) + i] = q[i]
OBVIOUS

\* Three parts, put together in either order.
LEMMA Together ==
    ASSUME NEW S, NEW p \in Seq(S), NEW q \in Seq(S), NEW b \in Seq(S)
    PROVE  (p \o q) \o b = p \o (q \o b)
BY ConcatAssociative
-----------------------------------------------------------------------------
(* Bytes of frames                                                         *)

\* A frame has as many bytes as it announces.
LEMMA FrameFact ==
    ASSUME NEW c \in Nat, NEW i \in Nat, NEW f \in AnyFrame
    PROVE  /\ FrameBytes(c, i, f) \in Seq(AnyByte)
           /\ Len(FrameBytes(c, i, f)) = f.len
           /\ \A p \in 1 .. f.len : FrameBytes(c, i, f)[p] = Byte(c, i, p, f)
<1> DEFINE q == FrameBytes(c, i, f)
<1>1. f.len \in Nat /\ f.kind \in Kinds \cup {"out"}
  BY DEF AnyFrame
<1>2. \A p \in 1 .. f.len : Byte(c, i, p, f) \in AnyByte
  BY <1>1 DEF Byte, AnyByte
<1>3. q = [p \in 1 .. f.len |-> Byte(c, i, p, f)]
  BY DEF FrameBytes, Byte
<1> HIDE DEF q
<1>4. q \in [1 .. f.len -> AnyByte]
  BY <1>2, <1>3
<1>5. q \in Seq(AnyByte) /\ Len(q) = f.len
  BY <1>1, <1>4
<1> QED BY <1>3, <1>5 DEF q

\* The bytes of one frame more come behind those of the others.
LEMMA AllFact ==
    ASSUME NEW c \in Nat, NEW fs \in Seq(AnyFrame), NEW f \in AnyFrame
    PROVE  /\ AllOf(c, fs) \in Seq(AnyByte)
           /\ AllOf(c, Append(fs, f)) = AllOf(c, fs) \o FrameBytes(c, Len(fs) + 1, f)
<1> DEFINE n == Len(fs)
           gs == Append(fs, f)
           s == [i \in 1 .. n |-> FrameBytes(c, i, fs[i])]
           x == FrameBytes(c, n + 1, f)
           t == [i \in 1 .. Len(gs) |-> FrameBytes(c, i, gs[i])]
<1>1. n \in Nat /\ Len(gs) = n + 1 /\ gs[n + 1] = f /\ \A i \in 1 .. n : gs[i] = fs[i]
  OBVIOUS
<1>2. \A i \in 1 .. n : FrameBytes(c, i, fs[i]) \in Seq(AnyByte)
  <2> SUFFICES ASSUME NEW i \in 1 .. n PROVE FrameBytes(c, i, fs[i]) \in Seq(AnyByte)
    OBVIOUS
  <2>1. i \in Nat /\ fs[i] \in AnyFrame
    OBVIOUS
  <2> QED BY <2>1, FrameFact
<1>3. s \in Seq(Seq(AnyByte)) /\ Len(s) = n
  <2>1. s \in [1 .. n -> Seq(AnyByte)]
    BY <1>2
  <2> HIDE DEF s
  <2> QED BY <1>1, <2>1
<1>4. x \in Seq(AnyByte)
  BY <1>1, FrameFact
<1>5. t = Append(s, x)
  <2> DEFINE r == Append(s, x)
  <2>1. /\ r \in Seq(Seq(AnyByte)) /\ Len(r) = n + 1 /\ r[n + 1] = x
        /\ \A i \in 1 .. n : r[i] = s[i]
    <3> HIDE DEF s, x
    <3> QED BY <1>3, <1>4
  <2>2. \A i \in 1 .. n : s[i] = FrameBytes(c, i, fs[i])
    OBVIOUS
  <2>3. t = [i \in 1 .. n + 1 |-> FrameBytes(c, i, gs[i])]
    BY <1>1
  <2> HIDE DEF r, s, t
  <2>4. \A i \in 1 .. n + 1 : FrameBytes(c, i, gs[i]) = r[i]
    BY <1>1, <2>1, <2>2
  <2>5. r = [i \in 1 .. n + 1 |-> r[i]]
    BY <2>1
  <2>6. t = r
    BY <2>3, <2>4, <2>5
  <2> QED BY <2>6 DEF r
<1>6. AllOf(c, fs) = FlattenSeq(s) /\ AllOf(c, gs) = FlattenSeq(t)
  BY DEF AllOf
<1> HIDE DEF s, t, x
<1>7. FlattenSeq(s) \in Seq(AnyByte) /\ FlattenSeq(Append(s, x)) = FlattenSeq(s) \o x
  BY <1>3, <1>4, FlattenAppend
<1> QED BY <1>5, <1>6, <1>7 DEF x

\* The server sends one more frame.
LEMMA ContinuesMore ==
    ASSUME NEW c \in Nat, NEW n \in Nat, NEW q \in Seq(AnyByte), NEW fs \in Seq(AnyFrame),
           NEW f \in AnyFrame, f.len > 0, Continues(q, c, n, fs)
    PROVE  Continues(q \o FrameBytes(c, Len(fs) + 1, f), c, n, Append(fs, f))
<1> DEFINE l == Len(q)
           b == FrameBytes(c, Len(fs) + 1, f)
           r == q \o b
           gs == Append(fs, f)
<1>1. l \in Nat /\ Len(fs) \in Nat /\ f.len \in Nat
  BY DEF AnyFrame
<1>2. /\ b \in Seq(AnyByte) /\ Len(b) = f.len
      /\ \A p \in 1 .. f.len : b[p] = Byte(c, Len(fs) + 1, p, f)
  <2>1. Len(fs) + 1 \in Nat
    BY <1>1
  <2> QED BY <2>1, FrameFact
<1>3. /\ Len(gs) = Len(fs) + 1 /\ gs[Len(fs) + 1] = f
      /\ \A i \in 1 .. Len(fs) : gs[i] = fs[i]
  OBVIOUS
<1> HIDE DEF b, gs
<1>4. /\ r \in Seq(AnyByte) /\ Len(r) = l + f.len
      /\ \A j \in 1 .. l : r[j] = q[j]
      /\ \A p \in 1 .. f.len : r[l + p] = b[p]
  <2>1. b \in Seq(AnyByte) /\ q \in Seq(AnyByte)
    BY <1>2
  <2>2. /\ q \o b \in Seq(AnyByte) /\ Len(q \o b) = Len(q) + Len(b)
        /\ \A j \in 1 .. Len(q) : (q \o b)[j] = q[j]
        /\ \A p \in 1 .. Len(b) : (q \o b)[Len(q) + p] = b[p]
    BY <2>1, Joined
  <2> QED BY <1>2, <2>2
<1> HIDE DEF r
<1>5. r # <<>> /\ 1 \in 1 .. f.len
  <2>1. 1 \in 1 .. f.len /\ Len(r) # 0
    BY <1>1, <1>4
  <2> QED BY <2>1
<1>6. \A p \in 1 .. f.len : r[l + p].id = Len(fs) + 1 /\ r[l + p].pos = p /\ r[l + p].len = f.len
  <2>1. \A p \in 1 .. f.len : r[l + p] = Byte(c, Len(fs) + 1, p, f)
    BY <1>2, <1>4
  <2>2. \A p, i : /\ Byte(c, i, p, f).id = i /\ Byte(c, i, p, f).pos = p
                  /\ Byte(c, i, p, f).len = f.len
    BY DEF Byte
  <2> QED BY <2>1, <2>2
<1>7. r[1].id = n + 1 /\ r[1].pos = 1
  <2>1. CASE q = <<>>
    <3>1. n = Len(fs) /\ l = 0
      BY <2>1 DEF Continues
    <3>2. r[l + 1].id = Len(fs) + 1 /\ r[l + 1].pos = 1
      BY <1>5, <1>6
    <3> QED BY <3>1, <3>2
  <2>2. CASE q # <<>>
    <3>1. 1 \in 1 .. l
      BY <2>2
    <3> QED BY <1>4, <2>2, <3>1 DEF Continues
  <2> QED BY <2>1, <2>2
<1>8. ASSUME NEW j \in 1 .. Len(r)
      PROVE  InPlace(r, c, gs, j)
  <2>1. CASE j < l
    <3>1. j \in 1 .. l /\ j + 1 \in 1 .. l /\ j # Len(r) /\ j # l
      BY <1>1, <1>4, <2>1
    <3>2. InPlace(q, c, fs, j)
      BY <3>1 DEF Continues
    <3>3. r[j] = q[j] /\ r[j + 1] = q[j + 1]
      BY <1>4, <3>1
    <3>4. gs[q[j].id] = fs[q[j].id] /\ q[j].id \in 1 .. Len(gs)
      <4>1. q[j].id \in 1 .. Len(fs)
        BY <3>2 DEF InPlace
      <4> QED BY <1>1, <1>3, <4>1
    <3> QED BY <3>1, <3>2, <3>3, <3>4 DEF InPlace
  <2>2. CASE j = l
    <3>1. j \in 1 .. l /\ j # Len(r)
      BY <1>1, <1>4, <2>2
    <3>2. InPlace(q, c, fs, j) /\ q[j].id = Len(fs) /\ q[j].pos = q[j].len
      BY <2>2, <3>1 DEF Continues, InPlace
    <3>3. r[j] = q[j] /\ gs[q[j].id] = fs[q[j].id] /\ q[j].id \in 1 .. Len(gs)
      <4>1. q[j].id \in 1 .. Len(fs)
        BY <3>2 DEF InPlace
      <4>2. gs[q[j].id] = fs[q[j].id] /\ q[j].id \in 1 .. Len(gs)
        BY <1>1, <1>3, <4>1
      <4> QED BY <1>4, <3>1, <4>2
    <3>4. r[j + 1].id = Len(fs) + 1 /\ r[j + 1].pos = 1
      BY <1>5, <1>6, <2>2
    <3>5. ~ (q[j].pos < q[j].len)
      BY <1>1, <3>2 DEF InPlace
    <3> QED BY <3>1, <3>2, <3>3, <3>4, <3>5 DEF InPlace
  <2>3. CASE j > l
    <3> DEFINE p == j - l
    <3>1. p \in 1 .. f.len /\ j = l + p
      BY <1>1, <1>4, <2>3
    <3> HIDE DEF p
    <3>2. r[j] = Byte(c, Len(fs) + 1, p, f)
      BY <1>2, <1>4, <3>1
    <3>3. r[j].id = Len(fs) + 1 /\ r[j].pos = p /\ r[j].len = f.len
      BY <1>6, <3>1
    <3>4. /\ r[j].id \in 1 .. Len(gs) /\ gs[r[j].id] = f /\ r[j].pos \in 1 .. gs[r[j].id].len
          /\ r[j] = Byte(c, r[j].id, r[j].pos, gs[r[j].id])
      BY <1>1, <1>3, <3>1, <3>2, <3>3
    <3>5. CASE j = Len(r)
      <4>1. p = f.len
        BY <1>1, <1>4, <3>1, <3>5
      <4> QED BY <1>3, <3>3, <3>4, <3>5, <4>1 DEF InPlace
    <3>6. CASE j # Len(r)
      <4>1. p + 1 \in 1 .. f.len /\ j + 1 = l + (p + 1) /\ p < f.len
        <5>1. p # f.len
          BY <1>4, <3>1, <3>6
        <5> QED BY <1>1, <3>1, <5>1
      <4>2. r[j + 1].id = Len(fs) + 1 /\ r[j + 1].pos = p + 1
        BY <1>6, <4>1
      <4> QED BY <3>3, <3>4, <3>6, <4>1, <4>2 DEF InPlace
    <3> QED BY <3>5, <3>6
  <2> QED BY <1>1, <1>4, <2>1, <2>2, <2>3
<1>9. Continues(r, c, n, gs)
  BY <1>5, <1>7, <1>8 DEF Continues
<1> QED BY <1>9 DEF r, gs, b

\* The first frame is whole when as many bytes are there as it announces, and
\* the others come behind it.
LEMMA ContinuesLess ==
    ASSUME NEW c \in Nat, NEW n \in Nat, NEW q \in Seq(AnyByte), NEW fs \in Seq(AnyFrame),
           q # <<>>, q[1].len <= Len(q), Continues(q, c, n, fs)
    PROVE  /\ n + 1 \in 1 .. Len(fs)
           /\ q[1].len = fs[n + 1].len
           /\ \A p \in 1 .. fs[n + 1].len : q[p] = Byte(c, n + 1, p, fs[n + 1])
           /\ Continues(SubSeq(q, q[1].len + 1, Len(q)), c, n + 1, fs)
<1> DEFINE k == fs[n + 1].len
           r == SubSeq(q, k + 1, Len(q))
<1>1. Len(q) \in Nat /\ Len(fs) \in Nat /\ 1 \in 1 .. Len(q)
  OBVIOUS
<1>2. n + 1 \in 1 .. Len(fs) /\ q[1] = Byte(c, n + 1, 1, fs[n + 1]) /\ 1 \in 1 .. k
  <2>1. InPlace(q, c, fs, 1) /\ q[1].id = n + 1 /\ q[1].pos = 1
    BY <1>1 DEF Continues
  <2> QED BY <2>1 DEF InPlace
<1>3. q[1].len = k /\ k \in Nat /\ k <= Len(q)
  <2>1. q[1].len = k /\ fs[n + 1] \in AnyFrame
    BY <1>2 DEF Byte
  <2> QED BY <2>1 DEF AnyFrame
<1> HIDE DEF k
<1>4. \A p \in 1 .. k : q[p].id = n + 1 /\ q[p].pos = p
  <2> DEFINE T == {p \in 1 .. k : q[p].id = n + 1 /\ q[p].pos = p}
  <2>1. 1 \in T
    BY <1>2 DEF Byte
  <2>2. \A p \in 1 .. k - 1 : p \in T => p + 1 \in T
    <3> SUFFICES ASSUME NEW p \in 1 .. k - 1, q[p].id = n + 1, q[p].pos = p
                 PROVE  p + 1 \in T
      OBVIOUS
    <3>1. p \in 1 .. Len(q) /\ p # Len(q) /\ p + 1 \in 1 .. k
      BY <1>1, <1>3
    <3>2. InPlace(q, c, fs, p) /\ q[p] = Byte(c, n + 1, p, fs[n + 1])
      BY <3>1 DEF Continues, InPlace
    <3>3. q[p].len = k
      BY <3>2 DEF Byte, k
    <3>4. q[p].pos < q[p].len
      BY <1>3, <3>3
    <3> QED BY <3>1, <3>2, <3>4 DEF InPlace
  <2> HIDE DEF T
  <2>3. \A p \in 1 .. k : p \in T
    BY <1>3, <2>1, <2>2, Climb
  <2> QED BY <2>3 DEF T
<1>5. \A p \in 1 .. k : q[p] = Byte(c, n + 1, p, fs[n + 1])
  <2> SUFFICES ASSUME NEW p \in 1 .. k PROVE q[p] = Byte(c, n + 1, p, fs[n + 1])
    OBVIOUS
  <2>1. p \in 1 .. Len(q)
    BY <1>1, <1>3
  <2>2. q[p] = Byte(c, q[p].id, q[p].pos, fs[q[p].id])
    BY <2>1 DEF Continues, InPlace
  <2> QED BY <1>4, <2>2
<1>6. /\ Len(r) = Len(q) - k /\ r \in Seq(AnyByte)
      /\ \A j \in 1 .. Len(q) - k : r[j] = q[k + j]
  BY <1>1, <1>3
<1> HIDE DEF r
<1>7. /\ q[k].id = n + 1 /\ q[k].pos = q[k].len
      /\ k \in 1 .. Len(q) /\ ~ (q[k].pos < q[k].len)
  <2>1. k \in 1 .. k /\ k \in 1 .. Len(q)
    BY <1>1, <1>2, <1>3
  <2>2. q[k] = Byte(c, n + 1, k, fs[n + 1])
    BY <1>5, <2>1
  <2>3. q[k].id = n + 1 /\ q[k].pos = k /\ q[k].len = k
    BY <2>2 DEF Byte, k
  <2> QED BY <1>3, <2>1, <2>3
<1>8. r = <<>> => n + 1 = Len(fs)
  <2> SUFFICES ASSUME r = <<>> PROVE n + 1 = Len(fs)
    OBVIOUS
  <2>1. k = Len(q)
    BY <1>1, <1>3, <1>6
  <2> QED BY <1>7, <2>1 DEF Continues, InPlace
<1>9. r # <<>> => r[1].id = (n + 1) + 1 /\ r[1].pos = 1
  <2> SUFFICES ASSUME r # <<>> PROVE r[1].id = (n + 1) + 1 /\ r[1].pos = 1
    OBVIOUS
  <2>1. k # Len(q) /\ 1 \in 1 .. Len(q) - k
    BY <1>1, <1>3, <1>6
  <2>2. q[k + 1].id = q[k].id + 1 /\ q[k + 1].pos = 1
    BY <1>7, <2>1 DEF Continues, InPlace
  <2> QED BY <1>6, <1>7, <2>1, <2>2
<1>10. ASSUME NEW j \in 1 .. Len(r)
       PROVE  InPlace(r, c, fs, j)
  <2>1. /\ k + j \in 1 .. Len(q) /\ r[j] = q[k + j]
        /\ k + j = Len(q) <=> j = Len(r)
        /\ j # Len(r) => r[j + 1] = q[(k + j) + 1]
    <3>1. k + j \in 1 .. Len(q) /\ j \in 1 .. Len(q) - k /\ (k + j = Len(q) <=> j = Len(r))
      BY <1>1, <1>3, <1>6
    <3>2. ASSUME j # Len(r) PROVE j + 1 \in 1 .. Len(q) - k /\ k + (j + 1) = (k + j) + 1
      <4>1. j # Len(q) - k
        BY <1>6, <3>2
      <4> QED BY <1>1, <1>3, <3>1, <4>1
    <3> QED BY <1>6, <3>1, <3>2
  <2> DEFINE i == k + j
  <2> HIDE DEF i
  <2>2. InPlace(q, c, fs, i)
    BY <2>1 DEF Continues, i
  <2>3. r[j] = q[i] /\ (i = Len(q) <=> j = Len(r)) /\ (j # Len(r) => r[j + 1] = q[i + 1])
    BY <2>1 DEF i
  <2> QED BY <2>2, <2>3 DEF InPlace
<1>11. Continues(r, c, n + 1, fs)
  BY <1>8, <1>9, <1>10 DEF Continues
<1> QED BY <1>2, <1>3, <1>5, <1>11 DEF k, r
-----------------------------------------------------------------------------
(* Streams: what Stream_proofs says, of the operators of Framing.          *)

\* The operators are the same on both ways to them.
LEMMA SameOps ==
    ASSUME NEW t, NEW n, NEW d
    PROVE  /\ Buf!Write(t, n, d) = Write(t, n, d)
           /\ Buf!Skip(t, n) = Skip(t, n)
           /\ Buf!Reset(t) = Reset(t)
           /\ Buf!EnsureWritable(t, n) = EnsureWritable(t, n)
           /\ Buf!Writable(t, n) <=> Writable(t, n)
           /\ Buf!Contents(t) = Contents(t)
           /\ Buf!StreamLen(t) = StreamLen(t)
           /\ Buf!NewStream = NewStream
<1>1. Buf!StreamLen(t) = StreamLen(t) /\ Buf!Contents(t) = Contents(t)
  BY DEF Buf!Contents, Contents, Buf!StreamLen, StreamLen
<1>2. Buf!Writable(t, n) <=> Writable(t, n)
  BY DEF Buf!Writable, Writable, Buf!Shrink, Shrink, Buf!Capacity, Capacity, Buf!StreamLen, StreamLen
<1>3. Buf!EnsureWritable(t, n) = EnsureWritable(t, n)
  BY DEF Buf!EnsureWritable, EnsureWritable, Buf!Writable, Writable, Buf!Grow, Grow,
         Buf!Shrink, Shrink, Buf!Capacity, Capacity, Buf!StreamLen, StreamLen, Buf!RoundUp, RoundUp
<1>4. Buf!Write(t, n, d) = Write(t, n, d)
  BY DEF Buf!Write, Write, Buf!AddSize, AddSize, Buf!Copied, Copied,
         Buf!EnsureWritable, EnsureWritable, Buf!Writable, Writable, Buf!Grow, Grow,
         Buf!Shrink, Shrink, Buf!Capacity, Capacity, Buf!StreamLen, StreamLen, Buf!RoundUp, RoundUp
<1>5. Buf!Skip(t, n) = Skip(t, n) /\ Buf!Reset(t) = Reset(t) /\ Buf!NewStream = NewStream
  BY DEF Buf!Skip, Skip, Buf!Reset, Reset, Buf!NewStream, NewStream, Buf!Fresh, Fresh
<1> QED BY <1>1, <1>2, <1>3, <1>4, <1>5

\* What Stream_proofs assumes holds.
LEMMA BufAssumptions == Buf!ByteAssumption /\ Buf!BlockAssumption /\ Buf!ChunksAssumption
BY BlockAssumption, FramesAssumption
DEF Buf!ByteAssumption, Buf!BlockAssumption, Buf!ChunksAssumption

\* What a stream shows.
LEMMA ShownFact ==
    ASSUME NEW t, Buf!Good(t)
    PROVE  /\ StreamLen(t) \in Nat
           /\ Contents(t) \in Seq(AnyByte)
           /\ Len(Contents(t)) = StreamLen(t)
BY BufAssumptions, Buf!Shown, SameOps

\* What is written comes behind what was there.
LEMMA WriteFact ==
    ASSUME NEW t, NEW n \in Nat, NEW d \in Seq(AnyByte),
           Buf!Good(t), Writable(t, n), Len(d) <= n
    PROVE  /\ Buf!Good(Write(t, n, d))
           /\ Contents(Write(t, n, d)) = Contents(t) \o d
<1>1. Buf!Writable(t, n)
  BY SameOps
<1>2. /\ Buf!Good(Buf!Write(t, n, d))
      /\ Buf!Contents(Buf!Write(t, n, d)) = Buf!Contents(t) \o d
  BY <1>1, BufAssumptions, Buf!WriteGood, Buf!WriteShows
<1>3. Buf!Write(t, n, d) = Write(t, n, d)
  BY SameOps
<1>4. Buf!Contents(t) = Contents(t) /\ Buf!Contents(Write(t, n, d)) = Contents(Write(t, n, d))
  BY SameOps
<1> QED BY <1>2, <1>3, <1>4

\* What is skipped is the front.
LEMMA SkipFact ==
    ASSUME NEW t, Buf!Good(t), NEW n \in 0 .. StreamLen(t)
    PROVE  /\ Buf!Good(Skip(t, n)) /\ StreamLen(Skip(t, n)) = StreamLen(t) - n
           /\ Contents(Skip(t, n)) = SubSeq(Contents(t), n + 1, StreamLen(t))
<1>1. Buf!StreamLen(t) = StreamLen(t) /\ Buf!Contents(t) = Contents(t) /\ Buf!Skip(t, n) = Skip(t, n)
  BY SameOps
<1>2. /\ Buf!StreamLen(Skip(t, n)) = StreamLen(Skip(t, n))
      /\ Buf!Contents(Skip(t, n)) = Contents(Skip(t, n))
  BY SameOps
<1>3. n \in 0 .. Buf!StreamLen(t)
  BY <1>1
<1>4. /\ Buf!Good(Buf!Skip(t, n)) /\ Buf!StreamLen(Buf!Skip(t, n)) = Buf!StreamLen(t) - n
      /\ Buf!Contents(Buf!Skip(t, n)) = SubSeq(Buf!Contents(t), n + 1, Buf!StreamLen(t))
  BY <1>3, BufAssumptions, Buf!SkipShows
<1> QED BY <1>1, <1>2, <1>4

\* A stream that was reset shows nothing, and skipping leaves it so.
LEMMA EmptyFact ==
    ASSUME NEW t, Buf!Good(t)
    PROVE  /\ Buf!Good(Reset(t)) /\ StreamLen(Reset(t)) = 0
           /\ \A n \in Nat : StreamLen(t) = 0 => Buf!Good(Skip(t, n)) /\ StreamLen(Skip(t, n)) = 0
<1>1. /\ Buf!Good(Buf!Reset(t)) /\ Buf!StreamLen(Buf!Reset(t)) = 0
  BY BufAssumptions, Buf!ResetGood
<1>2. Buf!Reset(t) = Reset(t) /\ Buf!StreamLen(Reset(t)) = StreamLen(Reset(t))
  BY SameOps
<1>3. ASSUME NEW n \in Nat, StreamLen(t) = 0
      PROVE  Buf!Good(Skip(t, n)) /\ StreamLen(Skip(t, n)) = 0
  <2>1. /\ Buf!StreamLen(t) = StreamLen(t) /\ Buf!Skip(t, n) = Skip(t, n)
        /\ Buf!StreamLen(Skip(t, n)) = StreamLen(Skip(t, n))
    BY SameOps
  <2>2. /\ Buf!Good(Buf!Skip(t, n))
        /\ Buf!StreamLen(t) - Buf!StreamLen(Buf!Skip(t, n)) \in 0 .. Buf!StreamLen(t)
    BY BufAssumptions, Buf!SkipGood
  <2>3. StreamLen(Skip(t, n)) \in Nat
    BY <2>1, <2>2, ShownFact
  <2> QED BY <1>3, <2>1, <2>2, <2>3
<1> QED BY <1>1, <1>2, <1>3

\* A stream that has no room stays a stream.
LEMMA EnsureFact ==
    ASSUME NEW t, NEW n \in Nat, Buf!Good(t)
    PROVE  Buf!Good(EnsureWritable(t, n))
<1>1. Buf!Good(Buf!EnsureWritable(t, n))
  BY BufAssumptions, Buf!EnsureGood
<1> QED BY <1>1, SameOps
-----------------------------------------------------------------------------
(* Methods of ConnClientPrivate                                            *)

\* A record without what the bytes are.
LEMMA AllTyped ==
    ASSUME NEW c, NEW k \in Nat, Typed(c)
    PROVE  /\ AllOf(k, c.asked) \in Seq(AnyByte)
           /\ c.up \in Seq(AnyByte)
<1>1. [kind |-> "out", len |-> 0] \in AnyFrame
  BY DEF AnyFrame
<1>2. c.asked \in Seq(AnyFrame) /\ c.up \in Seq(AnyByte)
  BY DEF Typed
<1> QED BY <1>1, <1>2, AllFact

\* InnerClose from whatever left the ghosts in order.
LEMMA CloseFine ==
    ASSUME NEW c, NEW k \in Nat, Typed(c), IsPrefix(c.up, AllOf(k, c.asked))
    PROVE  Fine(InnerClose(c), k) /\ InnerClose(c).state = "init"
<1> DEFINE u == InnerClose(c)
<1>1. u = [c EXCEPT !.state = "init", !.writable = TRUE, !.wr = Reset(c.wr), !.rd = Reset(c.rd)]
  BY DEF InnerClose, SetConnState, Typed
<1>2. /\ Buf!Good(Reset(c.rd)) /\ StreamLen(Reset(c.rd)) = 0
      /\ Buf!Good(Reset(c.wr)) /\ StreamLen(Reset(c.wr)) = 0
  BY EmptyFact DEF Typed
<1>3. /\ Reset(c.rd) \in [mem : Seq(Buf!Cell), rpos : Nat, size : Nat]
      /\ Reset(c.wr) \in [mem : Seq(Buf!Cell), rpos : Nat, size : Nat]
  BY <1>2 DEF Buf!Good
<1> HIDE DEF u
<1>4. /\ u.state = "init" /\ u.rd = Reset(c.rd) /\ u.wr = Reset(c.wr)
      /\ u.up = c.up /\ u.asked = c.asked
  BY <1>1 DEF Typed
<1>5. u \in [state : {"init", "connecting", "connected", "logic"}, writable : BOOLEAN,
             rd : [mem : Seq(Buf!Cell), rpos : Nat, size : Nat],
             wr : [mem : Seq(Buf!Cell), rpos : Nat, size : Nat],
             up : Seq(AnyByte), asked : Seq(AnyFrame)]
  BY <1>1, <1>3 DEF Typed
<1>6. Fine(u, k)
  BY <1>2, <1>4, <1>5 DEF Fine, Typed
<1> QED BY <1>4, <1>6 DEF u

\* The kernel takes some of the bytes that wait.
LEMMA SentFine ==
    ASSUME NEW c, NEW k \in Nat, Fine(c, k), c.state # "init", NEW n \in 1 .. StreamLen(c.wr)
    PROVE  /\ Fine(Sent(c, n), k)
           /\ Sent(c, n).state = c.state /\ Sent(c, n).rd = c.rd
<1> DEFINE u == Sent(c, n)
           q == Contents(c.wr)
           a == SubSeq(q, 1, n)
           w == IF n < StreamLen(c.wr) THEN TRUE ELSE c.writable
<1>1. /\ StreamLen(c.wr) \in Nat /\ q \in Seq(AnyByte) /\ Len(q) = StreamLen(c.wr)
      /\ c.up \in Seq(AnyByte) /\ Buf!Good(c.wr) /\ Typed(c)
  BY ShownFact DEF Fine, Typed
<1>2. n \in 0 .. StreamLen(c.wr)
  BY <1>1
<1>3. /\ Buf!Good(Skip(c.wr, n)) /\ Contents(Skip(c.wr, n)) = SubSeq(q, n + 1, Len(q))
      /\ Skip(c.wr, n) \in [mem : Seq(Buf!Cell), rpos : Nat, size : Nat]
  BY <1>1, <1>2, SkipFact DEF Buf!Good
<1>4. u = [c EXCEPT !.up = c.up \o a, !.wr = Skip(c.wr, n), !.writable = w]
  BY <1>1 DEF Sent, Typed
<1>5. a \in Seq(AnyByte) /\ c.up \o a \in Seq(AnyByte)
      /\ (c.up \o a) \o SubSeq(q, n + 1, Len(q)) = c.up \o q
      /\ SubSeq(q, n + 1, Len(q)) \in Seq(AnyByte)
  <2>1. n \in 0 .. Len(q)
    BY <1>1, <1>2
  <2> DEFINE p == c.up
  <2>2. p \in Seq(AnyByte) /\ q \in Seq(AnyByte)
    BY <1>1
  <2> HIDE DEF q, p
  <2>3. /\ Ahead(q, n) \in Seq(AnyByte) /\ Behind(q, n) \in Seq(AnyByte)
        /\ p \o Ahead(q, n) \in Seq(AnyByte)
        /\ (p \o Ahead(q, n)) \o Behind(q, n) = p \o q
    BY <2>1, <2>2, Taken
  <2>4. a = Ahead(q, n) /\ SubSeq(q, n + 1, Len(q)) = Behind(q, n)
    BY DEF Ahead, Behind
  <2> HIDE DEF a
  <2> QED BY <2>3, <2>4 DEF p
<1>6. c.up \o q = AllOf(k, c.asked)
  BY DEF Fine
<1>7. IsPrefix(c.up \o a, AllOf(k, c.asked))
  <2> HIDE DEF q, a
  <2>1. IsPrefix(c.up \o a, (c.up \o a) \o SubSeq(q, n + 1, Len(q)))
    BY <1>5, PrefixFact
  <2> QED BY <1>5, <1>6, <2>1
<1>8. w \in BOOLEAN
  BY <1>1 DEF Typed
<1> HIDE DEF u, a, q, w
<1>9. /\ u.state = c.state /\ u.rd = c.rd /\ u.wr = Skip(c.wr, n)
      /\ u.up = c.up \o a /\ u.asked = c.asked
  BY <1>1, <1>4 DEF Typed
<1>10. Typed(u)
  <2>1. u \in [state : {"init", "connecting", "connected", "logic"}, writable : BOOLEAN,
             rd : [mem : Seq(Buf!Cell), rpos : Nat, size : Nat],
             wr : [mem : Seq(Buf!Cell), rpos : Nat, size : Nat],
             up : Seq(AnyByte), asked : Seq(AnyFrame)]
    BY <1>1, <1>3, <1>4, <1>5, <1>8 DEF Typed
  <2> QED BY <1>1, <1>3, <1>9, <2>1 DEF Typed
<1>11. u.up \o Contents(u.wr) = AllOf(k, u.asked)
  BY <1>3, <1>5, <1>6, <1>9
<1> QED BY <1>7, <1>9, <1>10, <1>11 DEF Fine, u

\* A change of state between the open ones, or of the watch.
LEMMA StateFine ==
    ASSUME NEW c, NEW k \in Nat, Fine(c, k), NEW s \in {"connecting", "connected", "logic"},
           NEW w \in BOOLEAN, c.state # "init"
    PROVE  /\ Fine(SetConnState(c, s), k)
           /\ SetConnState(c, s).state = s /\ SetConnState(c, s).rd = c.rd
           /\ Fine([c EXCEPT !.writable = w], k)
           /\ [c EXCEPT !.writable = w].state = c.state /\ [c EXCEPT !.writable = w].rd = c.rd
<1> DEFINE u == SetConnState(c, s)
           v == [c EXCEPT !.writable = w]
<1>1. u = [c EXCEPT !.state = s]
  BY DEF SetConnState, Fine, Typed
<1>2. /\ u.state = s /\ u.rd = c.rd /\ u.wr = c.wr /\ u.up = c.up /\ u.asked = c.asked
      /\ u \in [state : {"init", "connecting", "connected", "logic"}, writable : BOOLEAN,
             rd : [mem : Seq(Buf!Cell), rpos : Nat, size : Nat],
             wr : [mem : Seq(Buf!Cell), rpos : Nat, size : Nat],
             up : Seq(AnyByte), asked : Seq(AnyFrame)]
  BY <1>1 DEF Fine, Typed
<1>3. /\ v.state = c.state /\ v.rd = c.rd /\ v.wr = c.wr /\ v.up = c.up /\ v.asked = c.asked
      /\ v \in [state : {"init", "connecting", "connected", "logic"}, writable : BOOLEAN,
             rd : [mem : Seq(Buf!Cell), rpos : Nat, size : Nat],
             wr : [mem : Seq(Buf!Cell), rpos : Nat, size : Nat],
             up : Seq(AnyByte), asked : Seq(AnyFrame)]
  BY DEF Fine, Typed
<1> HIDE DEF u, v
<1>4. Fine(u, k)
  BY <1>2 DEF Fine, Typed
<1>5. Fine(v, k)
  BY <1>3 DEF Fine, Typed
<1> QED BY <1>2, <1>3, <1>4, <1>5 DEF u, v

\* The connection of c is kept by u, with what was received, or closed.
Kept(c, u, k) ==
    /\ Fine(u, k)
    /\ u.state = "init" \/ (c.state # "init" /\ u.rd = c.rd)

\* What may be left by a write: of a connection that is open, or of one that is
\* not, when nothing was received on it.
LEMMA WriteFine ==
    ASSUME NEW c, NEW k \in Nat, Typed(c), IsPrefix(c.up, AllOf(k, c.asked)),
           c.state # "init" => c.up \o Contents(c.wr) = AllOf(k, c.asked),
           c.state = "init" => StreamLen(c.rd) = 0,
           NEW u \in OnTcpWrite(c)
    PROVE  Kept(c, u, k)
<1>1. StreamLen(c.wr) \in Nat
  BY ShownFact DEF Typed
<1>2. CASE StreamLen(c.wr) <= 0
  <2>1. u = c /\ StreamLen(c.wr) = 0
    BY <1>1, <1>2 DEF OnTcpWrite
  <2> QED BY <2>1 DEF Kept, Fine
<1>3. CASE StreamLen(c.wr) > 0 /\ u = InnerClose(c)
  BY <1>3, CloseFine DEF Kept
<1>4. CASE StreamLen(c.wr) > 0 /\ u # InnerClose(c)
  <2>1. /\ c.state # "init"
        /\ \/ \E n \in 1 .. StreamLen(c.wr) : u = Sent(c, n)
           \/ u = [c EXCEPT !.writable = TRUE]
    BY <1>1, <1>4 DEF OnTcpWrite
  <2>2. Fine(c, k)
    BY <2>1 DEF Fine
  <2>3. CASE \E n \in 1 .. StreamLen(c.wr) : u = Sent(c, n)
    BY <2>1, <2>2, <2>3, SentFine DEF Kept
  <2>4. CASE u = [c EXCEPT !.writable = TRUE]
    BY <2>1, <2>2, <2>4, StateFine DEF Kept
  <2> QED BY <2>1, <2>3, <2>4
<1> QED BY <1>1, <1>2, <1>3, <1>4

\* SendTCPBuf adds a frame behind the others, or closes.
LEMMA SendFine ==
    ASSUME NEW c, conn \in Nat, Fine(c, conn), NEW len \in Nat, NEW u \in SendTCPBuf(c, len)
    PROVE  Kept(c, u, conn)
<1> DEFINE f == [kind |-> "out", len |-> len]
           b == FrameBytes(conn, Len(c.asked) + 1, f)
           w == Write(c.wr, len, b)
           d == [c EXCEPT !.wr = w, !.asked = Append(c.asked, f)]
<1>1. /\ Typed(c) /\ Buf!Good(c.wr) /\ c.asked \in Seq(AnyFrame) /\ c.up \in Seq(AnyByte)
      /\ Len(c.asked) + 1 \in Nat /\ f \in AnyFrame /\ IsPrefix(c.up, AllOf(conn, c.asked))
  BY DEF Fine, Typed, AnyFrame
<1>2. CASE ~ Writable(c.wr, len)
  <2>1. u = InnerClose(c)
    BY <1>2 DEF SendTCPBuf
  <2> QED BY <1>1, <2>1, CloseFine DEF Kept
<1>3. CASE Writable(c.wr, len)
  <2>1. u \in OnTcpWrite(d)
    BY <1>1, <1>3 DEF SendTCPBuf, Typed
  <2>2. b \in Seq(AnyByte) /\ Len(b) = len
    BY <1>1, FrameFact
  <2> HIDE DEF b
  <2>3. /\ Buf!Good(w) /\ Contents(w) = Contents(c.wr) \o b
        /\ w \in [mem : Seq(Buf!Cell), rpos : Nat, size : Nat]
    <3>1. Len(b) <= len
      BY <2>2
    <3>2. Buf!Good(w) /\ Contents(w) = Contents(c.wr) \o b
      BY <1>1, <1>3, <2>2, <3>1, WriteFact
    <3> QED BY <3>2 DEF Buf!Good
  <2>4. /\ AllOf(conn, Append(c.asked, f)) = AllOf(conn, c.asked) \o b
        /\ AllOf(conn, c.asked) \in Seq(AnyByte)
    BY <1>1, AllFact DEF b
  <2>5. Append(c.asked, f) \in Seq(AnyFrame)
    <3> HIDE DEF f
    <3> QED BY <1>1
  <2> HIDE DEF w, f
  <2>6. /\ d.state = c.state /\ d.rd = c.rd /\ d.wr = w /\ d.up = c.up
        /\ d.asked = Append(c.asked, f)
        /\ d \in [state : {"init", "connecting", "connected", "logic"}, writable : BOOLEAN,
             rd : [mem : Seq(Buf!Cell), rpos : Nat, size : Nat],
             wr : [mem : Seq(Buf!Cell), rpos : Nat, size : Nat],
             up : Seq(AnyByte), asked : Seq(AnyFrame)]
    BY <1>1, <2>3, <2>5 DEF Typed
  <2> HIDE DEF d
  <2>7. Typed(d)
    BY <1>1, <2>3, <2>6 DEF Typed
  <2>8. IsPrefix(d.up, AllOf(conn, d.asked))
    <3> DEFINE p == c.up
               a == AllOf(conn, c.asked)
    <3>1. p \in Seq(AnyByte) /\ a \in Seq(AnyByte) /\ IsPrefix(p, a)
      BY <1>1, <2>4
    <3> HIDE DEF p, a
    <3>2. IsPrefix(p, a \o b)
      BY <2>2, <3>1, PrefixFact
    <3> QED BY <2>4, <2>6, <3>2 DEF p, a
  <2>9. d.state # "init" => d.up \o Contents(d.wr) = AllOf(conn, d.asked)
    <3> SUFFICES ASSUME c.state # "init"
                 PROVE  c.up \o (Contents(c.wr) \o b) = AllOf(conn, c.asked) \o b
      BY <2>3, <2>4, <2>6
    <3> DEFINE p == c.up
               q == Contents(c.wr)
    <3>1. p \o q = AllOf(conn, c.asked)
      BY <1>1 DEF Fine
    <3>2. p \in Seq(AnyByte) /\ q \in Seq(AnyByte) /\ b \in Seq(AnyByte)
      BY <1>1, <2>2, ShownFact
    <3> HIDE DEF p, q
    <3>3. (p \o q) \o b = p \o (q \o b)
      BY <3>2, Together
    <3> QED BY <3>1, <3>3 DEF p, q
  <2>10. d.state = "init" => StreamLen(d.rd) = 0
    BY <2>6 DEF Fine
  <2>11. Kept(d, u, conn)
    BY <2>1, <2>7, <2>8, <2>9, <2>10, WriteFine
  <2> QED BY <2>6, <2>11 DEF Kept
<1> QED BY <1>2, <1>3

\* The handlers of ReadStream, for a frame of an open connection.
LEMMA HandledFine ==
    ASSUME NEW c, conn \in Nat, Fine(c, conn), c.state # "init", NEW kind \in Kinds,
           NEW u \in Handled(c, kind)
    PROVE  Fine(u, conn) /\ (u.state = "init" \/ u.rd = c.rd)
<1>1. Fine(InnerClose(c), conn) /\ InnerClose(c).state = "init"
  BY CloseFine DEF Fine
<1>2. CASE kind = "data"
  BY <1>1, <1>2 DEF Handled
<1>3. CASE kind = "label"
  <2> DEFINE d == SetConnState(c, "logic")
  <2>1. Fine(d, conn) /\ d.rd = c.rd
    BY StateFine
  <2>2. u \in SendTCPBuf(d, PingLen)
    BY <1>3 DEF Handled, LoggedIn
  <2>3. PingLen \in Nat
    BY FramesAssumption, BlockAssumption
  <2> HIDE DEF d
  <2>4. Kept(d, u, conn)
    BY <2>1, <2>2, <2>3, SendFine
  <2> QED BY <2>1, <2>4 DEF Kept
<1>4. CASE kind = "bye"
  BY <1>1, <1>4 DEF Handled
<1> QED BY <1>2, <1>3, <1>4 DEF Kinds
-----------------------------------------------------------------------------
(* Steps                                                                   *)

\* No frames, no bytes; and nothing comes before everything.
LEMMA NothingFact ==
    ASSUME NEW k
    PROVE  /\ AllOf(k, <<>>) = <<>>
           /\ \A S : \A q \in Seq(S) : IsPrefix(<<>>, q)
<1>1. AllOf(k, <<>>) = <<>>
  <2> DEFINE s == [i \in 1 .. Len(<<>>) |-> FrameBytes(k, i, <<>>[i])]
  <2>1. Len(<<>>) = 0 /\ s = <<>>
    OBVIOUS
  <2> HIDE DEF s
  <2> QED BY <2>1 DEF AllOf, FlattenSeq, s
<1>2. ASSUME NEW S, NEW q \in Seq(S) PROVE IsPrefix(<<>>, q)
  <2>1. Len(<<>>) = 0 /\ Len(q) \in Nat /\ SubSeq(<<>>, 1, 0) = <<>> /\ SubSeq(q, 1, 0) = <<>>
    OBVIOUS
  <2> QED BY <2>1 DEF IsPrefix
<1> QED BY <1>1, <1>2

\* A stream without length shows nothing.
LEMMA ShowsNothing ==
    ASSUME NEW t, StreamLen(t) = 0
    PROVE  Contents(t) = <<>>
BY DEF Contents

\* At the start nothing was sent, received or handled.
LEMMA InitKeeps == Init => IInv
<1> SUFFICES ASSUME Init PROVE IInv
  OBVIOUS
<1>1. m = [state |-> "init", writable |-> TRUE, rd |-> NewStream, wr |-> NewStream,
           up |-> <<>>, asked |-> <<>>]
  BY DEF Init
<1>2. Buf!Good(NewStream) /\ StreamLen(NewStream) = 0
  <2>2. Buf!Fresh(Block) \in [1 .. Block -> Buf!Cell]
    BY DEF Buf!Fresh, Buf!Cell
  <2>3. Buf!Fresh(Block) = Fresh(Block) /\ Block \in Nat /\ MaxSize \in Nat
    BY BlockAssumption DEF Buf!Fresh, Fresh
  <2>4. Fresh(Block) \in Seq(Buf!Cell) /\ Len(Fresh(Block)) = Block
    BY <2>2, <2>3, Buf!FunctionSeq
  <2>5. Buf!StreamLen(NewStream) = StreamLen(NewStream)
    BY SameOps
  <2> QED BY <2>3, <2>4, <2>5 DEF NewStream, StreamLen, Buf!Good
<1>3. NewStream \in [mem : Seq(Buf!Cell), rpos : Nat, size : Nat]
  BY <1>2 DEF Buf!Good
<1>4. <<>> \in Seq(AnyByte) /\ <<>> \in Seq(AnyFrame)
  OBVIOUS
<1>5. Typed(m) /\ m.up = <<>> /\ m.asked = <<>> /\ m.state = "init"
      /\ m.rd = NewStream /\ m.wr = NewStream
  BY <1>1, <1>2, <1>3, <1>4 DEF Typed
<1>6. IsPrefix(<<>>, AllOf(conn, <<>>))
  BY <1>4, NothingFact
<1>7. Fine(m, conn)
  BY <1>2, <1>5, <1>6 DEF Fine
<1>8. TypeInv /\ HandledWhole
  BY DEF Init, TypeInv, HandledWhole
<1> QED BY <1>5, <1>7, <1>8 DEF IInv, Incoming

\* A step of the net thread that keeps or closes the connection.
LEMMA NetStep ==
    ASSUME IInv, Kept(m, m', conn), phase' = "loop",
           UNCHANGED <<conn, down, given, handled>>
    PROVE  IInv'
<1>1. Fine(m', conn')
  BY DEF Kept
<1>2. m'.state # "init" => m.state # "init" /\ m'.rd = m.rd
  BY DEF Kept
<1>3. TypeInv' /\ HandledWhole'
  BY DEF IInv, TypeInv, HandledWhole
<1>4. Incoming'
  BY <1>2 DEF IInv, Incoming
<1> QED BY <1>1, <1>3, <1>4 DEF IInv

\* A frame more on the way.
LEMMA ServerSendsKeeps ==
    ASSUME IInv, NEW f \in Frames, ServerSends(f)
    PROVE  IInv'
<1>1. f \in [kind : Kinds, len : Nat] /\ f \in AnyFrame /\ f.len >= HeadLen /\ f.len > 0
  BY FramesAssumption DEF AnyFrame
<1>2. /\ conn \in Nat /\ down \in Seq(AnyByte) /\ given \in Seq([kind : Kinds, len : Nat])
      /\ given \in Seq(AnyFrame) /\ handled \in Seq(Seq(AnyByte))
      /\ \A i \in 1 .. Len(given) : given[i].len >= HeadLen
      /\ Typed(m) /\ Fine(m, conn)
  <2> DEFINE K == [kind : Kinds, len : Nat]
  <2>1. K \subseteq AnyFrame
    BY DEF AnyFrame
  <2>2. /\ conn \in Nat /\ down \in Seq(AnyByte) /\ given \in Seq(K)
        /\ handled \in Seq(Seq(AnyByte))
        /\ \A i \in 1 .. Len(given) : given[i].len >= HeadLen
        /\ Fine(m, conn)
    BY DEF IInv, TypeInv
  <2>3. Typed(m)
    BY <2>2 DEF Fine
  <2> HIDE DEF K
  <2>4. given \in Seq(AnyFrame)
    BY <2>1, <2>2
  <2> QED BY <2>2, <2>3, <2>4 DEF K
<1> DEFINE b == FrameBytes(conn, Len(given) + 1, f)
<1>3. b \in Seq(AnyByte)
  BY <1>1, <1>2, FrameFact
<1>4. m.state # "init" /\ given' = Append(given, f) /\ down' = down \o b
      /\ UNCHANGED <<m, phase, conn, handled>>
  BY DEF ServerSends
<1> HIDE DEF b
<1>5. Len(given') = Len(given) + 1 /\ given'[Len(given) + 1] = f
      /\ \A i \in 1 .. Len(given) : given'[i] = given[i]
  BY <1>1, <1>2, <1>4
<1>6. TypeInv'
  <2>1. down' \in Seq(AnyByte) /\ given' \in Seq([kind : Kinds, len : Nat])
    BY <1>1, <1>2, <1>3, <1>4
  <2>2. \A i \in 1 .. Len(given') : given'[i].len >= HeadLen
    <3> SUFFICES ASSUME NEW i \in 1 .. Len(given') PROVE given'[i].len >= HeadLen
      OBVIOUS
    <3>1. Len(given) \in Nat
      BY <1>2
    <3>2. CASE i = Len(given) + 1
      BY <1>1, <1>5, <3>2
    <3>3. CASE i # Len(given) + 1
      <4>1. i \in 1 .. Len(given)
        BY <1>5, <3>1, <3>3
      <4> QED BY <1>2, <1>5, <4>1
    <3> QED BY <3>2, <3>3
  <2> QED BY <1>4, <2>1, <2>2 DEF IInv, TypeInv
<1>7. HandledWhole'
  <2>1. /\ Len(handled) <= Len(given)
        /\ \A i \in 1 .. Len(handled) : handled[i] = FrameBytes(conn, i, given[i])
    BY DEF IInv, HandledWhole
  <2>2. Len(handled) \in Nat /\ Len(given) \in Nat
    BY <1>2
  <2>3. Len(handled') <= Len(given')
    BY <1>4, <1>5, <2>1, <2>2
  <2>4. \A i \in 1 .. Len(handled) : given'[i] = given[i]
    BY <1>5, <2>1, <2>2
  <2>5. \A i \in 1 .. Len(handled) : handled[i] = FrameBytes(conn, i, given'[i])
    BY <2>1, <2>4
  <2> QED BY <1>4, <2>3, <2>5 DEF HandledWhole
<1>8. Incoming'
  <2> DEFINE q == Contents(m.rd)
  <2>1. q \in Seq(AnyByte)
    BY <1>2, ShownFact DEF Typed
  <2>2. Continues(q \o down, conn, Len(handled), given)
    BY <1>4 DEF IInv, Incoming
  <2> HIDE DEF q
  <2>3. q \o down \in Seq(AnyByte) /\ Len(handled) \in Nat
    BY <1>2, <2>1, ConcatProperties
  <2>4. Continues((q \o down) \o b, conn, Len(handled), Append(given, f))
    BY <1>1, <1>2, <2>2, <2>3, ContinuesMore DEF b
  <2>5. (q \o down) \o b = q \o (down \o b)
    BY <1>2, <1>3, <2>1, Together
  <2> QED BY <1>4, <2>4, <2>5 DEF Incoming, q
<1> QED BY <1>2, <1>4, <1>6, <1>7, <1>8 DEF IInv

\* A new connection starts with nothing.
LEMMA InnerConnectKeeps ==
    ASSUME IInv, InnerConnect
    PROVE  IInv'
<1>1. /\ m.state = "init" /\ phase' = "loop" /\ conn' = conn + 1
      /\ m' = [SetConnState(m, "connecting") EXCEPT !.up = <<>>, !.asked = <<>>]
      /\ down' = <<>> /\ given' = <<>> /\ handled' = <<>>
  BY DEF InnerConnect, InLoop
<1>2. Typed(m) /\ StreamLen(m.rd) = 0 /\ StreamLen(m.wr) = 0 /\ conn \in Nat
  BY <1>1 DEF IInv, TypeInv, Fine
<1>3. m' = [m EXCEPT !.state = "connecting", !.up = <<>>, !.asked = <<>>]
  BY <1>1, <1>2 DEF SetConnState, Typed
<1>4. /\ m'.state = "connecting" /\ m'.rd = m.rd /\ m'.wr = m.wr
      /\ m'.up = <<>> /\ m'.asked = <<>> /\ Typed(m')
  <2>1. <<>> \in Seq(AnyByte) /\ <<>> \in Seq(AnyFrame)
    OBVIOUS
  <2>2. /\ m'.state = "connecting" /\ m'.rd = m.rd /\ m'.wr = m.wr
        /\ m'.up = <<>> /\ m'.asked = <<>>
    BY <1>2, <1>3 DEF Typed
  <2>3. m' \in [state : {"init", "connecting", "connected", "logic"}, writable : BOOLEAN,
             rd : [mem : Seq(Buf!Cell), rpos : Nat, size : Nat],
             wr : [mem : Seq(Buf!Cell), rpos : Nat, size : Nat],
             up : Seq(AnyByte), asked : Seq(AnyFrame)]
    BY <1>2, <1>3, <2>1 DEF Typed
  <2> QED BY <1>2, <2>2, <2>3 DEF Typed
<1>5. Contents(m.rd) = <<>> /\ Contents(m.wr) = <<>> /\ AllOf(conn', <<>>) = <<>>
  BY <1>2, ShowsNothing, NothingFact
<1>6. IsPrefix(<<>>, <<>>)
  <2>1. <<>> \in Seq(AnyByte)
    OBVIOUS
  <2> QED BY <2>1, NothingFact
<1>7. Fine(m', conn')
  BY <1>4, <1>5, <1>6 DEF Fine
<1>8. TypeInv' /\ HandledWhole'
  BY <1>1, <1>2 DEF TypeInv, HandledWhole
<1>9. Incoming'
  BY <1>1, <1>4, <1>5 DEF Incoming, Continues
<1> QED BY <1>7, <1>8, <1>9 DEF IInv

\* What was on the way is in the read stream.
LEMMA TcpBytesKeeps ==
    ASSUME IInv, NEW n \in 1 .. RecvSize, TcpBytes(n)
    PROVE  IInv'
<1> DEFINE q == Contents(m.rd)
           a == Ahead(down, n)
           w == Write(m.rd, RecvSize, a)
<1>1. /\ m.state # "init" /\ Writable(m.rd, RecvSize) /\ n \in 1 .. Len(down) /\ n <= RecvSize
      /\ m' = [m EXCEPT !.rd = w] /\ down' = Behind(down, n) /\ phase' = "parse"
      /\ UNCHANGED <<conn, given, handled>>
  <2>1. Typed(m)
    BY DEF IInv, Fine
  <2>2. a = SubSeq(down, 1, n) /\ Behind(down, n) = SubSeq(down, n + 1, Len(down))
    BY DEF Ahead, Behind
  <2> QED BY <2>1, <2>2 DEF TcpBytes, Typed
<1>2. /\ Typed(m) /\ Buf!Good(m.rd) /\ q \in Seq(AnyByte) /\ down \in Seq(AnyByte)
      /\ n \in 0 .. Len(down) /\ RecvSize \in Nat
  <2>1. Typed(m) /\ Buf!Good(m.rd) /\ down \in Seq(AnyByte)
    BY DEF IInv, TypeInv, Fine, Typed
  <2> QED BY <1>1, <2>1, ShownFact, FramesAssumption, BlockAssumption
<1>3. /\ a \in Seq(AnyByte) /\ Behind(down, n) \in Seq(AnyByte)
      /\ (q \o a) \o Behind(down, n) = q \o down
  <2> HIDE DEF q
  <2> QED BY <1>2, Taken
<1>4. Len(a) <= RecvSize
  <2>1. Len(SubSeq(down, 1, n)) = n
    BY <1>2
  <2> QED BY <1>1, <2>1 DEF Ahead
<1> HIDE DEF a
<1>5. Buf!Good(w) /\ Contents(w) = q \o a /\ w \in [mem : Seq(Buf!Cell), rpos : Nat, size : Nat]
  <2>1. Buf!Good(w) /\ Contents(w) = q \o a
    BY <1>1, <1>2, <1>3, <1>4, WriteFact
  <2> QED BY <2>1 DEF Buf!Good
<1> HIDE DEF w
<1>6. /\ m'.state = m.state /\ m'.rd = w /\ m'.wr = m.wr /\ m'.up = m.up /\ m'.asked = m.asked
      /\ m' \in [state : {"init", "connecting", "connected", "logic"}, writable : BOOLEAN,
             rd : [mem : Seq(Buf!Cell), rpos : Nat, size : Nat],
             wr : [mem : Seq(Buf!Cell), rpos : Nat, size : Nat],
             up : Seq(AnyByte), asked : Seq(AnyFrame)]
  BY <1>1, <1>2, <1>5 DEF Typed
<1>7. Fine(m', conn')
  <2>1. Typed(m')
    BY <1>2, <1>5, <1>6 DEF Typed
  <2>2. Fine(m, conn)
    BY DEF IInv
  <2> QED BY <1>1, <1>6, <2>1, <2>2 DEF Fine
<1>8. TypeInv' /\ HandledWhole'
  BY <1>1, <1>3 DEF IInv, TypeInv, HandledWhole
<1>9. Incoming'
  <2> HIDE DEF q
  <2>1. Continues(q \o down, conn, Len(handled), given)
    BY <1>1 DEF IInv, Incoming, q
  <2> QED BY <1>1, <1>3, <1>5, <1>6, <2>1 DEF Incoming
<1> QED BY <1>7, <1>8, <1>9 DEF IInv

\* There is no room: what is shrunk is then closed.
LEMMA TcpOverflowKeeps ==
    ASSUME IInv, TcpOverflow
    PROVE  IInv'
<1> DEFINE w == EnsureWritable(m.rd, RecvSize)
           c == [m EXCEPT !.rd = w]
<1>1. Typed(m) /\ Buf!Good(m.rd) /\ IsPrefix(m.up, AllOf(conn, m.asked)) /\ conn \in Nat
  BY DEF IInv, TypeInv, Fine, Typed
<1>2. m' = InnerClose(c) /\ phase' = "loop" /\ UNCHANGED <<conn, down, given, handled>>
  BY <1>1 DEF TcpOverflow, InLoop, Typed
<1>3. Buf!Good(w) /\ w \in [mem : Seq(Buf!Cell), rpos : Nat, size : Nat]
  <2>1. RecvSize \in Nat
    BY FramesAssumption, BlockAssumption
  <2>2. Buf!Good(w)
    BY <1>1, <2>1, EnsureFact
  <2> QED BY <2>2 DEF Buf!Good
<1> HIDE DEF w
<1>4. Typed(c) /\ c.up = m.up /\ c.asked = m.asked
  BY <1>1, <1>3 DEF Typed
<1> HIDE DEF c
<1>5. Kept(m, m', conn)
  BY <1>1, <1>2, <1>4, CloseFine DEF Kept
<1> QED BY <1>2, <1>5, NetStep

\* A close.
LEMMA BrokenKeeps ==
    ASSUME IInv, Broken
    PROVE  IInv'
<1>1. m' = InnerClose(m) /\ phase' = "loop" /\ UNCHANGED <<conn, down, given, handled>>
  BY DEF Broken, InLoop
<1>2. Kept(m, m', conn)
  BY <1>1, CloseFine DEF IInv, TypeInv, Fine, Kept
<1> QED BY <1>1, <1>2, NetStep

\* The socket can be written.
LEMMA TcpWritableKeeps ==
    ASSUME IInv, TcpWritable
    PROVE  IInv'
<1> DEFINE c == [m EXCEPT !.writable = FALSE]
<1>1. /\ m.state # "init" /\ phase' = "loop" /\ UNCHANGED <<conn, down, given, handled>>
      /\ m' \in IF m.state = "connecting" THEN {SetConnState(c, "connected")} ELSE OnTcpWrite(c)
  BY DEF TcpWritable, InLoop
<1>2. Fine(m, conn) /\ conn \in Nat
  BY DEF IInv, TypeInv
<1>3. Fine(c, conn) /\ c.state = m.state /\ c.rd = m.rd
  BY <1>1, <1>2, StateFine
<1> HIDE DEF c
<1>4. Kept(c, m', conn)
  <2>1. CASE m.state = "connecting"
    BY <1>1, <1>2, <1>3, <2>1, StateFine DEF Kept
  <2>2. CASE m.state # "connecting"
    <3>1. m' \in OnTcpWrite(c)
      BY <1>1, <2>2
    <3> QED BY <1>1, <1>2, <1>3, <3>1, WriteFine DEF Fine
  <2> QED BY <2>1, <2>2
<1>5. Kept(m, m', conn)
  BY <1>3, <1>4 DEF Kept
<1> QED BY <1>1, <1>5, NetStep

\* A frame more to send.
LEMMA ClientSendsKeeps ==
    ASSUME IInv, NEW len \in OutLens, ClientSends(len)
    PROVE  IInv'
<1>1. m' \in SendTCPBuf(m, len) /\ phase' = "loop" /\ UNCHANGED <<conn, down, given, handled>>
  BY DEF ClientSends, InLoop
<1>2. Fine(m, conn) /\ conn \in Nat /\ len \in Nat
  BY FramesAssumption, BlockAssumption DEF IInv, TypeInv
<1>3. Kept(m, m', conn)
  BY <1>1, <1>2, SendFine
<1> QED BY <1>1, <1>3, NetStep

\* What is skipped of the read stream leaves the rest in order.
LEMMA SkipFine ==
    ASSUME NEW c, NEW k \in Nat, Fine(c, k), NEW n \in Nat,
           c.state # "init" => n <= StreamLen(c.rd)
    PROVE  LET u == [c EXCEPT !.rd = Skip(@, n)]
           IN  Fine(u, k) /\ u.state = c.state /\ u.rd = Skip(c.rd, n)
<1> DEFINE w == Skip(c.rd, n)
           u == [c EXCEPT !.rd = w]
<1>1. Typed(c) /\ Buf!Good(c.rd) /\ StreamLen(c.rd) \in Nat
  BY ShownFact DEF Fine, Typed
<1>2. Buf!Good(w) /\ (c.state = "init" => StreamLen(w) = 0)
  <2>1. CASE c.state = "init"
    BY <1>1, <2>1, EmptyFact DEF Fine
  <2>2. CASE c.state # "init"
    <3>1. n \in 0 .. StreamLen(c.rd)
      BY <1>1, <2>2
    <3> QED BY <1>1, <2>2, <3>1, SkipFact
  <2> QED BY <2>1, <2>2
<1>3. w \in [mem : Seq(Buf!Cell), rpos : Nat, size : Nat]
  BY <1>2 DEF Buf!Good
<1>4. [c EXCEPT !.rd = Skip(@, n)] = u
  BY <1>1 DEF Typed
<1> HIDE DEF w
<1>5. /\ u.state = c.state /\ u.rd = w /\ u.wr = c.wr /\ u.up = c.up /\ u.asked = c.asked
      /\ u \in [state : {"init", "connecting", "connected", "logic"}, writable : BOOLEAN,
             rd : [mem : Seq(Buf!Cell), rpos : Nat, size : Nat],
             wr : [mem : Seq(Buf!Cell), rpos : Nat, size : Nat],
             up : Seq(AnyByte), asked : Seq(AnyFrame)]
  BY <1>1, <1>3 DEF Typed
<1> HIDE DEF u
<1>6. Fine(u, k)
  BY <1>1, <1>2, <1>5 DEF Fine, Typed
<1> QED BY <1>4, <1>5, <1>6 DEF w

\* What a front of q \o d is, when q has it.
LEMMA FrontOfBoth ==
    ASSUME NEW S, NEW q \in Seq(S), NEW d \in Seq(S), NEW n \in 0 .. Len(q)
    PROVE  /\ \A i \in 1 .. n : SubSeq(q, 1, n)[i] = (q \o d)[i]
           /\ SubSeq(q, 1, n) \in Seq(S) /\ Len(SubSeq(q, 1, n)) = n
           /\ SubSeq(q \o d, n + 1, Len(q \o d)) = Behind(q, n) \o d
<1> DEFINE r == q \o d
           a == Behind(q, n)
           x == SubSeq(r, n + 1, Len(r))
           y == a \o d
<1>1. /\ r \in Seq(S) /\ Len(r) = Len(q) + Len(d)
      /\ \A i \in 1 .. Len(q) : r[i] = q[i]
      /\ \A i \in 1 .. Len(d) : r[Len(q) + i] = d[i]
  OBVIOUS
<1>2. /\ SubSeq(q, 1, n) \in Seq(S) /\ Len(SubSeq(q, 1, n)) = n
      /\ \A i \in 1 .. n : SubSeq(q, 1, n)[i] = q[i]
  OBVIOUS
<1>3. /\ a \in Seq(S) /\ Len(a) = Len(q) - n /\ \A i \in 1 .. Len(q) - n : a[i] = q[n + i]
  BY DEF Behind
<1> HIDE DEF r, a
<1>4. /\ x \in Seq(S) /\ Len(x) = Len(r) - n /\ \A i \in 1 .. Len(r) - n : x[i] = r[n + i]
  BY <1>1
<1>5. /\ y \in Seq(S) /\ Len(y) = Len(a) + Len(d)
      /\ \A i \in 1 .. Len(a) : y[i] = a[i]
      /\ \A i \in 1 .. Len(d) : y[Len(a) + i] = d[i]
  <2>1. a \in Seq(S) /\ d \in Seq(S)
    BY <1>3
  <2> QED BY <2>1
<1> HIDE DEF x, y
<1>6. Len(q) \in Nat /\ Len(d) \in Nat
  OBVIOUS
<1>7. ASSUME NEW i \in 1 .. Len(r) - n PROVE x[i] = y[i]
  <2>1. CASE i <= Len(q) - n
    <3>1. i \in 1 .. Len(q) - n /\ n + i \in 1 .. Len(q) /\ i \in 1 .. Len(a)
      BY <1>3, <1>6, <2>1
    <3> QED BY <1>1, <1>3, <1>4, <1>5, <3>1
  <2>2. CASE i > Len(q) - n
    <3> DEFINE j == i - (Len(q) - n)
    <3>1. j \in 1 .. Len(d) /\ n + i = Len(q) + j /\ i = Len(a) + j
      <4> DEFINE l == Len(q)
                 e == Len(d)
      <4>1. /\ l \in Nat /\ e \in Nat /\ n \in 0 .. l /\ i \in 1 .. (l + e) - n /\ i > l - n
            /\ j = i - (l - n) /\ Len(a) = l - n
        BY <1>1, <1>3, <1>6, <2>2
      <4> HIDE DEF j, l, e
      <4>2. j \in 1 .. e /\ n + i = l + j /\ i = (l - n) + j
        BY <4>1
      <4> QED BY <4>1, <4>2 DEF l, e
    <3> HIDE DEF j
    <3>2. x[i] = r[n + i] /\ r[Len(q) + j] = d[j] /\ y[Len(a) + j] = d[j]
      BY <1>1, <1>4, <1>5, <3>1
    <3> QED BY <3>1, <3>2
  <2> QED BY <1>6, <2>1, <2>2
<1>8. x = y
  <2>1. Len(x) = Len(y) /\ Len(x) = Len(r) - n
    BY <1>1, <1>3, <1>4, <1>5, <1>6
  <2> QED BY <1>4, <1>5, <1>7, <2>1, SeqEqual
<1> QED BY <1>1, <1>2, <1>8, <1>6 DEF x, y, r, a

\* When the front of q \o d is the next frame and q has all of it.
LEMMA FrontFrame ==
    ASSUME NEW c \in Nat, NEW n \in Nat, NEW q \in Seq(AnyByte), NEW d \in Seq(AnyByte),
           NEW fs \in Seq(AnyFrame), \A i \in 1 .. Len(fs) : fs[i].len > 0,
           q # <<>>, q[1].len <= Len(q), Continues(q \o d, c, n, fs)
    PROVE  /\ n + 1 \in 1 .. Len(fs) /\ q[1].len \in 0 .. Len(q)
           /\ q[1].kind = fs[n + 1].kind
           /\ SubSeq(q, 1, q[1].len) = FrameBytes(c, n + 1, fs[n + 1])
           /\ FrameBytes(c, n + 1, fs[n + 1]) \in Seq(AnyByte)
           /\ Continues(Behind(q, q[1].len) \o d, c, n + 1, fs)
<1> DEFINE r == q \o d
           len == q[1].len
           f == fs[n + 1]
           a == SubSeq(q, 1, len)
           b == FrameBytes(c, n + 1, f)
<1>1. Len(q) \in Nat /\ Len(d) \in Nat /\ 1 \in 1 .. Len(q)
  OBVIOUS
<1>2. q[1] \in AnyByte
  BY <1>1
<1>3. len \in Nat /\ len \in 0 .. Len(q)
  <2>1. len \in Nat
    BY <1>2 DEF AnyByte
  <2> HIDE DEF len
  <2>2. len <= Len(q)
    BY DEF len
  <2> QED BY <1>1, <2>1, <2>2
<1>4. r \in Seq(AnyByte) /\ Len(r) = Len(q) + Len(d) /\ \A i \in 1 .. Len(q) : r[i] = q[i]
  OBVIOUS
<1> HIDE DEF r, len
<1>5. r # <<>> /\ r[1] = q[1] /\ r[1].len = len /\ len <= Len(r)
  <2>1. Len(r) # 0 /\ len <= Len(r)
    BY <1>1, <1>3, <1>4
  <2> QED BY <1>1, <1>4, <2>1 DEF len
<1>6. Continues(r, c, n, fs)
  BY DEF r
<1>7. /\ n + 1 \in 1 .. Len(fs) /\ r[1].len = fs[n + 1].len
      /\ \A p \in 1 .. fs[n + 1].len : r[p] = Byte(c, n + 1, p, fs[n + 1])
      /\ Continues(SubSeq(r, r[1].len + 1, Len(r)), c, n + 1, fs)
  <2>1. r[1].len <= Len(r)
    BY <1>5
  <2> QED BY <1>4, <1>5, <1>6, <2>1, ContinuesLess
<1>8. f \in AnyFrame /\ f.len = len /\ f.len > 0 /\ n + 1 \in Nat
  BY <1>5, <1>7
<1> HIDE DEF f
<1>9. r[1].kind = f.kind
  <2>1. 1 \in 1 .. f.len
    BY <1>3, <1>8
  <2>2. r[1] = Byte(c, n + 1, 1, f)
    BY <1>7, <2>1 DEF f
  <2> QED BY <2>2 DEF Byte
<1>10. /\ \A i \in 1 .. len : a[i] = r[i]
       /\ a \in Seq(AnyByte) /\ Len(a) = len
       /\ SubSeq(r, len + 1, Len(r)) = Behind(q, len) \o d
  BY <1>3, FrontOfBoth DEF r
<1>11. b \in Seq(AnyByte) /\ Len(b) = f.len /\ \A p \in 1 .. f.len : b[p] = Byte(c, n + 1, p, f)
  BY <1>8, FrameFact
<1> HIDE DEF a, b
<1>12. a = b
  <2>1. Len(a) = Len(b)
    BY <1>8, <1>10, <1>11
  <2>2. \A p \in 1 .. len : r[p] = Byte(c, n + 1, p, f)
    BY <1>7, <1>8 DEF f
  <2>3. \A p \in 1 .. Len(a) : a[p] = b[p]
    BY <1>8, <1>10, <1>11, <2>2
  <2> QED BY <1>10, <1>11, <2>1, <2>3, SeqEqual
<1>13. Continues(Behind(q, len) \o d, c, n + 1, fs)
  BY <1>5, <1>7, <1>10
<1>14. q[1].kind = f.kind
  BY <1>5, <1>9
<1> QED BY <1>3, <1>7, <1>11, <1>12, <1>13, <1>14 DEF a, b, f, len

\* The front of the read stream is a whole frame, the next one, and then the
\* handler runs and the frame is skipped.
LEMMA ReadFrameKeeps ==
    ASSUME IInv, ReadFrame
    PROVE  IInv'
<1> DEFINE q == Contents(m.rd)
           n == Len(handled)
           len == First.len
           a == FrameBytes(conn, n + 1, given[n + 1])
<1>1. /\ Fine(m, conn) /\ Typed(m) /\ Buf!Good(m.rd) /\ conn \in Nat /\ down \in Seq(AnyByte)
      /\ given \in Seq([kind : Kinds, len : Nat]) /\ handled \in Seq(Seq(AnyByte)) /\ n \in Nat
      /\ \A i \in 1 .. Len(given) : given[i].len >= HeadLen
      /\ HeadLen \in Nat \ {0}
  <2>1. Fine(m, conn) /\ Typed(m) /\ Buf!Good(m.rd)
    BY DEF IInv, Fine, Typed
  <2>2. HeadLen \in Nat \ {0}
    BY FramesAssumption
  <2> QED BY <2>1, <2>2 DEF IInv, TypeInv
<1>2. /\ q \in Seq(AnyByte) /\ Len(q) = StreamLen(m.rd) /\ StreamLen(m.rd) \in Nat
  BY <1>1, ShownFact
<1>3. /\ StreamLen(m.rd) >= HeadLen /\ StreamLen(m.rd) >= len /\ phase' = "parse"
      /\ UNCHANGED <<conn, down, given>>
      /\ handled' = Append(handled, SubSeq(q, 1, Min({len, StreamLen(m.rd)})))
      /\ m' \in {[c EXCEPT !.rd = Skip(@, len)] : c \in Handled(m, First.kind)}
  BY DEF ReadFrame, Complete, ParseOn, First
<1>4. m.state # "init" /\ q # <<>> /\ First = q[1]
  <2>1. StreamLen(m.rd) # 0
    BY <1>1, <1>2, <1>3
  <2>2. q # <<>>
    <3> HIDE DEF q
    <3> QED BY <1>2, <2>1
  <2> QED BY <1>1, <2>1, <2>2 DEF Fine, First
<1>5. Continues(q \o down, conn, n, given)
  BY <1>4 DEF IInv, Incoming
<1>6. /\ given \in Seq(AnyFrame) /\ \A i \in 1 .. Len(given) : given[i].len > 0
      /\ \A i \in 1 .. Len(given) : given[i].kind \in Kinds
  <2> DEFINE K == [kind : Kinds, len : Nat]
  <2>1. K \subseteq AnyFrame /\ given \in Seq(K) /\ \A f \in K : f.len \in Nat /\ f.kind \in Kinds
    BY <1>1 DEF AnyFrame
  <2> HIDE DEF K
  <2>2. \A i \in 1 .. Len(given) : given[i] \in K
    BY <2>1
  <2>3. given \in Seq(AnyFrame)
    BY <2>1
  <2> QED BY <1>1, <2>1, <2>2, <2>3
<1> HIDE DEF q, n, len, a
<1>7. First.len = len /\ len \in Nat /\ len <= Len(q) /\ len <= StreamLen(m.rd)
  <2>1. Len(q) \in Nat /\ Len(q) # 0
    BY <1>2, <1>4
  <2>2. q[1] \in AnyByte
    BY <1>2, <2>1
  <2>3. First.len \in Nat
    BY <1>4, <2>2 DEF AnyByte
  <2> QED BY <1>2, <1>3, <2>3 DEF len
<1>8. /\ n + 1 \in 1 .. Len(given) /\ len \in 0 .. Len(q) /\ First.kind \in Kinds
      /\ SubSeq(q, 1, len) = a /\ a \in Seq(AnyByte)
      /\ Continues(Behind(q, len) \o down, conn, n + 1, given)
  <2>1. q[1].len <= Len(q)
    BY <1>4, <1>7
  <2>2. /\ n + 1 \in 1 .. Len(given) /\ q[1].len \in 0 .. Len(q)
        /\ q[1].kind = given[n + 1].kind
        /\ SubSeq(q, 1, q[1].len) = FrameBytes(conn, n + 1, given[n + 1])
        /\ FrameBytes(conn, n + 1, given[n + 1]) \in Seq(AnyByte)
        /\ Continues(Behind(q, q[1].len) \o down, conn, n + 1, given)
    BY <1>1, <1>2, <1>4, <1>5, <1>6, <2>1, FrontFrame
  <2>3. First.kind \in Kinds
    BY <1>4, <1>6, <2>2
  <2>4. q[1].len = len
    BY <1>4, <1>7
  <2> QED BY <2>2, <2>3, <2>4 DEF a
<1>9. handled' = Append(handled, a)
  <2> DEFINE l == StreamLen(m.rd)
  <2>1. len \in Nat /\ l \in Nat /\ len <= l
    BY <1>2, <1>7
  <2> HIDE DEF l
  <2>2. Min({len, l}) = len
    <3>1. len \in {len, l} /\ \A y \in {len, l} : len <= y
      BY <2>1
    <3>2. \A x \in {len, l} : (\A y \in {len, l} : x <= y) => x = len
      BY <2>1
    <3> DEFINE T == {len, l}
    <3> HIDE DEF T
    <3>3. Min(T) \in T /\ \A y \in T : Min(T) <= y
      BY <3>1 DEF Min, T
    <3> QED BY <3>2, <3>3 DEF T
  <2> QED BY <1>3, <1>8, <2>2 DEF l
<1>10. PICK c \in Handled(m, First.kind) : m' = [c EXCEPT !.rd = Skip(@, len)]
  BY <1>3
<1>11. Fine(c, conn) /\ (c.state # "init" => c.rd = m.rd)
  BY <1>1, <1>4, <1>8, <1>10, HandledFine
<1>12. Fine(m', conn) /\ m'.state = c.state /\ m'.rd = Skip(c.rd, len)
  <2>1. c.state # "init" => len <= StreamLen(c.rd)
    BY <1>7, <1>11
  <2>2. len \in Nat
    BY <1>7
  <2> QED BY <1>1, <1>10, <1>11, <2>1, <2>2, SkipFine
<1>13. Len(handled') = n + 1 /\ handled'[n + 1] = a /\ (\A i \in 1 .. n : handled'[i] = handled[i])
       /\ handled' \in Seq(Seq(AnyByte)) /\ n \in Nat
  BY <1>1, <1>8, <1>9 DEF n
<1>14. TypeInv'
  BY <1>3, <1>13 DEF IInv, TypeInv
<1>15. HandledWhole'
  <2>1. Len(handled') <= Len(given')
    BY <1>1, <1>3, <1>8, <1>13
  <2>2. ASSUME NEW i \in 1 .. Len(handled')
        PROVE  handled'[i] = FrameBytes(conn, i, given[i])
    <3>1. CASE i = n + 1
      BY <1>13, <3>1 DEF a
    <3>2. CASE i # n + 1
      <4>1. i \in 1 .. n
        BY <1>13, <3>2
      <4> QED BY <1>13, <4>1 DEF IInv, HandledWhole, n
    <3> QED BY <3>1, <3>2
  <2> QED BY <1>3, <2>1, <2>2 DEF HandledWhole
<1>16. Incoming'
  <2> SUFFICES ASSUME m'.state # "init"
               PROVE  Continues(Contents(m'.rd) \o down', conn', Len(handled'), given')
    BY DEF Incoming
  <2>1. len \in 0 .. StreamLen(m.rd) /\ m'.rd = Skip(m.rd, len)
    BY <1>2, <1>8, <1>11, <1>12
  <2>2. Contents(m'.rd) = Behind(q, len)
    BY <1>1, <1>2, <2>1, SkipFact DEF Behind, q
  <2> QED BY <1>3, <1>8, <1>13, <2>2
<1> QED BY <1>3, <1>12, <1>14, <1>15, <1>16 DEF IInv

\* What is left has no whole frame.
LEMMA ReadEndKeeps ==
    ASSUME IInv, ReadEnd
    PROVE  IInv'
BY DEF IInv, TypeInv, Incoming, HandledWhole, ReadEnd

\* Every step keeps the invariant.
LEMMA StepKeeps == IInv /\ [Next]_vars => IInv'
<1> SUFFICES ASSUME IInv, [Next]_vars PROVE IInv'
  OBVIOUS
<1>1. CASE InnerConnect
  BY <1>1, InnerConnectKeeps
<1>2. CASE Receive
  BY <1>2, TcpBytesKeeps DEF Receive
<1>3. CASE TcpOverflow
  BY <1>3, TcpOverflowKeeps
<1>4. CASE Broken
  BY <1>4, BrokenKeeps
<1>5. CASE TcpWritable
  BY <1>5, TcpWritableKeeps
<1>6. ASSUME NEW len \in OutLens, ClientSends(len) PROVE IInv'
  BY <1>6, ClientSendsKeeps
<1>7. CASE ReadFrame
  BY <1>7, ReadFrameKeeps
<1>8. CASE ReadEnd
  BY <1>8, ReadEndKeeps
<1>9. ASSUME NEW f \in Frames, ServerSends(f) PROVE IInv'
  BY <1>9, ServerSendsKeeps
<1>10. CASE UNCHANGED vars
  BY <1>10 DEF vars, IInv, TypeInv, Incoming, HandledWhole
<1> QED BY <1>1, <1>2, <1>3, <1>4, <1>5, <1>6, <1>7, <1>8, <1>9, <1>10 DEF Next, NetThread

\* The invariant holds of every state, with or without the fairness.
LEMMA Invariant == Spec => []IInv
BY InitKeeps, StepKeeps, PTL DEF Spec

\* However the bytes are cut, and whatever is closed and connected between, the
\* frames that ReadStream handles are those the server sent on this connection,
\* in order, once and whole (conn_client.cpp:463-464, 708-786).
THEOREM FramesComeWhole == Spec => []HandledWhole
<1>1. IInv => HandledWhole
  BY DEF IInv
<1> QED BY <1>1, Invariant, PTL

\* However little the kernel takes, and whatever is refused, the bytes it takes
\* on a connection begin the frames sent on it (:495-515, 788-810).
THEOREM FramesGoWhole == Spec => []SentWhole
<1>1. IInv => SentWhole
  BY DEF IInv, Fine, SentWhole, AllBytes, AllOf
<1> QED BY <1>1, Invariant, PTL
=============================================================================
