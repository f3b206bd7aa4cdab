----------------------------- MODULE Kcp_proofs -----------------------------
(***************************************************************************)
(* The reliable transport, for any windows, any messages and any network.  *)
(*                                                                         *)
(* The first parts say what each function of ikcp.cpp does to a control    *)
(* block, one lemma for each function.  Fine is what a block keeps by      *)
(* itself; with it the windows hold and the receive queue does not wedge   *)
(* whatever the network does.  Joined, Honest and Comes are what holds     *)
(* between the ends; with them nothing is forgotten and every number is    *)
(* rebuilt from the wire, as long as nothing on its way or waiting is Half *)
(* numbers old (Timely), which only the network can see to -- unless each  *)
(* end has fewer than Half fragments to send (Brief, the last part).       *)
(***************************************************************************)
EXTENDS Kcp, FiniteSetTheorems, SequenceTheorems, WellFoundedInduction, TLAPS

-----------------------------------------------------------------------------
(* Sequence numbers                                                        *)

\* Division with remainder.
LEMMA DivMod ==
    ASSUME NEW x \in Int, NEW M \in Nat \ {0}
    PROVE  /\ x % M \in 0 .. M - 1
           /\ x \div M \in Int
           /\ x = M * (x \div M) + (x % M)
OBVIOUS

\* A multiple of M between -2M and 2M.
LEMMA NearMultiple ==
    ASSUME NEW q \in Int, NEW M \in Nat \ {0}, q * M < 2 * M, q * M > -2 * M
    PROVE  q \in {-1, 0, 1}
<1>1. q < 2
  <2> SUFFICES ASSUME q >= 2 PROVE FALSE
    OBVIOUS
  <2>1. (q - 2) * M >= 0
    OBVIOUS
  <2> QED BY <2>1
<1>2. q > -2
  <2> SUFFICES ASSUME q <= -2 PROVE FALSE
    OBVIOUS
  <2>1. (-2 - q) * M >= 0
    OBVIOUS
  <2> QED BY <2>1
<1> QED BY <1>1, <1>2

\* The remainder is unique.
LEMMA ModUnique ==
    ASSUME NEW M \in Nat \ {0}, NEW q \in Int, NEW r \in 0 .. M - 1, NEW x \in Int,
           x = M * q + r
    PROVE  x % M = r
<1> DEFINE d == x \div M
           e == x % M
<1>1. d \in Int /\ e \in 0 .. M - 1 /\ x = M * d + e
  BY DivMod
<1> HIDE DEF d, e
<1>2. (q - d) * M = e - r
  BY <1>1
<1>3. (q - d) * M < M /\ (q - d) * M > -M
  BY <1>1, <1>2
<1>4. q - d \in {-1, 0, 1}
  BY <1>1, <1>3, NearMultiple
<1>5. q - d = 0
  BY <1>1, <1>3, <1>4
<1>6. e = r
  BY <1>1, <1>2, <1>5
<1> QED BY <1>6 DEF e

\* _itimediff gives the distance up to whole turns of the counter.
LEMMA DiffTurns ==
    ASSUME NEW a \in SeqNums, NEW b \in SeqNums
    PROVE  /\ Diff(a, b) \in Int
           /\ \E t \in Int : a = b + Diff(a, b) + Word * t
<1> DEFINE d == (a - b) % Word
           q == (a - b) \div Word
<1>1. Word \in Nat \ {0} /\ a - b \in Int /\ a \in Int /\ b \in Int
  BY HalfAssumption, WordAssumption DEF SeqNums
<1>2. d \in Int /\ q \in Int /\ a - b = Word * q + d
  BY <1>1, DivMod
<1>3. Diff(a, b) = IF 2 * d < Word THEN d ELSE d - Word
  BY DEF Diff
<1> HIDE DEF d, q
<1>4. CASE 2 * d < Word
  <2>1. a = b + Diff(a, b) + Word * q
    BY <1>1, <1>2, <1>3, <1>4
  <2> QED BY <1>2, <1>3, <1>4, <2>1
<1>5. CASE ~ (2 * d < Word)
  <2>1. Word * (q + 1) = Word * q + Word
    BY <1>1, <1>2
  <2>2. a = b + Diff(a, b) + Word * (q + 1)
    BY <1>1, <1>2, <1>3, <1>5, <2>1
  <2>3. Diff(a, b) \in Int
    BY <1>1, <1>2, <1>3, <1>5
  <2> QED BY <1>2, <2>2, <2>3
<1> QED BY <1>4, <1>5

\* get_id (ikcp.cpp:829-838): a segment that any window test can accept, or an
\* acknowledgement of anything in flight, is at less than Half from the base, so
\* its number is rebuilt exactly, also where the low half or the word wraps.
THEOREM GetIdExact ==
    ASSUME NEW base \in SeqNums, NEW sn \in SeqNums,
           Diff(sn, base) < Half, Diff(sn, base) > -Half
    PROVE  GetId(base, Short(sn)) = sn
<1> DEFINE M == 2 * Half
           K == Word \div M
           b == base \div M
           rb == base % M
           s == sn \div M
           rs == sn % M
           D == Diff(sn, base)
<1>0. Half \in Nat \ {0} /\ M \in Nat \ {0} /\ Word \in Nat \ {0} /\ Word >= 2 * M
      /\ base \in Int /\ sn \in Int /\ base \in 0 .. Word - 1 /\ sn \in 0 .. Word - 1
  BY HalfAssumption, WordAssumption DEF SeqNums
<1>1. K \in Int /\ Word = M * K
  <2>1. Word % M = 0
    BY WordAssumption
  <2>2. Word \in Int
    BY <1>0
  <2>3. K \in Int /\ Word = M * K + (Word % M)
    <3> HIDE DEF M
    <3> QED BY <1>0, <2>2, DivMod
  <2> QED BY <1>0, <2>1, <2>3
<1>2. b \in Int /\ rb \in 0 .. M - 1 /\ base = M * b + rb
  BY <1>0, DivMod
<1>3. s \in Int /\ rs \in 0 .. M - 1 /\ sn = M * s + rs
  BY <1>0, DivMod
<1>4. PICK t \in Int : sn = base + D + Word * t
  BY DiffTurns
<1>5. D \in Int /\ D < Half /\ D > -Half
  BY DiffTurns
<1>6. GetId(base, Short(sn)) =
         LET x == (base - rb) + rs
         IN  IF x < base - Half THEN (x + M) % Word
             ELSE IF x > base + Half THEN (x - M) % Word
             ELSE x
  BY DEF GetId, Short
<1>7. M = 2 * Half
  OBVIOUS
<1> HIDE DEF M, K, b, rb, s, rs, D
<1> DEFINE x == (base - rb) + rs
           y == base + D
           q == b - s + K * t
<1>8. x \in Int /\ y \in Int /\ q \in Int /\ x = M * b + rs /\ y = sn - Word * t
  BY <1>0, <1>1, <1>2, <1>3, <1>4, <1>5
<1>9. q * M = x - y
  <2>1. M * (K * t) = Word * t
    BY <1>0, <1>1, <1>4
  <2>2. q * M = M * b - M * s + M * (K * t)
    BY <1>0, <1>1, <1>2, <1>3, <1>4
  <2> QED BY <1>3, <1>8, <2>1, <2>2, <1>0, <1>2, <1>4
<1>10. x - y < 2 * M /\ x - y > -2 * M
  BY <1>0, <1>2, <1>3, <1>5, <1>7
<1>11. q \in {-1, 0, 1}
  BY <1>8, <1>9, <1>10, <1>0, NearMultiple
<1>12. y % Word = sn
  <2> DEFINE u == -t
  <2>1. u \in Int /\ y = Word * u + sn
    BY <1>0, <1>4, <1>8
  <2>2. y \in Int /\ sn \in 0 .. Word - 1
    BY <1>0, <1>8
  <2> HIDE DEF y, u
  <2> QED BY <1>0, <2>1, <2>2, ModUnique
<1>13. x \in 0 .. Word - 1
  <2>1. b >= 0
    <3> SUFFICES ASSUME b < 0 PROVE FALSE
      BY <1>2
    <3>1. (-1 - b) * M >= 0
      BY <1>0, <1>2
    <3> QED BY <1>0, <1>2, <3>1
  <2>2. b <= K - 1
    <3> SUFFICES ASSUME b >= K PROVE FALSE
      BY <1>1, <1>2
    <3>1. (b - K) * M >= 0
      BY <1>0, <1>1, <1>2
    <3> QED BY <1>0, <1>1, <1>2, <3>1
  <2>3. b * M >= 0 /\ (K - 1 - b) * M >= 0
    BY <1>0, <1>1, <1>2, <2>1, <2>2
  <2> QED BY <1>0, <1>1, <1>2, <1>3, <1>8, <2>3
<1>14. CASE q = 0
  <2>1. x = y
    BY <1>8, <1>9, <1>14, <1>0
  <2>2. x % Word = x
    <3> HIDE DEF x
    <3>1. x = Word * 0 + x
      BY <1>8, <1>0
    <3> QED BY <1>0, <1>8, <1>13, <3>1, ModUnique
  <2>3. x = sn
    BY <1>12, <2>1, <2>2
  <2>4. ~ (x < base - Half) /\ ~ (x > base + Half)
    BY <1>0, <1>5, <1>8, <2>1
  <2> QED BY <1>6, <2>3, <2>4
<1>15. CASE q = -1
  <2>1. x = y - M
    BY <1>8, <1>9, <1>15, <1>0
  <2>2. x < base - Half
    BY <1>0, <1>5, <1>7, <2>1
  <2>3. x + M = y
    BY <1>0, <1>8, <2>1
  <2> QED BY <1>6, <1>12, <2>2, <2>3
<1>16. CASE q = 1
  <2>1. x = y + M
    BY <1>8, <1>9, <1>16, <1>0
  <2>2. x > base + Half /\ ~ (x < base - Half)
    BY <1>0, <1>5, <1>7, <2>1
  <2>3. x - M = y
    BY <1>0, <1>8, <2>1
  <2> QED BY <1>6, <1>12, <2>2, <2>3
<1> QED BY <1>11, <1>14, <1>15, <1>16

\* How far number x is ahead of y.
Gap(x, y) == IF x >= y THEN x - y ELSE x - y + Word

\* _itimediff from Gap.
LEMMA GapIs ==
    ASSUME NEW x \in SeqNums, NEW y \in SeqNums
    PROVE  /\ Gap(x, y) \in SeqNums
           /\ Gap(x, y) = 0 <=> x = y
           /\ Diff(x, y) = IF 2 * Gap(x, y) < Word THEN Gap(x, y) ELSE Gap(x, y) - Word
<1>1. Word \in Nat \ {0} /\ x \in 0 .. Word - 1 /\ y \in 0 .. Word - 1 /\ x - y \in Int
  BY HalfAssumption, WordAssumption DEF SeqNums
<1>2. (x - y) % Word = Gap(x, y)
  <2>1. CASE x >= y
    <3>1. x - y = Word * 0 + (x - y) /\ x - y \in 0 .. Word - 1
      BY <1>1, <2>1
    <3> QED BY <1>1, <2>1, <3>1, ModUnique DEF Gap
  <2>2. CASE ~ (x >= y)
    <3>1. x - y = Word * (-1) + (x - y + Word) /\ x - y + Word \in 0 .. Word - 1 /\ -1 \in Int
      BY <1>1, <2>2
    <3> QED BY <1>1, <2>2, <3>1, ModUnique DEF Gap
  <2> QED BY <2>1, <2>2
<1>3. Diff(x, y) = IF 2 * Gap(x, y) < Word THEN Gap(x, y) ELSE Gap(x, y) - Word
  BY <1>2 DEF Diff
<1>4. Gap(x, y) \in SeqNums /\ (Gap(x, y) = 0 <=> x = y)
  BY <1>1 DEF Gap, SeqNums
<1> QED BY <1>3, <1>4

\* Addition to a counter.
LEMMA PlusIs ==
    ASSUME NEW x \in SeqNums, NEW n \in SeqNums
    PROVE  /\ Plus(x, n) \in SeqNums
           /\ Plus(x, n) = IF x + n < Word THEN x + n ELSE x + n - Word
<1>1. Word \in Nat \ {0} /\ x \in 0 .. Word - 1 /\ n \in 0 .. Word - 1 /\ x + n \in Int
  BY HalfAssumption, WordAssumption DEF SeqNums
<1>2. CASE x + n < Word
  <2>1. x + n = Word * 0 + (x + n) /\ x + n \in 0 .. Word - 1
    BY <1>1, <1>2
  <2> QED BY <1>1, <1>2, <2>1, ModUnique DEF Plus, SeqNums
<1>3. CASE ~ (x + n < Word)
  <2>1. x + n = Word * 1 + (x + n - Word) /\ x + n - Word \in 0 .. Word - 1
    BY <1>1, <1>3
  <2> QED BY <1>1, <1>3, <2>1, ModUnique DEF Plus, SeqNums
<1> QED BY <1>2, <1>3

\* A number further on.
LEMMA GapPlus ==
    ASSUME NEW x \in SeqNums, NEW y \in SeqNums, NEW n \in SeqNums
    PROVE  /\ Gap(x, y) + n < Word => Gap(Plus(x, n), y) = Gap(x, y) + n
           /\ n <= Gap(x, y) => Gap(x, Plus(y, n)) = Gap(x, y) - n
           /\ Gap(Plus(x, n), x) = n
<1>1. Word \in Nat \ {0} /\ x \in 0 .. Word - 1 /\ y \in 0 .. Word - 1 /\ n \in 0 .. Word - 1
  BY HalfAssumption, WordAssumption DEF SeqNums
<1>2. Plus(x, n) = IF x + n < Word THEN x + n ELSE x + n - Word
  BY PlusIs
<1>3. Plus(y, n) = IF y + n < Word THEN y + n ELSE y + n - Word
  BY PlusIs
<1>4. Gap(x, y) + n < Word => Gap(Plus(x, n), y) = Gap(x, y) + n
  BY <1>1, <1>2 DEF Gap
<1>5. n <= Gap(x, y) => Gap(x, Plus(y, n)) = Gap(x, y) - n
  BY <1>1, <1>3 DEF Gap
<1>6. Gap(Plus(x, n), x) = n
  BY <1>1, <1>2 DEF Gap
<1> QED BY <1>4, <1>5, <1>6

\* Distances by way of a third number.
LEMMA GapVia ==
    ASSUME NEW x \in SeqNums, NEW y \in SeqNums, NEW z \in SeqNums
    PROVE  /\ Gap(y, z) <= Gap(x, z) => Gap(x, y) = Gap(x, z) - Gap(y, z)
           /\ Gap(x, y) <= Gap(x, z) => Gap(y, z) = Gap(x, z) - Gap(x, y)
           /\ Gap(x, y) + Gap(y, z) < Word => Gap(x, z) = Gap(x, y) + Gap(y, z)
BY HalfAssumption, WordAssumption DEF Gap, SeqNums

-----------------------------------------------------------------------------
(* Sequences                                                               *)

\* Some numbers have a least one.
LEMMA LeastNumber ==
    ASSUME NEW T, T \subseteq Nat, T # {}
    PROVE  \E m0 \in T : \A n \in T : m0 <= n
<1> DEFINE U == {0 .. n : n \in T}
           R == StrictSubsetOrdering(Nat)
<1>1. IsWellFoundedOn(R, FiniteSubsetsOf(Nat))
  BY FS_StrictSubsetOrderingWellFounded
<1>2. U \subseteq FiniteSubsetsOf(Nat) /\ U # {}
  <2>1. \A n \in T : 0 .. n \in FiniteSubsetsOf(Nat)
    <3> TAKE n \in T
    <3>1. IsFiniteSet(0 .. n) /\ 0 .. n \subseteq Nat
      BY FS_Interval
    <3> QED BY <3>1 DEF FiniteSubsetsOf
  <2> QED BY <2>1
<1>3. PICK A \in U : \A B \in U : ~ (<<B, A>> \in R)
  <2> HIDE DEF U, R
  <2> QED BY <1>1, <1>2, WFMin
<1>4. PICK m0 \in T : A = 0 .. m0
  OBVIOUS
<1>5. \A n \in T : m0 <= n
  <2> SUFFICES ASSUME NEW n \in T, n < m0 PROVE FALSE
    OBVIOUS
  <2>1. 0 .. n \in U /\ 0 .. n \subseteq 0 .. m0 /\ 0 .. n # 0 .. m0
    OBVIOUS
  <2>2. <<0 .. n, A>> \in R
    BY <1>2, <1>4, <2>1 DEF StrictSubsetOrdering, FiniteSubsetsOf
  <2> QED BY <1>3, <2>1, <2>2
<1> QED BY <1>5

\* A set of numbers that holds the first and with each the next holds them all.
LEMMA Climb ==
    ASSUME NEW a \in Nat, NEW b \in Nat, NEW T,
           a \in T, \A n \in a .. b - 1 : n \in T => n + 1 \in T
    PROVE  \A n \in a .. b : n \in T
<1> SUFFICES ASSUME (a .. b) \ T # {} PROVE FALSE
  OBVIOUS
<1>1. PICK n \in (a .. b) \ T : \A k \in (a .. b) \ T : n <= k
  <2>1. (a .. b) \ T \subseteq Nat
    OBVIOUS
  <2> QED BY <2>1, LeastNumber
<1>2. n # a /\ n - 1 \in a .. b - 1 /\ n - 1 \in a .. b /\ (n - 1) + 1 = n
  BY <1>1
<1>3. n - 1 \notin T
  BY <1>1, <1>2
<1>4. ~ (n <= n - 1)
  BY <1>2
<1> QED BY <1>1, <1>2, <1>3, <1>4

\* The least of some numbers is one of them, and so is the greatest of a bounded set.
LEMMA MinFact ==
    ASSUME NEW T, T \subseteq Nat, T # {}
    PROVE  Min(T) \in T /\ \A n \in T : Min(T) <= n
<1>1. \E m0 \in T : \A n \in T : m0 <= n
  BY LeastNumber
<1> QED BY <1>1 DEF Min

\* The greatest of some numbers below a bound.
LEMMA MaxFact ==
    ASSUME NEW T, NEW b \in Nat, T \subseteq 0 .. b, T # {}
    PROVE  Max(T) \in T /\ \A n \in T : n <= Max(T)
<1> DEFINE U == {b - n : n \in T}
<1>1. PICK u \in U : \A v \in U : u <= v
  <2>1. \A n \in T : b - n \in Nat
    OBVIOUS
  <2>2. U \subseteq Nat /\ U # {}
    BY <2>1, Zenon
  <2> HIDE DEF U
  <2> QED BY <2>2, LeastNumber
<1>2. PICK m \in T : u = b - m
  OBVIOUS
<1>3. \A n \in T : n <= m
  <2> SUFFICES ASSUME NEW n \in T PROVE n <= m
    OBVIOUS
  <2>1. u <= b - n /\ n \in 0 .. b /\ m \in 0 .. b
    BY <1>1
  <2> QED BY <1>2, <2>1
<1>4. \E x \in T : \A y \in T : x >= y
  <2>1. \A n \in T : n \in Int /\ m \in Int
    OBVIOUS
  <2>2. \A n \in T : m >= n
    BY <1>3, <2>1
  <2> QED BY <2>2
<1> DEFINE x == Max(T)
<1>5. x \in T /\ \A y \in T : x >= y
  BY <1>4 DEF Max
<1> HIDE DEF x
<1>6. \A y \in T : y <= x
  BY <1>5
<1> QED BY <1>5, <1>6 DEF x

\* The least and the greatest of two.
LEMMA OfTwo ==
    ASSUME NEW x \in Int, NEW y \in Int
    PROVE  /\ Min({x, y}) = IF x <= y THEN x ELSE y
           /\ Max({x, y}) = IF x <= y THEN y ELSE x
<1> DEFINE T == {x, y}
           a == IF x <= y THEN x ELSE y
           b == IF x <= y THEN y ELSE x
<1>1. a \in T /\ b \in T /\ \A n \in T : a <= n /\ n <= b
  OBVIOUS
<1>2. /\ \A n \in T : (\A u \in T : n <= u) => n = a
      /\ \A n \in T : (\A u \in T : u <= n) => n = b
  OBVIOUS
<1> HIDE DEF T, a, b
<1>3. Min(T) \in T /\ \A u \in T : Min(T) <= u
  BY <1>1 DEF Min
<1>4. Max(T) \in T /\ \A u \in T : u <= Max(T)
  BY <1>1 DEF Max
<1>5. Min(T) = a /\ Max(T) = b
  BY <1>2, <1>3, <1>4
<1> QED BY <1>5 DEF T, a, b

\* The two parts of a sequence cut behind the n-th.
LEMMA CutFact ==
    ASSUME NEW S, NEW s \in Seq(S), NEW n \in 0 .. Len(s)
    PROVE  /\ SubSeq(s, 1, n) \in Seq(S) /\ Len(SubSeq(s, 1, n)) = n
           /\ \A i \in 1 .. n : SubSeq(s, 1, n)[i] = s[i]
           /\ SubSeq(s, n + 1, Len(s)) \in Seq(S)
           /\ Len(SubSeq(s, n + 1, Len(s))) = Len(s) - n
           /\ \A i \in 1 .. Len(s) - n : SubSeq(s, n + 1, Len(s))[i] = s[n + i]
OBVIOUS

\* What is behind the place moves by one.
LEMMA RemoveAtFact ==
    ASSUME NEW S, NEW s \in Seq(S), NEW k \in 1 .. Len(s)
    PROVE  /\ RemoveAt(s, k) \in Seq(S)
           /\ Len(RemoveAt(s, k)) = Len(s) - 1
           /\ \A j \in 1 .. Len(s) - 1 :
                  RemoveAt(s, k)[j] = IF j < k THEN s[j] ELSE s[j + 1]
<1> DEFINE p == SubSeq(s, 1, k - 1)
           q == SubSeq(s, k + 1, Len(s))
<1>1. p \in Seq(S) /\ Len(p) = k - 1 /\ \A j \in 1 .. k - 1 : p[j] = s[j]
  OBVIOUS
<1>2. q \in Seq(S) /\ Len(q) = Len(s) - k /\ \A j \in 1 .. Len(s) - k : q[j] = s[k + j]
  OBVIOUS
<1>3. RemoveAt(s, k) = p \o q
  BY DEF RemoveAt
<1> HIDE DEF p, q
<1>4. /\ p \o q \in Seq(S) /\ Len(p \o q) = Len(s) - 1
      /\ \A j \in 1 .. Len(s) - 1 : (p \o q)[j] = IF j < k THEN p[j] ELSE q[j - (k - 1)]
  <2>1. /\ p \o q \in Seq(S) /\ Len(p \o q) = Len(p) + Len(q)
        /\ \A j \in 1 .. Len(p) + Len(q) :
               (p \o q)[j] = IF j <= Len(p) THEN p[j] ELSE q[j - Len(p)]
    BY <1>1, <1>2, ConcatProperties
  <2>2. Len(p) = k - 1 /\ Len(p) + Len(q) = Len(s) - 1
    BY <1>1, <1>2
  <2>3. \A j \in 1 .. Len(s) - 1 : j <= k - 1 <=> j < k
    OBVIOUS
  <2> QED BY <2>1, <2>2, <2>3
<1>5. \A j \in 1 .. Len(s) - 1 : j >= k => q[j - (k - 1)] = s[j + 1]
  <2> SUFFICES ASSUME NEW j \in 1 .. Len(s) - 1, j >= k PROVE q[j - (k - 1)] = s[j + 1]
    OBVIOUS
  <2>1. j - (k - 1) \in 1 .. Len(s) - k /\ k + (j - (k - 1)) = j + 1
    OBVIOUS
  <2> QED BY <1>2, <2>1
<1>6. ASSUME NEW j \in 1 .. Len(s) - 1
      PROVE  (p \o q)[j] = IF j < k THEN s[j] ELSE s[j + 1]
  <2>1. CASE j < k
    <3>1. j \in 1 .. k - 1
      BY <2>1
    <3> QED BY <1>1, <1>4, <2>1, <3>1
  <2>2. CASE ~(j < k)
    BY <1>4, <1>5, <2>2
  <2> QED BY <2>1, <2>2
<1> QED BY <1>3, <1>4, <1>6

\* What is behind the place moves by one.
LEMMA InsertAtFact ==
    ASSUME NEW S, NEW s \in Seq(S), NEW e \in S, NEW k \in 1 .. Len(s) + 1
    PROVE  /\ InsertAt(s, k, e) \in Seq(S)
           /\ Len(InsertAt(s, k, e)) = Len(s) + 1
           /\ \A j \in 1 .. Len(s) + 1 :
                  InsertAt(s, k, e)[j] = IF j < k THEN s[j] ELSE IF j = k THEN e ELSE s[j - 1]
<1> DEFINE p == SubSeq(s, 1, k - 1)
           q == SubSeq(s, k, Len(s))
           pe == p \o <<e>>
<1>1. p \in Seq(S) /\ Len(p) = k - 1 /\ \A j \in 1 .. k - 1 : p[j] = s[j]
  OBVIOUS
<1>2. q \in Seq(S) /\ Len(q) = Len(s) - (k - 1) /\ \A j \in 1 .. Len(s) - (k - 1) : q[j] = s[k - 1 + j]
  OBVIOUS
<1>3. InsertAt(s, k, e) = pe \o q
  BY DEF InsertAt
<1>4. <<e>> \in Seq(S) /\ Len(<<e>>) = 1 /\ <<e>>[1] = e
  OBVIOUS
<1> HIDE DEF p, q
<1>5. pe \in Seq(S) /\ Len(pe) = k /\ \A j \in 1 .. k : pe[j] = IF j < k THEN s[j] ELSE e
  <2>1. /\ p \o <<e>> \in Seq(S) /\ Len(p \o <<e>>) = Len(p) + 1
        /\ \A j \in 1 .. Len(p) + 1 :
               (p \o <<e>>)[j] = IF j <= Len(p) THEN p[j] ELSE <<e>>[j - Len(p)]
    BY <1>1, <1>4, ConcatProperties
  <2>2. \A j \in 1 .. k : (j <= k - 1 <=> j < k) /\ (~ (j < k) => j - (k - 1) = 1)
    OBVIOUS
  <2>3. \A j \in 1 .. k : j < k => p[j] = s[j]
    BY <1>1
  <2> QED BY <1>1, <1>4, <2>1, <2>2, <2>3
<1> HIDE DEF pe
<1>6. /\ pe \o q \in Seq(S) /\ Len(pe \o q) = Len(pe) + Len(q)
      /\ \A j \in 1 .. Len(pe) + Len(q) :
             (pe \o q)[j] = IF j <= Len(pe) THEN pe[j] ELSE q[j - Len(pe)]
  BY <1>2, <1>5, ConcatProperties
<1>7. Len(pe) + Len(q) = Len(s) + 1
  BY <1>2, <1>5
<1>8. ASSUME NEW j \in 1 .. Len(s) + 1
      PROVE  (pe \o q)[j] = IF j < k THEN s[j] ELSE IF j = k THEN e ELSE s[j - 1]
  <2>1. CASE j <= k
    <3>1. (pe \o q)[j] = pe[j]
      BY <1>5, <1>6, <1>7, <2>1
    <3> QED BY <1>5, <2>1, <3>1
  <2>2. CASE ~ (j <= k)
    <3>1. (pe \o q)[j] = q[j - k]
      BY <1>5, <1>6, <1>7, <2>2
    <3>2. j - k \in 1 .. Len(s) - (k - 1) /\ (k - 1) + (j - k) = j - 1
      BY <2>2
    <3> QED BY <1>2, <2>2, <3>1, <3>2
  <2> QED BY <2>1, <2>2
<1> QED BY <1>3, <1>6, <1>7, <1>8

-----------------------------------------------------------------------------
(* Folds                                                                   *)

\* The values of a fold from the left, by the set of the places passed.
Iterates(g, n, base, step) ==
    g = [A \in SUBSET (1 .. n) |->
            IF A = {} THEN base ELSE step[<<g[A \ {Max(A)}], Max(A)>>]]

\* The places behind the last of some.
LEMMA Before ==
    ASSUME NEW n \in Nat, NEW A \in SUBSET (1 .. n), A # {}
    PROVE  Max(A) \in A /\ Max(A) \in 1 .. n /\ A \ {Max(A)} \in SUBSET (1 .. n)
           /\ \A i \in A : i <= Max(A)
<1>1. A \subseteq 0 .. n
  OBVIOUS
<1>2. n \in Nat /\ A # {}
  OBVIOUS
<1>3. Max(A) \in A /\ \A i \in A : i <= Max(A)
  BY <1>1, <1>2, MaxFact
<1> QED BY <1>3, Zenon

\* The last of the first i places.
LEMMA UpTo ==
    ASSUME NEW i \in Nat, i > 0
    PROVE  Max(1 .. i) = i /\ (1 .. i) \ {i} = 1 .. (i - 1) /\ 1 .. i # {}
<1> DEFINE m == Max(1 .. i)
<1>1. 1 .. i # {} /\ i \in 1 .. i
  OBVIOUS
<1>2. m \in 1 .. i /\ \A j \in 1 .. i : j <= m
  BY <1>1, Before
<1> HIDE DEF m
<1>3. m = i
  BY <1>1, <1>2
<1>4. (1 .. i) \ {i} = 1 .. (i - 1)
  OBVIOUS
<1> QED BY <1>1, <1>3, <1>4 DEF m

\* A fold has its values.
LEMMA IteratesExist ==
    ASSUME NEW n \in Nat, NEW S, NEW base \in S, NEW step \in [S \X (1 .. n) -> S]
    PROVE  \E g \in [SUBSET (1 .. n) -> S] : Iterates(g, n, base, step)
<1> DEFINE G(m, g) == \A A \in SUBSET (1 .. m) :
                          g[A] = IF A = {} THEN base ELSE step[<<g[A \ {Max(A)}], Max(A)>>]
           T == {m \in 0 .. n : \E g \in [SUBSET (1 .. m) -> S] : G(m, g)}
<1>1. 0 \in T
  <2> DEFINE g == [A \in SUBSET (1 .. 0) |-> base]
  <2>1. g \in [SUBSET (1 .. 0) -> S]
    OBVIOUS
  <2>2. SUBSET (1 .. 0) = {{}}
    OBVIOUS
  <2>3. G(0, g)
    BY <2>2
  <2>4. 0 \in 0 .. n
    OBVIOUS
  <2> HIDE DEF g, G
  <2> QED BY <2>1, <2>3, <2>4
<1>2. ASSUME NEW m \in 0 .. n - 1, m \in T PROVE m + 1 \in T
  <2>1. PICK f \in [SUBSET (1 .. m) -> S] : G(m, f)
    BY <1>2
  <2> DEFINE h(A) == IF m + 1 \in A THEN step[<<f[A \ {m + 1}], m + 1>>] ELSE f[A]
             g == [A \in SUBSET (1 .. m + 1) |-> h(A)]
  <2>2. ASSUME NEW A \in SUBSET (1 .. m + 1)
        PROVE  /\ m + 1 \in A => A \ {m + 1} \in SUBSET (1 .. m)
               /\ m + 1 \notin A => A \in SUBSET (1 .. m)
    <3>1. \A i \in A : i # m + 1 => i \in 1 .. m
      OBVIOUS
    <3> QED BY <3>1
  <2>3. ASSUME NEW A \in SUBSET (1 .. m + 1) PROVE h(A) \in S
    <3>1. CASE m + 1 \in A
      <4>1. f[A \ {m + 1}] \in S /\ m + 1 \in 1 .. n
        BY <2>2, <3>1
      <4> QED BY <3>1, <4>1
    <3>2. CASE m + 1 \notin A
      BY <2>2, <3>2
    <3> QED BY <3>1, <3>2
  <2>4. g \in [SUBSET (1 .. m + 1) -> S]
    <3> HIDE DEF h
    <3> QED BY <2>3
  <2>5. ASSUME NEW A \in SUBSET (1 .. m) PROVE g[A] = f[A]
    <3>1. m + 1 \notin A /\ A \in SUBSET (1 .. m + 1)
      OBVIOUS
    <3> QED BY <3>1
  <2>6. ASSUME NEW A \in SUBSET (1 .. m + 1)
        PROVE  g[A] = IF A = {} THEN base ELSE step[<<g[A \ {Max(A)}], Max(A)>>]
    <3>1. CASE m + 1 \in A
      <4>1. g[A] = step[<<f[A \ {m + 1}], m + 1>>]
        BY <3>1
      <4>2. A # {} /\ Max(A) \in 1 .. m + 1 /\ m + 1 <= Max(A)
        BY <3>1, Before
      <4>3. Max(A) = m + 1
        <5> DEFINE x == Max(A)
        <5>1. x \in 1 .. m + 1 /\ m + 1 <= x
          BY <4>2
        <5> HIDE DEF x
        <5>2. x = m + 1
          BY <5>1
        <5> QED BY <5>2 DEF x
      <4>4. g[A \ {m + 1}] = f[A \ {m + 1}]
        <5> HIDE DEF g
        <5> QED BY <2>2, <2>5, <3>1
      <4> HIDE DEF g
      <4> QED BY <4>1, <4>2, <4>3, <4>4
    <3>2. CASE m + 1 \notin A
      <4>1. A \in SUBSET (1 .. m)
        BY <2>2, <3>2
      <4>2. g[A] = f[A]
        <5> HIDE DEF g
        <5> QED BY <2>5, <4>1
      <4>3. f[A] = IF A = {} THEN base ELSE step[<<f[A \ {Max(A)}], Max(A)>>]
        BY <2>1, <4>1
      <4>4. A \ {Max(A)} \in SUBSET (1 .. m)
        BY <4>1
      <4>5. g[A \ {Max(A)}] = f[A \ {Max(A)}]
        <5> HIDE DEF g
        <5> QED BY <2>5, <4>4
      <4> HIDE DEF g
      <4> QED BY <4>2, <4>3, <4>5
    <3> QED BY <3>1, <3>2
  <2>7. G(m + 1, g)
    <3> HIDE DEF g
    <3> QED BY <2>6
  <2>8. m + 1 \in 0 .. n
    OBVIOUS
  <2> HIDE DEF g, G
  <2> QED BY <2>4, <2>7, <2>8
<1>3. n \in T
  <2>1. \A m \in 0 .. n - 1 : m \in T => m + 1 \in T
    <3> HIDE DEF T
    <3> QED BY <1>2
  <2>2. 0 \in Nat /\ n \in 0 .. n
    OBVIOUS
  <2> HIDE DEF T
  <2>3. \A m \in 0 .. n : m \in T
    BY <1>1, <2>1, <2>2, Climb
  <2> QED BY <2>2, <2>3
<1>4. PICK g \in [SUBSET (1 .. n) -> S] : G(n, g)
  BY <1>3
<1>5. Iterates(g, n, base, step)
  <2> DEFINE e(A) == IF A = {} THEN base ELSE step[<<g[A \ {Max(A)}], Max(A)>>]
  <2>1. \A A \in SUBSET (1 .. n) : g[A] = e(A)
    BY <1>4
  <2> HIDE DEF e
  <2>2. g = [A \in SUBSET (1 .. n) |-> e(A)]
    BY <2>1
  <2> QED BY <2>2, Zenon DEF Iterates, e
<1> QED BY <1>5

-----------------------------------------------------------------------------
(* Segments, packets and their sizes                                       *)

\* What a message is made of: the byte and its place.
Bytes == Nat \X Nat

\* What a segment can carry.
Chunk == {d \in Seq(Bytes) : Len(d) <= Mss}

\* Each message has its place in the receive queue.
MessagesFit == \A e \in Ends : \A i \in 1 .. Len(Lengths[e]) :
                   (Lengths[e][i] + Mss - 1) \div Mss <= RcvWnd

\* The fragments that may follow; fewer than the receive window if messages fit.
Frgs == {f \in Nat : MessagesFit => f < RcvWnd}

\* A segment in snd_queue.
Queued == [frg : Frgs, data : Chunk]

\* A segment in rcv_buf or rcv_queue.
Kept == [sn : SeqNums, frg : Frgs, data : Chunk]

\* A segment in snd_buf.
Held == [sn : SeqNums, frg : Frgs, data : Chunk, xmit : Nat, fastack : Nat, dups : Nat]

\* A segment on its way.
Segs == [cmd : {"PUSH", "DUPS", "ACK", "WASK", "WINS"}, frg : Frgs, wnd : Nat,
         sn : SeqNums, una : SeqNums, data : Chunk]

\* Packets of segments of S.
Small(S) == {p \in Seq(S) : Size(p) <= Mtu}

\* What the assumptions say of the constants.
LEMMA Sizes ==
    /\ Mss \in Nat \ {0} /\ Overhead \in Nat \ {0} /\ Mtu \in Nat /\ Mtu = Overhead + Mss
    /\ SndWnd \in Nat \ {0} /\ RcvWnd \in Nat \ {0} /\ WndSnd \in Nat /\ WndRcv \in Nat
    /\ ThreshMin \in Nat \ {0}
    /\ FastResend \in Nat /\ DeadLink \in Nat /\ DupCount \in Nat
    /\ Half \in Nat \ {0} /\ Word \in Nat /\ Word >= 4 * Half /\ SeqNums = 0 .. Word - 1
BY SizeAssumption, WindowAssumption, CountAssumption, HalfAssumption, WordAssumption DEF Mss, SeqNums

\* The values of a fold stay in a set that each step stays in.
LEMMA FoldIn ==
    ASSUME NEW n \in Nat, NEW T, NEW h, h[{}] \in T,
           \A i \in 1 .. n : h[1 .. (i - 1)] \in T => h[1 .. i] \in T
    PROVE  \A i \in 0 .. n : h[1 .. i] \in T
<1> DEFINE U == {i \in 0 .. n : h[1 .. i] \in T}
<1>1. 0 \in U
  <2>1. 1 .. 0 = {} /\ 0 \in 0 .. n
    OBVIOUS
  <2> QED BY <2>1
<1>2. ASSUME NEW i \in 0 .. n - 1, i \in U PROVE i + 1 \in U
  <2>1. i + 1 \in 1 .. n /\ (i + 1) - 1 = i /\ i + 1 \in 0 .. n
    OBVIOUS
  <2>2. h[1 .. ((i + 1) - 1)] \in T
    BY <1>2, <2>1
  <2> QED BY <2>1, <2>2
<1> HIDE DEF U
<1>3. \A i \in 0 .. n : i \in U
  BY <1>1, <1>2, Climb
<1> QED BY <1>3 DEF U

\* The size of a packet, segment by segment.
SizesOf(f, p) ==
    /\ f \in [0 .. Len(p) -> Int] /\ f[0] = 0
    /\ \A i \in 1 .. Len(p) : f[i] = f[i - 1] + Overhead + Len(p[i].data)

\* The size of a packet is the sum of such a function.
LEMMA SizeIs ==
    ASSUME NEW S \in SUBSET Segs, NEW p \in Seq(S)
    PROVE  \E f : SizesOf(f, p) /\ Size(p) = f[Len(p)]
<1> DEFINE n == Len(p)
           T == Int
           zero == 0
           op(x, seg) == x + Overhead + Len(seg.data)
           e(g, A) == IF A = {} THEN zero ELSE op(g[A \ {Max(A)}], p[Max(A)])
           step == [x \in T \X (1 .. n) |-> op(x[1], p[x[2]])]
           h == CHOOSE g : g = [A \in SUBSET (DOMAIN p) |-> e(g, A)]
<1>1. n \in Nat /\ DOMAIN p = 1 .. n /\ \A i \in 1 .. n : p[i] \in Segs
  OBVIOUS
<1>2. ASSUME NEW x \in T, NEW i \in 1 .. n PROVE op(x, p[i]) \in T
  <2>1. Len(p[i].data) \in Nat
    BY <1>1 DEF Segs, Chunk
  <2> QED BY <2>1, Sizes
<1>0. zero \in T
  OBVIOUS
<1> HIDE DEF n, T, zero
<1>3. step \in [T \X (1 .. n) -> T]
  <2> HIDE DEF op
  <2> QED BY <1>2
<1>4. PICK g \in [SUBSET (1 .. n) -> T] : Iterates(g, n, zero, step)
  <2> HIDE DEF step
  <2> QED BY <1>0, <1>1, <1>3, IteratesExist
<1>5. ASSUME NEW A \in SUBSET (1 .. n), A # {}
      PROVE  step[<<g[A \ {Max(A)}], Max(A)>>] = op(g[A \ {Max(A)}], p[Max(A)])
  <2>1. Max(A) \in 1 .. n /\ A \ {Max(A)} \in SUBSET (1 .. n)
    BY <1>1, <1>5, Before
  <2> HIDE DEF op
  <2> QED BY <2>1
<1>6. g = [A \in SUBSET (DOMAIN p) |-> e(g, A)]
  <2>1. \A A \in SUBSET (1 .. n) : A # {} =>
            step[<<g[A \ {Max(A)}], Max(A)>>] = op(g[A \ {Max(A)}], p[Max(A)])
    BY <1>5
  <2> HIDE DEF step, op
  <2> QED BY <1>1, <1>4, <2>1 DEF Iterates
<1>7. h = [A \in SUBSET (DOMAIN p) |-> e(h, A)]
  <2> HIDE DEF e
  <2> QED BY <1>6, Zenon
<1>8. Size(p) = h[DOMAIN p]
  BY Zenon DEF zero, Size, FoldLeft, MapThenFoldSet
<1> HIDE DEF h, e
<1>9. \A A \in SUBSET (1 .. n) : h[A] = e(h, A)
  <2>1. SUBSET (DOMAIN p) = SUBSET (1 .. n)
    BY <1>1
  <2> QED BY <1>7, <2>1
<1>10. h[{}] = zero
  <2>1. {} \in SUBSET (1 .. n)
    OBVIOUS
  <2> QED BY <1>9, <2>1 DEF e
<1>11. ASSUME NEW i \in 1 .. n PROVE h[1 .. i] = op(h[1 .. (i - 1)], p[i])
  <2>1. 1 .. i \in SUBSET (1 .. n) /\ i \in Nat /\ i > 0
    BY <1>1
  <2>2. Max(1 .. i) = i /\ (1 .. i) \ {i} = 1 .. (i - 1) /\ 1 .. i # {}
    BY <2>1, UpTo
  <2> HIDE DEF op
  <2> QED BY <1>9, <2>1, <2>2 DEF e
<1>12. \A i \in 0 .. n : h[1 .. i] \in T
  <2>1. \A i \in 1 .. n : h[1 .. (i - 1)] \in T => h[1 .. i] \in T
    <3> HIDE DEF op
    <3> QED BY <1>2, <1>11
  <2> QED BY <1>0, <1>1, <1>10, <2>1, FoldIn
<1> DEFINE f == [i \in 0 .. n |-> h[1 .. i]]
<1>13. f \in [0 .. n -> T] /\ f[0] = zero /\ f[n] = h[1 .. n]
  <2>1. 1 .. 0 = {} /\ 0 \in 0 .. n /\ n \in 0 .. n
    BY <1>1
  <2> QED BY <1>10, <1>12, <2>1
<1>14. \A i \in 1 .. n : f[i] = op(f[i - 1], p[i])
  <2> TAKE i \in 1 .. n
  <2>1. i \in 0 .. n /\ i - 1 \in 0 .. n
    BY <1>1
  <2> HIDE DEF op
  <2> QED BY <1>11, <2>1
<1> HIDE DEF f
<1> QED BY <1>1, <1>8, <1>13, <1>14 DEF SizesOf, n, T, zero

\* The size of a packet with one segment more.
LEMMA SizeFact ==
    ASSUME NEW S \in SUBSET Segs, NEW p \in Seq(S), NEW seg \in S
    PROVE  /\ Size(p) \in Int /\ Size(<<>>) = 0
           /\ Size(Append(p, seg)) = Size(p) + Overhead + Len(seg.data)
           /\ Size(<<seg>>) = Overhead + Len(seg.data)
<1>1. ASSUME NEW q \in Seq(S)
      PROVE  Size(q) \in Int /\ Size(Append(q, seg)) = Size(q) + Overhead + Len(seg.data)
  <2> DEFINE r == Append(q, seg)
             n == Len(q)
  <2>1. r \in Seq(S) /\ Len(r) = n + 1 /\ r[n + 1] = seg /\ n \in Nat /\ \A i \in 1 .. n : r[i] = q[i]
    OBVIOUS
  <2>2. PICK f : SizesOf(f, q) /\ Size(q) = f[n]
    BY SizeIs
  <2> HIDE DEF r
  <2>3. PICK g : SizesOf(g, r) /\ Size(r) = g[n + 1]
    BY <2>1, SizeIs
  <2> HIDE DEF n
  <2>4. \A i \in 0 .. n : g[i] = f[i]
    <3> DEFINE U == {i \in 0 .. n : g[i] = f[i]}
    <3>1. 0 \in U
      BY <2>1, <2>2, <2>3 DEF SizesOf, n
    <3>2. ASSUME NEW i \in 0 .. n - 1, i \in U PROVE i + 1 \in U
      <4>1. i + 1 \in 1 .. n /\ i + 1 \in 0 .. n /\ i + 1 \in 1 .. n + 1 /\ (i + 1) - 1 = i
        BY <2>1
      <4>2. f[i + 1] = f[i] + Overhead + Len(q[i + 1].data)
        BY <2>2, <4>1 DEF SizesOf, n
      <4>3. g[i + 1] = g[i] + Overhead + Len(r[i + 1].data)
        BY <2>1, <2>3, <4>1 DEF SizesOf
      <4>4. r[i + 1] = q[i + 1]
        BY <2>1, <4>1
      <4> QED BY <3>2, <4>1, <4>2, <4>3, <4>4
    <3> HIDE DEF U
    <3>3. \A i \in 0 .. n : i \in U
      BY <2>1, <3>1, <3>2, Climb
    <3> QED BY <3>3 DEF U
  <2>5. n + 1 \in 1 .. n + 1 /\ (n + 1) - 1 = n /\ n \in 0 .. n
    BY <2>1
  <2>6. g[n + 1] = g[n] + Overhead + Len(seg.data)
    BY <2>1, <2>3, <2>5 DEF SizesOf
  <2>7. f[n] \in Int
    BY <2>2, <2>5 DEF SizesOf, n
  <2> QED BY <2>2, <2>3, <2>4, <2>5, <2>6, <2>7 DEF r
<1>2. <<>> \in Seq(S) /\ Append(<<>>, seg) = <<seg>> /\ Len(<<>>) = 0
  OBVIOUS
<1>3. Size(<<>>) = 0
  <2>1. PICK f : SizesOf(f, <<>>) /\ Size(<<>>) = f[Len(<<>>)]
    BY <1>2, SizeIs
  <2> QED BY <1>2, <2>1 DEF SizesOf
<1>4. Len(seg.data) \in Nat
  BY DEF Segs, Chunk
<1>5. Size(<<seg>>) = 0 + Overhead + Len(seg.data)
  BY <1>1, <1>2, <1>3
<1> QED BY <1>1, <1>3, <1>4, <1>5, Sizes

\* A packet is closed before it would become too large.
LEMMA AddFact ==
    ASSUME NEW S \in SUBSET Segs, NEW ps \in Seq(Small(S)), NEW seg \in S
    PROVE  AddToPackets(ps, seg) \in Seq(Small(S))
<1>1. Size(<<seg>>) = Overhead + Len(seg.data) /\ Len(seg.data) \in Nat /\ Len(seg.data) <= Mss
  <2>1. <<>> \in Seq(S)
    OBVIOUS
  <2>2. Size(<<seg>>) = Overhead + Len(seg.data)
    BY <2>1, SizeFact
  <2>3. seg \in Segs
    OBVIOUS
  <2>4. seg.data \in Chunk
    BY <2>3 DEF Segs
  <2> QED BY <2>2, <2>4 DEF Chunk
<1>2. <<seg>> \in Small(S)
  BY <1>1, Sizes DEF Small
<1>3. CASE ps # <<>> /\ Size(Last(ps)) + Overhead + Len(seg.data) <= Mtu
  <2>0. Len(ps) \in Nat \ {0}
    BY <1>3
  <2> DEFINE n == Len(ps)
  <2>1. Last(ps) \in Small(S) /\ Front(ps) \in Seq(Small(S))
    <3>1. ps[n] \in Small(S)
      BY <2>0
    <3>2. SubSeq(ps, 1, n - 1) \in Seq(Small(S))
      <4>1. n - 1 \in 0 .. Len(ps)
        BY <2>0
      <4> QED BY <4>1, CutFact
    <3> QED BY <3>1, <3>2 DEF Last, Front
  <2>2. Last(ps) \in Seq(S)
    BY <2>1 DEF Small
  <2> DEFINE l == Last(ps)
             p == Append(l, seg)
  <2>3. p \in Seq(S) /\ Size(p) = Size(l) + Overhead + Len(seg.data)
    <3> HIDE DEF l
    <3>1. l \in Seq(S)
      BY <2>2 DEF l
    <3>2. Size(Append(l, seg)) = Size(l) + Overhead + Len(seg.data)
      BY <3>1, SizeFact
    <3>3. Append(l, seg) \in Seq(S)
      BY <3>1
    <3> QED BY <3>2, <3>3
  <2>4. p \in Small(S)
    BY <1>3, <2>3 DEF Small
  <2>5. AddToPackets(ps, seg) = Append(Front(ps), p)
    BY <1>3 DEF AddToPackets
  <2> HIDE DEF p
  <2> QED BY <2>1, <2>4, <2>5
<1>4. CASE ~ (ps # <<>> /\ Size(Last(ps)) + Overhead + Len(seg.data) <= Mtu)
  <2>1. AddToPackets(ps, seg) = Append(ps, <<seg>>)
    BY <1>4 DEF AddToPackets
  <2> QED BY <1>2, <2>1
<1> QED BY <1>3, <1>4

\* Packets hold the segments they are made of, and are no larger than they may be.
LEMMA PacketsFact ==
    ASSUME NEW S \in SUBSET Segs, NEW segs \in Seq(S)
    PROVE  Packets(segs) \in Seq(Small(S))
<1> DEFINE n == Len(segs)
           T == Seq(Small(S))
           base == <<>>
           op(x, y) == AddToPackets(x, y)
           e(g, A) == IF A = {} THEN base ELSE op(g[A \ {Max(A)}], segs[Max(A)])
           step == [x \in T \X (1 .. n) |-> op(x[1], segs[x[2]])]
           h == CHOOSE g : g = [A \in SUBSET (DOMAIN segs) |-> e(g, A)]
<1>0. base \in T
  OBVIOUS
<1>1. n \in Nat /\ DOMAIN segs = 1 .. n
  OBVIOUS
<1>2. ASSUME NEW x \in T, NEW i \in 1 .. n PROVE op(x, segs[i]) \in T
  <2>1. segs[i] \in S
    OBVIOUS
  <2> QED BY <2>1, AddFact
<1>3. Packets(segs) = h[DOMAIN segs]
  BY Zenon DEF Packets, FoldLeft, MapThenFoldSet
<1> HIDE DEF n, T, base, op
<1>4. step \in [T \X (1 .. n) -> T]
  BY <1>2
<1>5. PICK g \in [SUBSET (1 .. n) -> T] : Iterates(g, n, base, step)
  <2> HIDE DEF step
  <2> QED BY <1>0, <1>1, <1>4, IteratesExist
<1>6. ASSUME NEW A \in SUBSET (1 .. n), A # {}
      PROVE  step[<<g[A \ {Max(A)}], Max(A)>>] = op(g[A \ {Max(A)}], segs[Max(A)])
  <2>1. Max(A) \in 1 .. n /\ A \ {Max(A)} \in SUBSET (1 .. n)
    BY <1>1, <1>6, Before
  <2> QED BY <2>1
<1>7. g = [A \in SUBSET (DOMAIN segs) |-> e(g, A)]
  <2>1. \A A \in SUBSET (1 .. n) : A # {} =>
            step[<<g[A \ {Max(A)}], Max(A)>>] = op(g[A \ {Max(A)}], segs[Max(A)])
    BY <1>6
  <2> HIDE DEF step
  <2> QED BY <1>1, <1>5, <2>1 DEF Iterates
<1>8. h = [A \in SUBSET (DOMAIN segs) |-> e(h, A)]
  <2> HIDE DEF e
  <2> QED BY <1>7, Zenon
<1> HIDE DEF h
<1>9. \A A \in SUBSET (1 .. n) : h[A] = e(h, A)
  <2>1. SUBSET (DOMAIN segs) = SUBSET (1 .. n)
    BY <1>1
  <2> HIDE DEF e
  <2> QED BY <1>8, <2>1
<1>10. h[{}] = base
  <2>1. {} \in SUBSET (1 .. n)
    OBVIOUS
  <2> QED BY <1>9, <2>1
<1>11. ASSUME NEW i \in 1 .. n PROVE h[1 .. i] = op(h[1 .. (i - 1)], segs[i])
  <2>1. 1 .. i \in SUBSET (1 .. n) /\ i \in Nat /\ i > 0
    BY <1>1
  <2>2. Max(1 .. i) = i /\ (1 .. i) \ {i} = 1 .. (i - 1) /\ 1 .. i # {}
    BY <2>1, UpTo
  <2> QED BY <1>9, <2>1, <2>2
<1>12. h[1 .. n] \in T
  <2>1. \A i \in 1 .. n : h[1 .. (i - 1)] \in T => h[1 .. i] \in T
    BY <1>2, <1>11
  <2>2. n \in 0 .. n
    BY <1>1
  <2> QED BY <1>0, <1>1, <1>10, <2>1, <2>2, FoldIn
<1> QED BY <1>1, <1>3, <1>12 DEF T

\* What send_ex adds are duplicates of the segments it is given.
LEMMA DuplicatesFact ==
    ASSUME NEW k, NEW S \in SUBSET Segs, NEW packets \in Seq(Small(S)), NEW older \in Seq(Held),
           \A i \in 1 .. Len(older) : Data(k, "DUPS", older[i]) \in S
    PROVE  /\ WithDuplicates(k, packets, older).packets \in Seq(Small(S))
           /\ WithDuplicates(k, packets, older).count \in Nat
<1> DEFINE n == Len(older)
           T == [packets : Seq(Small(S)), count : Nat, full : BOOLEAN]
           base == [packets |-> packets, count |-> 0, full |-> FALSE]
           op(x, y) == IF /\ ~x.full /\ x.count < DupCount
                          /\ Size(Last(x.packets)) + Overhead + Len(y.data) <= Mtu
                       THEN [x EXCEPT !.packets = AddToPackets(@, Data(k, "DUPS", y)), !.count = @ + 1]
                       ELSE [x EXCEPT !.full = TRUE]
           e(g, A) == IF A = {} THEN base ELSE op(g[A \ {Max(A)}], Reverse(older)[Max(A)])
           step == [x \in T \X (1 .. n) |-> op(x[1], Reverse(older)[x[2]])]
           h == CHOOSE g : g = [A \in SUBSET (DOMAIN Reverse(older)) |-> e(g, A)]
<1>0. base \in T
  OBVIOUS
<1>1. n \in Nat /\ DOMAIN Reverse(older) = 1 .. n
  BY DEF Reverse
<1>2. ASSUME NEW x \in T, NEW i \in 1 .. n PROVE op(x, Reverse(older)[i]) \in T
  <2>1. Data(k, "DUPS", Reverse(older)[i]) \in S
    <3>1. Reverse(older)[i] = older[(n - i) + 1] /\ (n - i) + 1 \in 1 .. n
      BY DEF Reverse
    <3> QED BY <3>1
  <2>2. x.packets \in Seq(Small(S)) /\ x.count \in Nat
    OBVIOUS
  <2>3. AddToPackets(x.packets, Data(k, "DUPS", Reverse(older)[i])) \in Seq(Small(S))
    BY <2>1, <2>2, AddFact
  <2> DEFINE a == AddToPackets(x.packets, Data(k, "DUPS", Reverse(older)[i]))
  <2>4. [x EXCEPT !.packets = a, !.count = @ + 1] \in T
    <3>1. a \in Seq(Small(S))
      BY <2>3
    <3> DEFINE b == x.count + 1
    <3>2. b \in Nat
      BY <2>2
    <3> HIDE DEF a, b
    <3>3. [x EXCEPT !.packets = a, !.count = b] \in T
      BY <3>1, <3>2
    <3> QED BY <3>3, Zenon DEF b
  <2>5. [x EXCEPT !.full = TRUE] \in T
    OBVIOUS
  <2> QED BY <2>4, <2>5, Zenon
<1>3. WithDuplicates(k, packets, older) = h[DOMAIN Reverse(older)]
  BY Zenon DEF WithDuplicates, FoldLeft, MapThenFoldSet
<1> HIDE DEF n, T, base, op
<1>4. step \in [T \X (1 .. n) -> T]
  BY <1>2
<1>5. PICK g \in [SUBSET (1 .. n) -> T] : Iterates(g, n, base, step)
  <2> HIDE DEF step
  <2> QED BY <1>0, <1>1, <1>4, IteratesExist
<1>6. ASSUME NEW A \in SUBSET (1 .. n), A # {}
      PROVE  step[<<g[A \ {Max(A)}], Max(A)>>] = op(g[A \ {Max(A)}], Reverse(older)[Max(A)])
  <2>1. Max(A) \in 1 .. n /\ A \ {Max(A)} \in SUBSET (1 .. n)
    BY <1>1, <1>6, Before
  <2> QED BY <2>1
<1>7. g = [A \in SUBSET (DOMAIN Reverse(older)) |-> e(g, A)]
  <2>1. \A A \in SUBSET (1 .. n) : A # {} =>
            step[<<g[A \ {Max(A)}], Max(A)>>] = op(g[A \ {Max(A)}], Reverse(older)[Max(A)])
    BY <1>6
  <2> HIDE DEF step
  <2> QED BY <1>1, <1>5, <2>1 DEF Iterates
<1>8. h = [A \in SUBSET (DOMAIN Reverse(older)) |-> e(h, A)]
  <2> HIDE DEF e
  <2> QED BY <1>7, Zenon
<1> HIDE DEF h
<1>9. \A A \in SUBSET (1 .. n) : h[A] = e(h, A)
  <2>1. SUBSET (DOMAIN Reverse(older)) = SUBSET (1 .. n)
    BY <1>1
  <2> HIDE DEF e
  <2> QED BY <1>8, <2>1
<1>10. h[{}] = base
  <2>1. {} \in SUBSET (1 .. n)
    OBVIOUS
  <2> QED BY <1>9, <2>1
<1>11. ASSUME NEW i \in 1 .. n PROVE h[1 .. i] = op(h[1 .. (i - 1)], Reverse(older)[i])
  <2>1. 1 .. i \in SUBSET (1 .. n) /\ i \in Nat /\ i > 0
    BY <1>1
  <2>2. Max(1 .. i) = i /\ (1 .. i) \ {i} = 1 .. (i - 1) /\ 1 .. i # {}
    BY <2>1, UpTo
  <2> QED BY <1>9, <2>1, <2>2
<1>12. h[1 .. n] \in T
  <2>1. \A i \in 1 .. n : h[1 .. (i - 1)] \in T => h[1 .. i] \in T
    BY <1>2, <1>11
  <2>2. n \in 0 .. n
    BY <1>1
  <2> QED BY <1>0, <1>1, <1>10, <2>1, <2>2, FoldIn
<1> QED BY <1>1, <1>3, <1>12 DEF T

-----------------------------------------------------------------------------
(* What the windows keep                                                   *)

\* The control blocks.
Blocks == [snd_una : SeqNums, snd_nxt : SeqNums, rcv_nxt : SeqNums,
           snd_queue : Seq(Queued), snd_buf : Seq(Held),
           rcv_buf : Seq(Kept), rcv_queue : Seq(Kept), acklist : Seq(SeqNums),
           rmt_wnd : Nat, cwnd : Nat, incr : Nat, ssthresh : Nat,
           probe : SUBSET {"SEND", "TELL"}, probing : BOOLEAN, dead : BOOLEAN]

\* The numbers in flight: in order, behind snd_nxt, and snd_una the least or before it.
SendSide(nxt, una, buf) ==
    /\ Gap(nxt, una) <= SndWnd
    /\ \A i \in 1 .. Len(buf) : 0 < Gap(nxt, buf[i].sn) /\ Gap(nxt, buf[i].sn) <= Gap(nxt, una)
    /\ \A i, j \in 1 .. Len(buf) : i < j => Gap(nxt, buf[j].sn) < Gap(nxt, buf[i].sn)

\* The numbers received early: in order, and in the window that starts at rcv_nxt.
RecvSide(nxt, buf) ==
    /\ \A i \in 1 .. Len(buf) : Gap(buf[i].sn, nxt) < RcvWnd
    /\ \A i, j \in 1 .. Len(buf) : i < j => Gap(buf[i].sn, nxt) < Gap(buf[j].sn, nxt)

\* What a control block keeps whatever it is sent.
Fine(k) ==
    /\ k \in Blocks
    /\ SendSide(k.snd_nxt, k.snd_una, k.snd_buf)
    /\ RecvSide(k.rcv_nxt, k.rcv_buf)
    /\ Len(k.rcv_queue) <= RcvWnd

\* _itimediff tells before from after within a window.
Signed == 2 * SndWnd < Word /\ 2 * RcvWnd < Word

\* A buffer holds number x.
Has(buf, x) == \E i \in 1 .. Len(buf) : buf[i].sn = x

\* The receiver has x, if the sender is about to use nxt: it is passed, or kept.
Got(nxt, k, x) == Gap(nxt, x) > Gap(nxt, k.rcv_nxt) \/ Has(k.rcv_buf, x)

\* The receiver keeps nothing that was not sent.
Below(nxt, k) == \A i \in 1 .. Len(k.rcv_buf) : Gap(k.rcv_buf[i].sn, k.rcv_nxt) < Gap(nxt, k.rcv_nxt)

\* What the receiver has it does not lose.
Keeps(nxt, k, k2) ==
    /\ Below(nxt, k2)
    /\ Gap(nxt, k2.rcv_nxt) <= Gap(nxt, k.rcv_nxt)
    /\ \A x \in SeqNums : Got(nxt, k, x) => Got(nxt, k2, x)

\* Nothing of the sender's has changed.
SameSender(k, k2) ==
    /\ k2.snd_una = k.snd_una /\ k2.snd_nxt = k.snd_nxt
    /\ k2.snd_queue = k.snd_queue /\ k2.snd_buf = k.snd_buf

\* Distances are numbers.
LEMMA GapNat ==
    ASSUME NEW x \in SeqNums, NEW y \in SeqNums
    PROVE  Gap(x, y) \in Nat /\ Gap(x, y) < Word
<1>1. Gap(x, y) \in 0 .. Word - 1
  BY GapIs, Sizes
<1> QED BY <1>1, Sizes

\* Steps that lose nothing.
LEMMA KeepsTrans ==
    ASSUME NEW nxt, NEW k, NEW k2, NEW k3, k \in Blocks, k2 \in Blocks, k3 \in Blocks, nxt \in SeqNums,
           Keeps(nxt, k, k2), Keeps(nxt, k2, k3)
    PROVE  Keeps(nxt, k, k3)
<1>1. Gap(nxt, k.rcv_nxt) \in Int /\ Gap(nxt, k2.rcv_nxt) \in Int /\ Gap(nxt, k3.rcv_nxt) \in Int
  <2>1. k.rcv_nxt \in SeqNums /\ k2.rcv_nxt \in SeqNums /\ k3.rcv_nxt \in SeqNums
    BY DEF Blocks
  <2> QED BY <2>1, GapNat
<1> QED BY <1>1 DEF Keeps

\* A change of the rest of a block.
LEMMA KeepsSame ==
    ASSUME NEW nxt, NEW k, NEW k2, k \in Blocks, k2 \in Blocks, nxt \in SeqNums, Below(nxt, k),
           k2.rcv_nxt = k.rcv_nxt, k2.rcv_buf = k.rcv_buf
    PROVE  Keeps(nxt, k, k2)
<1>1. k.rcv_nxt \in SeqNums
  BY DEF Blocks
<1>2. Gap(nxt, k.rcv_nxt) \in Int
  BY <1>1, GapNat
<1>3. Below(nxt, k2)
  BY DEF Below
<1>4. \A x \in SeqNums : Got(nxt, k, x) => Got(nxt, k2, x)
  BY DEF Got
<1> QED BY <1>2, <1>3, <1>4 DEF Keeps

\* The i-th of a reorder buffer is at least i - 1 places ahead.
LEMMA PlacesClimb ==
    ASSUME NEW rcv_nxt \in SeqNums, NEW buf \in Seq(Kept), RecvSide(rcv_nxt, buf)
    PROVE  /\ \A i \in 1 .. Len(buf) : i - 1 <= Gap(buf[i].sn, rcv_nxt)
           /\ Len(buf) <= RcvWnd
<1>0. /\ RcvWnd \in Nat /\ Word \in Nat /\ Len(buf) \in Nat /\ SeqNums = 0 .. Word - 1
  BY Sizes
<1>1. \A i \in 1 .. Len(buf) : buf[i].sn \in SeqNums /\ Gap(buf[i].sn, rcv_nxt) \in SeqNums
  <2> TAKE i \in 1 .. Len(buf)
  <2>1. buf[i] \in Kept
    OBVIOUS
  <2>2. buf[i].sn \in SeqNums
    BY <2>1 DEF Kept
  <2> QED BY <2>2, GapIs
<1>3. \A i \in 1 .. Len(buf) : i - 1 <= Gap(buf[i].sn, rcv_nxt)
  <2> DEFINE U == {i \in 1 .. Len(buf) : i - 1 <= Gap(buf[i].sn, rcv_nxt)}
  <2>1. CASE Len(buf) = 0
    BY <2>1
  <2>2. CASE Len(buf) # 0
    <3>1. 1 \in U
      <4>1. 1 \in 1 .. Len(buf)
        BY <1>0, <2>2
      <4>2. Gap(buf[1].sn, rcv_nxt) \in 0 .. Word - 1
        BY <1>0, <1>1, <4>1
      <4> QED BY <4>1, <4>2
    <3>2. ASSUME NEW i \in 1 .. Len(buf) - 1, i \in U PROVE i + 1 \in U
      <4>1. i \in 1 .. Len(buf) /\ i + 1 \in 1 .. Len(buf) /\ i < i + 1
        OBVIOUS
      <4>2. Gap(buf[i].sn, rcv_nxt) < Gap(buf[i + 1].sn, rcv_nxt)
        BY <4>1 DEF RecvSide
      <4>3. Gap(buf[i].sn, rcv_nxt) \in Int /\ Gap(buf[i + 1].sn, rcv_nxt) \in Int
        BY <1>0, <1>1, <4>1
      <4> QED BY <3>2, <4>1, <4>2, <4>3
    <3> HIDE DEF U
    <3>3. \A i \in 1 .. Len(buf) : i \in U
      BY <1>0, <3>1, <3>2, Climb
    <3> QED BY <3>3 DEF U
  <2> QED BY <2>1, <2>2
<1>4. Len(buf) <= RcvWnd
  <2>1. CASE Len(buf) = 0
    BY <1>0, <2>1
  <2>2. CASE Len(buf) # 0
    <3> DEFINE l == Len(buf)
               g == Gap(buf[l].sn, rcv_nxt)
    <3>1. l \in 1 .. Len(buf)
      BY <1>0, <2>2
    <3>2. g \in Int /\ l - 1 <= g /\ g < RcvWnd
      BY <1>0, <1>1, <1>3, <3>1 DEF RecvSide
    <3>3. l \in Nat
      BY <1>0
    <3> HIDE DEF l, g
    <3>4. l <= RcvWnd
      BY <1>0, <3>2, <3>3
    <3> QED BY <3>4 DEF l
  <2> QED BY <2>1, <2>2
<1> QED BY <1>3, <1>4

\* The first n of a reorder buffer have their turn.
LEMMA TurnFact ==
    ASSUME Signed, NEW rcv_nxt \in SeqNums, NEW buf \in Seq(Kept), RecvSide(rcv_nxt, buf),
           NEW n \in 0 .. Len(buf), \A i \in 1 .. n : buf[i].sn = Plus(rcv_nxt, i - 1)
    PROVE  /\ n <= RcvWnd
           /\ \A i \in 1 .. n : Gap(buf[i].sn, rcv_nxt) = i - 1
           /\ \A i \in n + 1 .. Len(buf) : /\ n <= Gap(buf[i].sn, rcv_nxt)
                /\ Gap(buf[i].sn, Plus(rcv_nxt, n)) = Gap(buf[i].sn, rcv_nxt) - n
<1>0. /\ n \in Nat /\ RcvWnd \in Nat /\ 2 * RcvWnd < Word /\ Word \in Nat /\ Len(buf) \in Nat
      /\ SeqNums = 0 .. Word - 1
  BY Sizes DEF Signed
<1>1. \A i \in 1 .. Len(buf) : buf[i].sn \in SeqNums /\ Gap(buf[i].sn, rcv_nxt) \in SeqNums
  <2> TAKE i \in 1 .. Len(buf)
  <2>1. buf[i] \in Kept
    OBVIOUS
  <2>2. buf[i].sn \in SeqNums
    BY <2>1 DEF Kept
  <2> QED BY <2>2, GapIs
<1>2. \A i \in 1 .. Len(buf) : Gap(buf[i].sn, rcv_nxt) < RcvWnd
  BY DEF RecvSide
<1>3. \A i \in 1 .. Len(buf) : i - 1 <= Gap(buf[i].sn, rcv_nxt)
  BY PlacesClimb
<1>4. n <= RcvWnd
  <2>1. CASE n = 0
    BY <1>0, <2>1
  <2>2. CASE n # 0
    <3>1. n \in 1 .. Len(buf)
      BY <2>2
    <3>2. n - 1 <= Gap(buf[n].sn, rcv_nxt) /\ Gap(buf[n].sn, rcv_nxt) < RcvWnd
      BY <1>2, <1>3, <3>1
    <3>3. Gap(buf[n].sn, rcv_nxt) \in Int
      BY <1>0, <1>1, <3>1
    <3> QED BY <1>0, <3>2, <3>3
  <2> QED BY <2>1, <2>2
<1>5. \A i \in 1 .. n : Gap(buf[i].sn, rcv_nxt) = i - 1
  <2> TAKE i \in 1 .. n
  <2>1. i - 1 \in SeqNums
    BY <1>0, <1>4
  <2> QED BY <2>1, GapPlus
<1>6. ASSUME NEW i \in n + 1 .. Len(buf)
      PROVE  /\ n <= Gap(buf[i].sn, rcv_nxt)
             /\ Gap(buf[i].sn, Plus(rcv_nxt, n)) = Gap(buf[i].sn, rcv_nxt) - n
  <2>1. i \in 1 .. Len(buf) /\ n <= i - 1 /\ n \in SeqNums
    BY <1>0, <1>4
  <2>2. i - 1 <= Gap(buf[i].sn, rcv_nxt) /\ Gap(buf[i].sn, rcv_nxt) \in Int
    BY <1>0, <1>1, <1>3, <2>1
  <2>3. n <= Gap(buf[i].sn, rcv_nxt)
    BY <1>0, <2>1, <2>2
  <2> QED BY <1>1, <2>1, <2>3, GapPlus
<1> QED BY <1>4, <1>5, <1>6

-----------------------------------------------------------------------------
(* Taking in what is next, and receiving                                   *)

\* ikcp_parse_data and pvp_ikcp_recv: the move to rcv_queue.
LEMMA MoveReadyFact ==
    ASSUME Signed, NEW k, Fine(k)
    PROVE  /\ Fine(MoveReady(k)) /\ SameSender(k, MoveReady(k))
           /\ MoveReady(k).acklist = k.acklist
           /\ \A nxt \in SeqNums : Below(nxt, k) => Keeps(nxt, k, MoveReady(k))
<1> DEFINE T == {m \in 0 .. Len(k.rcv_buf) :
                    /\ Len(k.rcv_queue) + m <= RcvWnd \/ m = 0
                    /\ \A i \in 1 .. m : k.rcv_buf[i].sn = Plus(k.rcv_nxt, i - 1)}
           n == Max(T)
           queue == k.rcv_queue \o SubSeq(k.rcv_buf, 1, n)
           buf == SubSeq(k.rcv_buf, n + 1, Len(k.rcv_buf))
           turn == Plus(k.rcv_nxt, n)
           k2 == MoveReady(k)
<1>0. /\ k \in Blocks /\ k.rcv_nxt \in SeqNums /\ k.rcv_buf \in Seq(Kept) /\ k.rcv_queue \in Seq(Kept)
      /\ Len(k.rcv_buf) \in Nat /\ RecvSide(k.rcv_nxt, k.rcv_buf) /\ Len(k.rcv_queue) <= RcvWnd
  <2>1. k \in Blocks /\ RecvSide(k.rcv_nxt, k.rcv_buf) /\ Len(k.rcv_queue) <= RcvWnd
    BY DEF Fine
  <2>2. k.rcv_nxt \in SeqNums /\ k.rcv_buf \in Seq(Kept) /\ k.rcv_queue \in Seq(Kept)
    BY <2>1 DEF Blocks
  <2> QED BY <2>1, <2>2
<1>1. n \in T
  <2>1. 0 \in T /\ T \subseteq 0 .. Len(k.rcv_buf)
    BY <1>0
  <2> HIDE DEF T
  <2> QED BY <1>0, <2>1, MaxFact
<1>2. k2 = [k EXCEPT !.rcv_queue = queue, !.rcv_buf = buf, !.rcv_nxt = turn]
  BY DEF MoveReady
<1>3. /\ n \in 0 .. Len(k.rcv_buf) /\ (Len(k.rcv_queue) + n <= RcvWnd \/ n = 0)
      /\ \A i \in 1 .. n : k.rcv_buf[i].sn = Plus(k.rcv_nxt, i - 1)
  BY <1>1
<1> HIDE DEF T, n, k2
<1>4. /\ n <= RcvWnd
      /\ \A i \in 1 .. n : Gap(k.rcv_buf[i].sn, k.rcv_nxt) = i - 1
      /\ \A i \in n + 1 .. Len(k.rcv_buf) : /\ n <= Gap(k.rcv_buf[i].sn, k.rcv_nxt)
           /\ Gap(k.rcv_buf[i].sn, turn) = Gap(k.rcv_buf[i].sn, k.rcv_nxt) - n
  BY <1>0, <1>3, TurnFact
<1>5. n \in SeqNums /\ turn \in SeqNums
  <2>1. n \in SeqNums
    BY <1>3, <1>4, Sizes DEF Signed
  <2> QED BY <1>0, <2>1, PlusIs
<1>6. /\ SubSeq(k.rcv_buf, 1, n) \in Seq(Kept) /\ Len(SubSeq(k.rcv_buf, 1, n)) = n
      /\ buf \in Seq(Kept) /\ Len(buf) = Len(k.rcv_buf) - n
      /\ \A i \in 1 .. Len(k.rcv_buf) - n : buf[i] = k.rcv_buf[n + i]
  BY <1>0, <1>3, CutFact
<1>7. queue \in Seq(Kept) /\ Len(queue) = Len(k.rcv_queue) + n
  BY <1>0, <1>6, ConcatProperties
<1> HIDE DEF queue, buf, turn
<1>8. /\ k2 \in Blocks /\ k2.rcv_queue = queue /\ k2.rcv_buf = buf /\ k2.rcv_nxt = turn
      /\ SameSender(k, k2) /\ k2.acklist = k.acklist
  BY <1>0, <1>2, <1>5, <1>6, <1>7 DEF Blocks, SameSender
<1>9. ASSUME NEW i \in 1 .. Len(buf)
      PROVE  /\ n + i \in n + 1 .. Len(k.rcv_buf) /\ n + i \in 1 .. Len(k.rcv_buf) /\ buf[i] = k.rcv_buf[n + i]
             /\ buf[i].sn \in SeqNums /\ Gap(buf[i].sn, k.rcv_nxt) \in Nat
             /\ Gap(buf[i].sn, turn) = Gap(buf[i].sn, k.rcv_nxt) - n
  <2>1. n + i \in n + 1 .. Len(k.rcv_buf) /\ n + i \in 1 .. Len(k.rcv_buf) /\ buf[i] = k.rcv_buf[n + i]
    BY <1>0, <1>3, <1>6
  <2>2. buf[i] \in Kept
    BY <1>6
  <2>3. buf[i].sn \in SeqNums
    BY <2>2 DEF Kept
  <2>4. Gap(buf[i].sn, k.rcv_nxt) \in Nat
    BY <1>0, <2>3, GapNat
  <2> QED BY <1>4, <2>1, <2>3, <2>4
<1>10. Fine(k2)
  <2>1. RecvSide(turn, buf)
    <3>1. \A i \in 1 .. Len(buf) : Gap(buf[i].sn, turn) < RcvWnd
      <4> TAKE i \in 1 .. Len(buf)
      <4>1. Gap(k.rcv_buf[n + i].sn, k.rcv_nxt) < RcvWnd
        BY <1>0, <1>9 DEF RecvSide
      <4> QED BY <1>3, <1>9, <4>1, Sizes
    <3>2. ASSUME NEW i \in 1 .. Len(buf), NEW j \in 1 .. Len(buf), i < j
          PROVE  Gap(buf[i].sn, turn) < Gap(buf[j].sn, turn)
      <4>1. n + i < n + j
        BY <1>3, <3>2, <1>6
      <4>2. Gap(k.rcv_buf[n + i].sn, k.rcv_nxt) < Gap(k.rcv_buf[n + j].sn, k.rcv_nxt)
        BY <1>0, <1>9, <4>1 DEF RecvSide
      <4> DEFINE a == Gap(k.rcv_buf[n + i].sn, k.rcv_nxt)
                 b == Gap(k.rcv_buf[n + j].sn, k.rcv_nxt)
      <4>3. a \in Nat /\ Gap(buf[i].sn, turn) = a - n
        BY <1>9
      <4>4. b \in Nat /\ Gap(buf[j].sn, turn) = b - n
        BY <1>9
      <4>5. a < b /\ n \in Nat
        BY <1>3, <4>2
      <4> HIDE DEF a, b
      <4> QED BY <4>3, <4>4, <4>5
    <3> QED BY <3>1, <3>2 DEF RecvSide
  <2>2. Len(queue) <= RcvWnd
    BY <1>0, <1>3, <1>7
  <2>3. SendSide(k2.snd_nxt, k2.snd_una, k2.snd_buf)
    BY <1>8 DEF Fine, SameSender
  <2> QED BY <1>8, <2>1, <2>2, <2>3 DEF Fine
<1>11. ASSUME NEW nxt \in SeqNums, Below(nxt, k) PROVE Keeps(nxt, k, k2)
  <2> DEFINE L == Gap(nxt, k.rcv_nxt)
  <2>1. L \in Nat /\ L < Word
    BY <1>0, GapNat
  <2>2. n <= L
    <3>1. CASE n = 0
      BY <2>1, <3>1
    <3>2. CASE n # 0
      <4>1. n \in 1 .. n /\ n \in 1 .. Len(k.rcv_buf)
        BY <1>3, <3>2
      <4>2. Gap(k.rcv_buf[n].sn, k.rcv_nxt) < L
        BY <1>11, <4>1 DEF Below
      <4> QED BY <1>3, <1>4, <2>1, <4>1, <4>2
    <3> QED BY <3>1, <3>2
  <2>3. Gap(nxt, turn) = L - n
    BY <1>0, <1>5, <2>2, GapPlus DEF turn
  <2> HIDE DEF L
  <2>4. Below(nxt, k2)
    <3> SUFFICES ASSUME NEW i \in 1 .. Len(buf) PROVE Gap(buf[i].sn, turn) < Gap(nxt, turn)
      BY <1>8 DEF Below
    <3>1. Gap(k.rcv_buf[n + i].sn, k.rcv_nxt) < L
      BY <1>9, <1>11 DEF Below, L
    <3> QED BY <1>3, <1>9, <2>1, <2>3, <3>1
  <2>5. ASSUME NEW x \in SeqNums, Got(nxt, k, x) PROVE Got(nxt, k2, x)
    <3>1. CASE Gap(nxt, x) > L
      <4>1. Gap(nxt, x) \in Nat
        BY GapNat
      <4>2. Gap(nxt, x) > Gap(nxt, turn)
        BY <1>3, <2>1, <2>3, <3>1, <4>1
      <4> QED BY <1>8, <4>2 DEF Got
    <3>2. CASE \E i \in 1 .. Len(k.rcv_buf) : k.rcv_buf[i].sn = x
      <4>1. PICK i \in 1 .. Len(k.rcv_buf) : k.rcv_buf[i].sn = x
        BY <3>2
      <4>2. CASE i <= n
        <5>1. i \in 1 .. n
          BY <1>3, <4>2
        <5>2. Gap(x, k.rcv_nxt) = i - 1
          BY <1>4, <4>1, <5>1
        <5>3. Gap(nxt, x) = L - (i - 1)
          <6>1. Gap(x, k.rcv_nxt) <= Gap(nxt, k.rcv_nxt)
            BY <1>3, <2>1, <2>2, <5>1, <5>2 DEF L
          <6> QED BY <1>0, <5>2, <6>1, GapVia DEF L
        <5>4. Gap(nxt, x) > Gap(nxt, turn)
          BY <1>3, <2>1, <2>3, <5>1, <5>3
        <5> QED BY <1>8, <5>4 DEF Got
      <4>3. CASE ~ (i <= n)
        <5>1. i - n \in 1 .. Len(buf) /\ n + (i - n) = i
          BY <1>0, <1>3, <1>6, <4>3
        <5>2. buf[i - n].sn = x
          BY <1>6, <4>1, <5>1
        <5> QED BY <1>8, <5>1, <5>2 DEF Got, Has
      <4> QED BY <4>2, <4>3
    <3> QED BY <2>5, <3>1, <3>2 DEF Got, Has, L
  <2>6. Gap(nxt, k2.rcv_nxt) <= Gap(nxt, k.rcv_nxt)
    BY <1>3, <1>8, <2>1, <2>3 DEF L
  <2> QED BY <2>4, <2>5, <2>6 DEF Keeps
<1> QED BY <1>8, <1>10, <1>11 DEF k2

\* pvp_ikcp_peek_size: no more than there is; nothing only where fragments are missing.
LEMMA PeekFact ==
    ASSUME NEW k, k \in Blocks
    PROVE  /\ PeekCount(k) \in 0 .. Len(k.rcv_queue)
           /\ PeekCount(k) = 0 /\ k.rcv_queue # <<>> => Len(k.rcv_queue) <= Head(k.rcv_queue).frg
<1> DEFINE q == k.rcv_queue
           T == {i \in DOMAIN q : q[i].frg = 0} \cup {Len(q)}
<1>1. q \in Seq(Kept) /\ Len(q) \in Nat
  BY DEF Blocks
<1>2. CASE q = <<>> \/ Len(q) < Head(q).frg + 1
  <2>1. PeekCount(k) = 0
    BY <1>2 DEF PeekCount
  <2>2. q # <<>> => Len(q) <= Head(q).frg
    <3> SUFFICES ASSUME q # <<>> PROVE Len(q) <= Head(q).frg
      OBVIOUS
    <3>1. Head(q) \in Kept
      BY <1>1
    <3>2. Head(q).frg \in Nat
      BY <3>1 DEF Kept, Frgs
    <3> QED BY <1>1, <1>2, <3>2
  <2> QED BY <1>1, <2>1, <2>2
<1>3. CASE ~ (q = <<>> \/ Len(q) < Head(q).frg + 1)
  <2>1. PeekCount(k) = Min(T)
    BY <1>3 DEF PeekCount
  <2>2. T \subseteq 1 .. Len(q) /\ T # {} /\ T \subseteq Nat
    BY <1>1, <1>3
  <2> HIDE DEF T
  <2>3. Min(T) \in T
    BY <2>2, MinFact
  <2>4. PeekCount(k) \in 1 .. Len(q)
    BY <2>1, <2>2, <2>3
  <2> HIDE DEF q
  <2>5. PeekCount(k) \in 0 .. Len(q) /\ PeekCount(k) # 0
    BY <1>1, <2>4
  <2> QED BY <2>5 DEF q
<1> QED BY <1>2, <1>3

\* pvp_ikcp_recv: a message taken, and the room it leaves used.
LEMMA RecvFact ==
    ASSUME Signed, NEW k, Fine(k)
    PROVE  /\ Fine(Recv(k)) /\ SameSender(k, Recv(k)) /\ Recv(k).acklist = k.acklist
           /\ \A nxt \in SeqNums : Below(nxt, k) => Keeps(nxt, k, Recv(k))
<1> DEFINE n == PeekCount(k)
           queue == SubSeq(k.rcv_queue, n + 1, Len(k.rcv_queue))
           k0 == [k EXCEPT !.rcv_queue = queue]
           k1 == MoveReady(k0)
           told == k1.probe \cup {"TELL"}
           k2 == [k1 EXCEPT !.probe = told]
<1>1. k \in Blocks /\ k.rcv_queue \in Seq(Kept) /\ Len(k.rcv_queue) <= RcvWnd
  <2>1. k \in Blocks /\ Len(k.rcv_queue) <= RcvWnd
    BY DEF Fine
  <2> QED BY <2>1 DEF Blocks
<1>2. queue \in Seq(Kept) /\ Len(queue) <= RcvWnd
  <2>1. n \in 0 .. Len(k.rcv_queue)
    BY <1>1, PeekFact
  <2> HIDE DEF n
  <2>2. SubSeq(k.rcv_queue, n + 1, Len(k.rcv_queue)) \in Seq(Kept)
        /\ Len(SubSeq(k.rcv_queue, n + 1, Len(k.rcv_queue))) = Len(k.rcv_queue) - n
    BY <1>1, <2>1, CutFact
  <2>3. Len(k.rcv_queue) \in Nat /\ RcvWnd \in Nat
    BY <1>1, Sizes
  <2> QED BY <1>1, <2>1, <2>2, <2>3
<1> HIDE DEF queue
<1>3. /\ k0 \in Blocks /\ SameSender(k, k0) /\ k0.acklist = k.acklist /\ k0.rcv_queue = queue
      /\ k0.rcv_nxt = k.rcv_nxt /\ k0.rcv_buf = k.rcv_buf
  BY <1>1, <1>2 DEF Blocks, SameSender
<1> HIDE DEF k0
<1>4. Fine(k0)
  BY <1>2, <1>3 DEF Fine, SameSender
<1>5. /\ Fine(k1) /\ SameSender(k0, k1) /\ k1.acklist = k0.acklist
      /\ \A nxt \in SeqNums : Below(nxt, k0) => Keeps(nxt, k0, k1)
  BY <1>4, MoveReadyFact
<1> HIDE DEF k1
<1>6. k1 \in Blocks
  BY <1>5 DEF Fine
<1>7. told \in SUBSET {"SEND", "TELL"}
  BY <1>6 DEF Blocks
<1> HIDE DEF told
<1>8. /\ k2 \in Blocks /\ SameSender(k1, k2) /\ k2.acklist = k1.acklist /\ k2.rcv_queue = k1.rcv_queue
      /\ k2.rcv_nxt = k1.rcv_nxt /\ k2.rcv_buf = k1.rcv_buf
  BY <1>6, <1>7 DEF Blocks, SameSender
<1>9. Recv(k) \in {k1, k2}
  BY DEF Recv, k1, k0, queue, told
<1> HIDE DEF k2
<1>10. Fine(k2)
  BY <1>5, <1>8 DEF Fine, SameSender
<1>11. ASSUME NEW nxt \in SeqNums, Below(nxt, k) PROVE Keeps(nxt, k, k1) /\ Keeps(nxt, k, k2)
  <2>1. Keeps(nxt, k, k0)
    BY <1>1, <1>3, <1>11, KeepsSame
  <2>2. Keeps(nxt, k0, k1)
    BY <1>5, <2>1 DEF Keeps
  <2>3. Keeps(nxt, k1, k2)
    BY <1>6, <1>8, <2>2, KeepsSame DEF Keeps
  <2>4. Keeps(nxt, k, k1)
    BY <1>1, <1>3, <1>6, <2>1, <2>2, KeepsTrans
  <2>5. Keeps(nxt, k, k2)
    BY <1>1, <1>6, <1>8, <2>3, <2>4, KeepsTrans
  <2> QED BY <2>4, <2>5
<1>12. SameSender(k, k1) /\ SameSender(k, k2) /\ k1.acklist = k.acklist /\ k2.acklist = k.acklist
  BY <1>3, <1>5, <1>8 DEF SameSender
<1> QED BY <1>5, <1>9, <1>10, <1>11, <1>12

\* The received segments are finitely many.
LEMMA QueuesNat ==
    ASSUME NEW k, k \in Blocks
    PROVE  Len(k.rcv_queue) + Len(k.rcv_buf) \in Nat
<1> DEFINE a == Len(k.rcv_queue)
           b == Len(k.rcv_buf)
<1>1. k.rcv_queue \in Seq(Kept) /\ k.rcv_buf \in Seq(Kept)
  BY DEF Blocks
<1>2. a \in Nat /\ b \in Nat
  BY <1>1, LenProperties
<1> HIDE DEF a, b
<1>3. a + b \in Nat
  BY <1>2
<1> QED BY <1>3 DEF a, b

\* What every Recv keeps, InputToKcp keeps.
LEMMA DrainFold ==
    ASSUME NEW T, NEW k, k \in Blocks, [k |-> k, out |-> <<>>] \in T,
           \A r \in T : [k |-> Recv(r.k), out |-> Append(r.out, FirstMessage(r.k))] \in T
    PROVE  Drain(k) \in T
<1> DEFINE n == Len(k.rcv_queue) + Len(k.rcv_buf)
           s == [i \in 1 .. n |-> i]
           base == [k |-> k, out |-> <<>>]
           op(x, y) == IF PeekCount(x.k) = 0 THEN x
                       ELSE [k |-> Recv(x.k), out |-> Append(x.out, FirstMessage(x.k))]
           e(g, A) == IF A = {} THEN base ELSE op(g[A \ {Max(A)}], s[Max(A)])
           step == [x \in T \X (1 .. n) |-> op(x[1], s[x[2]])]
           h == CHOOSE g : g = [A \in SUBSET (DOMAIN s) |-> e(g, A)]
<1>0. base \in T
  BY DEF Blocks
<1>1. n \in Nat /\ DOMAIN s = 1 .. n
  <2>1. n \in Nat
    BY QueuesNat, Zenon
  <2> HIDE DEF n
  <2> QED BY <2>1
<1>2. ASSUME NEW x \in T, NEW i \in 1 .. n PROVE op(x, s[i]) \in T
  OBVIOUS
<1>3. Drain(k) = h[DOMAIN s]
  BY Zenon DEF Drain, FoldLeft, MapThenFoldSet
<1> HIDE DEF n, base, op
<1>4. step \in [T \X (1 .. n) -> T]
  BY <1>2
<1>5. PICK g \in [SUBSET (1 .. n) -> T] : Iterates(g, n, base, step)
  <2> HIDE DEF step
  <2> QED BY <1>0, <1>1, <1>4, IteratesExist
<1>6. ASSUME NEW A \in SUBSET (1 .. n), A # {}
      PROVE  step[<<g[A \ {Max(A)}], Max(A)>>] = op(g[A \ {Max(A)}], s[Max(A)])
  <2>1. Max(A) \in 1 .. n /\ A \ {Max(A)} \in SUBSET (1 .. n)
    BY <1>1, <1>6, Before
  <2> QED BY <2>1
<1>7. g = [A \in SUBSET (DOMAIN s) |-> e(g, A)]
  <2>1. \A A \in SUBSET (1 .. n) : A # {} =>
            step[<<g[A \ {Max(A)}], Max(A)>>] = op(g[A \ {Max(A)}], s[Max(A)])
    BY <1>6
  <2> HIDE DEF step
  <2> QED BY <1>1, <1>5, <2>1 DEF Iterates
<1>8. h = [A \in SUBSET (DOMAIN s) |-> e(h, A)]
  <2> HIDE DEF e
  <2> QED BY <1>7, Zenon
<1> HIDE DEF h
<1>9. \A A \in SUBSET (1 .. n) : h[A] = e(h, A)
  <2>1. SUBSET (DOMAIN s) = SUBSET (1 .. n)
    BY <1>1
  <2> HIDE DEF e
  <2> QED BY <1>8, <2>1
<1>10. h[{}] = base
  <2>1. {} \in SUBSET (1 .. n)
    OBVIOUS
  <2> QED BY <1>9, <2>1
<1>11. ASSUME NEW i \in 1 .. n PROVE h[1 .. i] = op(h[1 .. (i - 1)], s[i])
  <2>1. 1 .. i \in SUBSET (1 .. n) /\ i \in Nat /\ i > 0
    BY <1>1
  <2>2. Max(1 .. i) = i /\ (1 .. i) \ {i} = 1 .. (i - 1) /\ 1 .. i # {}
    BY <2>1, UpTo
  <2> QED BY <1>9, <2>1, <2>2
<1>12. h[1 .. n] \in T
  <2>1. \A i \in 1 .. n : h[1 .. (i - 1)] \in T => h[1 .. i] \in T
    BY <1>2, <1>11
  <2>2. n \in 0 .. n
    BY <1>1
  <2> QED BY <1>0, <1>1, <1>10, <2>1, <2>2, FoldIn
<1> QED BY <1>1, <1>3, <1>12

\* k2 comes from k by receiving: nothing of the sender's changes.
Received(k, k2) ==
    /\ Fine(k2) /\ SameSender(k, k2) /\ k2.acklist = k.acklist
    /\ \A nxt \in SeqNums : Below(nxt, k) => Keeps(nxt, k, k2)

\* One receipt after another.
LEMMA ReceivedTrans ==
    ASSUME NEW k, NEW k2, NEW k3, k \in Blocks, Received(k, k2), Received(k2, k3)
    PROVE  Received(k, k3)
<1>1. /\ Fine(k3) /\ SameSender(k, k3) /\ k3.acklist = k.acklist
  BY DEF Received, SameSender
<1>2. k2 \in Blocks /\ k3 \in Blocks
  BY DEF Received, Fine
<1>3. ASSUME NEW nxt \in SeqNums, Below(nxt, k) PROVE Keeps(nxt, k, k3)
  <2>1. Keeps(nxt, k, k2)
    BY <1>3 DEF Received
  <2>2. Keeps(nxt, k2, k3)
    BY <2>1 DEF Received, Keeps
  <2> QED BY <1>2, <2>1, <2>2, KeepsTrans
<1> QED BY <1>1, <1>3 DEF Received

\* ConnClientPrivate::InputToKcp: all the messages taken.
LEMMA DrainFact ==
    ASSUME Signed, NEW k, Fine(k)
    PROVE  Received(k, Drain(k).k)
<1> DEFINE M == {FirstMessage(k2) : k2 \in Blocks}
           T == {r \in [k : Blocks, out : Seq(M)] : Received(k, r.k)}
           next(r) == [k |-> Recv(r.k), out |-> Append(r.out, FirstMessage(r.k))]
<1>1. k \in Blocks
  BY DEF Fine
<1>2. [k |-> k, out |-> <<>>] \in T
  <2>1. Received(k, k)
    <3>1. \A nxt \in SeqNums : Below(nxt, k) => Keeps(nxt, k, k)
      BY <1>1, KeepsSame
    <3> QED BY <3>1 DEF Received, SameSender
  <2>2. <<>> \in Seq(M)
    OBVIOUS
  <2> HIDE DEF M
  <2>3. [k |-> k, out |-> <<>>] \in [k : Blocks, out : Seq(M)]
    BY <1>1, <2>2
  <2> QED BY <2>1, <2>3
<1>3. ASSUME NEW r \in T PROVE next(r) \in T
  <2>1. r.k \in Blocks /\ r.out \in Seq(M) /\ Received(k, r.k)
    <3> HIDE DEF M
    <3> QED OBVIOUS
  <2>2. Received(r.k, Recv(r.k))
    <3>1. Fine(r.k)
      BY <2>1 DEF Received
    <3> QED BY <3>1, RecvFact DEF Received
  <2>3. Received(k, Recv(r.k))
    BY <1>1, <2>1, <2>2, ReceivedTrans
  <2>4. Recv(r.k) \in Blocks
    BY <2>3 DEF Received, Fine
  <2>5. FirstMessage(r.k) \in M
    BY <2>1
  <2> HIDE DEF M
  <2>6. Append(r.out, FirstMessage(r.k)) \in Seq(M)
    BY <2>1, <2>5, AppendProperties
  <2> DEFINE k2 == Recv(r.k)
             out2 == Append(r.out, FirstMessage(r.k))
  <2>7. k2 \in Blocks /\ out2 \in Seq(M) /\ Received(k, k2)
    BY <2>3, <2>4, <2>6
  <2> HIDE DEF k2, out2
  <2>8. [k |-> k2, out |-> out2] \in T
    BY <2>7
  <2> QED BY <2>8 DEF k2, out2
<1>4. \A r \in T : Received(k, r.k)
  OBVIOUS
<1> HIDE DEF T
<1>5. Drain(k) \in T
  BY <1>1, <1>2, <1>3, DrainFold
<1> QED BY <1>4, <1>5

\* get_id gives a number of the counter.
LEMMA GetIdIn ==
    ASSUME NEW base \in SeqNums, NEW id \in Nat, id < 2 * Half
    PROVE  GetId(base, id) \in SeqNums
<1> DEFINE M == 2 * Half
           x == (base - (base % M)) + id
<1>1. /\ M \in Nat \ {0} /\ Word \in Nat /\ Word >= 2 * M /\ Word % M = 0 /\ Half \in Nat /\ M = 2 * Half
      /\ base \in Int /\ base \in 0 .. Word - 1 /\ SeqNums = 0 .. Word - 1
  BY HalfAssumption, WordAssumption DEF SeqNums
<1>2. GetId(base, id) = IF x < base - Half THEN (x + M) % Word
                        ELSE IF x > base + Half THEN (x - M) % Word ELSE x
  BY DEF GetId, Short
<1>3. base % M \in 0 .. M - 1 /\ base = M * (base \div M) + (base % M) /\ base \div M \in Int
  BY <1>1, DivMod
<1> HIDE DEF M
<1>4. x \in Int
  BY <1>1, <1>3
<1>5. (x + M) % Word \in SeqNums /\ (x - M) % Word \in SeqNums
  <2> HIDE DEF x
  <2>1. x + M \in Int /\ x - M \in Int /\ Word \in Nat \ {0}
    BY <1>1, <1>4
  <2> QED BY <1>1, <2>1, DivMod
<1>6. x \in SeqNums
  <2> DEFINE b == base \div M
             K == Word \div M
             r == base % M
  <2>1. b \in Int /\ base = M * b + r /\ r \in 0 .. M - 1
    BY <1>3
  <2>2. K \in Int /\ Word = M * K
    <3>1. Word \in Int
      BY <1>1
    <3>2. Word \div M \in Int /\ Word = M * (Word \div M) + (Word % M)
      BY <1>1, <3>1, DivMod
    <3> DEFINE z == Word % M
    <3>3. z = 0 /\ K \in Int /\ Word = M * K + z
      BY <1>1, <3>2
    <3> HIDE DEF z, K
    <3> QED BY <1>1, <3>3
  <2>3. x = base - r + id
    OBVIOUS
  <2> HIDE DEF b, K, r, x
  <2>4. M * b < M * K /\ M * (-1) < M * b
    BY <1>1, <2>1, <2>2
  <2>5. b < K /\ -1 < b
    BY <1>1, <2>1, <2>2, <2>4
  <2>6. M * b + M <= M * K /\ 0 <= M * b
    BY <1>1, <2>1, <2>2, <2>5
  <2> QED BY <1>1, <2>1, <2>2, <2>3, <2>6
<1> QED BY <1>2, <1>5, <1>6

\* The low half of a number.
LEMMA ShortIs ==
    ASSUME NEW x \in SeqNums
    PROVE  Short(x) \in Nat /\ Short(x) < 2 * Half
<1>1. x \in Int /\ 2 * Half \in Nat \ {0}
  BY Sizes
<1>2. x % (2 * Half) \in 0 .. (2 * Half) - 1
  BY <1>1, DivMod
<1> QED BY <1>1, <1>2 DEF Short

-----------------------------------------------------------------------------
(* Places of numbers                                                       *)

\* The distance the other way round.
LEMMA GapBack ==
    ASSUME NEW x \in SeqNums, NEW y \in SeqNums, x # y
    PROVE  Gap(x, y) = Word - Gap(y, x)
<1>1. Word \in Nat /\ x \in 0 .. Word - 1 /\ y \in 0 .. Word - 1
  BY Sizes
<1> QED BY <1>1 DEF Gap

\* Within half a turn _itimediff is a difference of places.
LEMMA DiffAhead ==
    ASSUME NEW x \in SeqNums, NEW y \in SeqNums, NEW b \in SeqNums,
           2 * Gap(x, b) < Word, 2 * Gap(y, b) < Word
    PROVE  Diff(x, y) = Gap(x, b) - Gap(y, b)
<1> DEFINE g == Gap(x, b)
           h == Gap(y, b)
<1>1. g \in Nat /\ h \in Nat /\ Word \in Nat /\ Gap(x, y) \in Nat /\ Gap(y, x) \in Nat
  BY GapNat, Sizes
<1>2. CASE h <= g
  <2>1. Gap(x, y) = g - h
    BY <1>2, GapVia
  <2> DEFINE d == Gap(x, y)
  <2>2. Diff(x, y) = IF 2 * d < Word THEN d ELSE d - Word
    BY GapIs
  <2>3. d = g - h /\ 2 * g < Word
    BY <2>1
  <2> HIDE DEF g, h, d
  <2>4. Diff(x, y) = g - h
    BY <1>1, <1>2, <2>2, <2>3
  <2> QED BY <2>4 DEF g, h
<1>3. CASE ~ (h <= g)
  <2>1. Gap(y, x) = h - g
    BY <1>1, <1>3, GapVia
  <2>2. x # y
    <3> SUFFICES ASSUME x = y PROVE FALSE
      OBVIOUS
    <3>1. g = h
      BY Zenon
    <3> QED BY <1>1, <1>3, <3>1
  <2>3. Gap(x, y) = Word - Gap(y, x)
    BY <2>2, GapBack
  <2> DEFINE d == Gap(x, y)
             d2 == Gap(y, x)
  <2>4. Diff(x, y) = IF 2 * d < Word THEN d ELSE d - Word
    BY GapIs
  <2>5. d2 = h - g /\ d = Word - d2 /\ 2 * h < Word /\ d2 \in Nat
    BY <1>1, <2>1, <2>3
  <2> HIDE DEF g, h, d, d2
  <2>6. Diff(x, y) = g - h
    BY <1>1, <1>3, <2>4, <2>5
  <2> QED BY <2>6 DEF g, h
<1> QED BY <1>2, <1>3

\* The same for numbers that are behind b.
LEMMA DiffBehind ==
    ASSUME NEW x \in SeqNums, NEW y \in SeqNums, NEW b \in SeqNums,
           2 * Gap(b, x) < Word, 2 * Gap(b, y) < Word
    PROVE  Diff(x, y) = Gap(b, y) - Gap(b, x)
<1> DEFINE g == Gap(b, x)
           h == Gap(b, y)
<1>1. g \in Nat /\ h \in Nat /\ Word \in Nat /\ Gap(x, y) \in Nat /\ Gap(y, x) \in Nat
  BY GapNat, Sizes
<1>2. CASE g <= h
  <2>1. Gap(x, y) = h - g
    BY <1>2, GapVia
  <2> DEFINE d == Gap(x, y)
  <2>2. Diff(x, y) = IF 2 * d < Word THEN d ELSE d - Word
    BY GapIs
  <2>3. d = h - g /\ 2 * h < Word
    BY <2>1
  <2> HIDE DEF g, h, d
  <2>4. Diff(x, y) = h - g
    BY <1>1, <1>2, <2>2, <2>3
  <2> QED BY <2>4 DEF g, h
<1>3. CASE ~ (g <= h)
  <2>1. Gap(y, x) = g - h
    BY <1>1, <1>3, GapVia
  <2>2. x # y
    <3> SUFFICES ASSUME x = y PROVE FALSE
      OBVIOUS
    <3>1. g = h
      BY Zenon
    <3> QED BY <1>1, <1>3, <3>1
  <2>3. Gap(x, y) = Word - Gap(y, x)
    BY <2>2, GapBack
  <2> DEFINE d == Gap(x, y)
             d2 == Gap(y, x)
  <2>4. Diff(x, y) = IF 2 * d < Word THEN d ELSE d - Word
    BY GapIs
  <2>5. d2 = g - h /\ d = Word - d2 /\ 2 * g < Word /\ d2 \in Nat
    BY <1>1, <2>1, <2>3
  <2> HIDE DEF g, h, d, d2
  <2>6. Diff(x, y) = h - g
    BY <1>1, <1>3, <2>4, <2>5
  <2> QED BY <2>6 DEF g, h
<1> QED BY <1>2, <1>3

\* Equal places are the same number.
LEMMA GapSame ==
    ASSUME NEW x \in SeqNums, NEW y \in SeqNums, NEW b \in SeqNums
    PROVE  /\ Gap(x, b) = Gap(y, b) => x = y
           /\ Gap(b, x) = Gap(b, y) => x = y
BY Sizes DEF Gap

\* One more received segment.
LEMMA InsertKept ==
    ASSUME NEW buf \in Seq(Kept), NEW seg \in Kept, NEW place \in 1 .. Len(buf) + 1
    PROVE  /\ InsertAt(buf, place, seg) \in Seq(Kept)
           /\ Len(InsertAt(buf, place, seg)) = Len(buf) + 1
           /\ \A l \in 1 .. Len(buf) + 1 : InsertAt(buf, place, seg)[l] =
                  IF l < place THEN buf[l] ELSE IF l = place THEN seg ELSE buf[l - 1]
<1> DEFINE S == Kept
<1>1. buf \in Seq(S) /\ seg \in S
  OBVIOUS
<1> HIDE DEF S
<1>2. InsertAt(buf, place, seg) \in Seq(S)
  BY <1>1, InsertAtFact
<1>3. /\ Len(InsertAt(buf, place, seg)) = Len(buf) + 1
      /\ \A l \in 1 .. Len(buf) + 1 : InsertAt(buf, place, seg)[l] =
             IF l < place THEN buf[l] ELSE IF l = place THEN seg ELSE buf[l - 1]
  BY <1>1, InsertAtFact
<1> QED BY <1>2, <1>3 DEF S

\* A number in order among those received early.
LEMMA InsertFact ==
    ASSUME Signed, NEW nxt \in SeqNums, NEW buf \in Seq(Kept), RecvSide(nxt, buf),
           NEW seg \in Kept, Gap(seg.sn, nxt) < RcvWnd, ~Has(buf, seg.sn),
           NEW place, place = Max({i \in DOMAIN buf : Diff(seg.sn, buf[i].sn) > 0} \cup {0}) + 1
    PROVE  /\ InsertAt(buf, place, seg) \in Seq(Kept)
           /\ RecvSide(nxt, InsertAt(buf, place, seg))
           /\ \A x \in SeqNums : Has(InsertAt(buf, place, seg), x) <=> Has(buf, x) \/ x = seg.sn
<1> DEFINE B == {i \in DOMAIN buf : Diff(seg.sn, buf[i].sn) > 0} \cup {0}
           j == Max(B)
           n == Len(buf)
           q == InsertAt(buf, place, seg)
           G(i) == Gap(buf[i].sn, nxt)
           a == Gap(seg.sn, nxt)
<1>0. n \in Nat /\ DOMAIN buf = 1 .. n
  OBVIOUS
<1>1. j \in 0 .. n /\ j \in B /\ \A i \in B : i <= j
  <2>1. B \subseteq 0 .. n /\ B # {}
    BY <1>0
  <2> HIDE DEF B
  <2> QED BY <1>0, <2>1, MaxFact
<1>2. seg.sn \in SeqNums /\ a \in Nat /\ a < RcvWnd /\ RcvWnd \in Nat /\ Word \in Nat /\ 2 * RcvWnd < Word
  <2>1. seg.sn \in SeqNums
    BY DEF Kept
  <2> QED BY <2>1, GapNat, Sizes DEF Signed
<1>3. \A i \in 1 .. n : buf[i].sn \in SeqNums /\ G(i) \in Nat /\ G(i) < RcvWnd
  <2> TAKE i \in 1 .. n
  <2>1. buf[i] \in Kept
    OBVIOUS
  <2>2. buf[i].sn \in SeqNums
    BY <2>1 DEF Kept
  <2> QED BY <2>2, GapNat DEF RecvSide
<1>4. ASSUME NEW i \in 1 .. n PROVE i \in B <=> G(i) < a
  <2> DEFINE g == G(i)
  <2>1. 2 * a < Word /\ 2 * g < Word
    BY <1>2, <1>3
  <2>2. Diff(seg.sn, buf[i].sn) = a - g
    BY <1>2, <1>3, <2>1, DiffAhead
  <2>3. i \in B <=> Diff(seg.sn, buf[i].sn) > 0
    BY <1>0
  <2>4. g \in Nat /\ a \in Nat
    BY <1>2, <1>3
  <2> HIDE DEF g, a, B
  <2>5. i \in B <=> g < a
    BY <2>2, <2>3, <2>4
  <2> QED BY <2>5 DEF g
<1>5. \A i, l \in 1 .. n : i < l => G(i) < G(l)
  BY DEF RecvSide
<1>6. ASSUME NEW i \in 1 .. j PROVE i \in 1 .. n /\ G(i) < a
  <2>1. i \in 1 .. n /\ j \in 1 .. n
    BY <1>0, <1>1
  <2>2. G(j) < a
    BY <1>1, <1>4, <2>1
  <2>3. CASE i = j
    BY <2>1, <2>2, <2>3
  <2>4. CASE i # j
    <3>1. i < j
      BY <1>1, <2>4
    <3>2. G(i) < G(j)
      BY <1>5, <2>1, <3>1
    <3>3. G(i) \in Nat /\ G(j) \in Nat
      BY <1>3, <2>1
    <3> DEFINE gi == G(i)
               gj == G(j)
    <3> HIDE DEF a, gi, gj
    <3>4. gi < a
      BY <1>2, <2>2, <3>2, <3>3 DEF gi, gj
    <3> QED BY <2>1, <3>4 DEF gi
  <2> QED BY <2>3, <2>4
<1>7. ASSUME NEW i \in j + 1 .. n PROVE i \in 1 .. n /\ a < G(i)
  <2>1. i \in 1 .. n /\ ~ (i <= j)
    BY <1>0, <1>1
  <2>2. ~ (G(i) < a)
    BY <1>1, <1>4, <2>1
  <2>3. G(i) # a
    <3>1. buf[i].sn # seg.sn
      BY <2>1 DEF Has
    <3> QED BY <1>2, <1>3, <2>1, <3>1, GapSame
  <2>4. G(i) \in Nat
    BY <1>3, <2>1
  <2> HIDE DEF a
  <2> QED BY <1>2, <2>1, <2>2, <2>3, <2>4
<1>8. place = j + 1 /\ place \in 1 .. n + 1
  BY <1>0, <1>1
<1> HIDE DEF j, B
<1>9. /\ q \in Seq(Kept) /\ Len(q) = n + 1
      /\ \A i \in 1 .. n + 1 : q[i] = IF i < place THEN buf[i] ELSE IF i = place THEN seg ELSE buf[i - 1]
  <2>1. place \in 1 .. Len(buf) + 1 /\ buf \in Seq(Kept) /\ seg \in Kept
    BY <1>8
  <2>2. /\ InsertAt(buf, place, seg) \in Seq(Kept)
        /\ Len(InsertAt(buf, place, seg)) = Len(buf) + 1
        /\ \A l \in 1 .. Len(buf) + 1 : InsertAt(buf, place, seg)[l] =
               IF l < place THEN buf[l] ELSE IF l = place THEN seg ELSE buf[l - 1]
    BY ONLY <2>1, InsertKept
  <2> QED BY <2>2
<1> HIDE DEF q
<1>10. ASSUME NEW i \in 1 .. n + 1
       PROVE  \/ i \in 1 .. j /\ q[i] = buf[i]
              \/ i = j + 1 /\ q[i] = seg
              \/ i - 1 \in j + 1 .. n /\ i > j + 1 /\ q[i] = buf[i - 1]
  <2> HIDE DEF n
  <2>1. i \in Nat /\ j \in Nat /\ n \in Nat /\ 1 <= i /\ i <= n + 1 /\ place = j + 1
    BY <1>0, <1>1, <1>8
  <2>2. q[i] = IF i < place THEN buf[i] ELSE IF i = place THEN seg ELSE buf[i - 1]
    BY <1>9
  <2>3. CASE i < place
    <3>1. i \in 1 .. j
      BY <2>1, <2>3
    <3> QED BY <2>2, <2>3, <3>1
  <2>4. CASE i = place
    BY <2>1, <2>2, <2>4
  <2>5. CASE i > place
    <3>1. i - 1 \in j + 1 .. n /\ i > j + 1 /\ ~ (i < place) /\ i # place
      BY <2>1, <2>5
    <3> QED BY <2>2, <3>1
  <2> QED BY <2>1, <2>3, <2>4, <2>5
<1> DEFINE Q(i) == Gap(q[i].sn, nxt)
<1>11. ASSUME NEW i \in 1 .. n + 1
       PROVE  \/ i \in 1 .. j /\ Q(i) = G(i)
              \/ i = j + 1 /\ Q(i) = a
              \/ i - 1 \in j + 1 .. n /\ i > j + 1 /\ Q(i) = G(i - 1)
  BY <1>10
<1>12. RecvSide(nxt, q)
  <2>1. ASSUME NEW i \in 1 .. n + 1 PROVE Q(i) < RcvWnd
    BY <1>2, <1>3, <1>6, <1>7, <1>11
  <2>2. ASSUME NEW i \in 1 .. n + 1, NEW l \in 1 .. n + 1, i < l PROVE Q(i) < Q(l)
    <3>1. CASE i \in 1 .. j /\ Q(i) = G(i)
      <4>1. i \in 1 .. n /\ G(i) < a /\ G(i) \in Nat
        BY <1>3, <1>6, <3>1
      <4>2. CASE l \in 1 .. j /\ Q(l) = G(l)
        BY <1>5, <1>6, <2>2, <3>1, <4>1, <4>2
      <4>3. CASE l = j + 1 /\ Q(l) = a
        BY <3>1, <4>1, <4>3
      <4>4. CASE l - 1 \in j + 1 .. n /\ l > j + 1 /\ Q(l) = G(l - 1)
        <5>1. l - 1 \in 1 .. n /\ a < G(l - 1)
          BY <1>7, <4>4
        <5>2. i < l - 1
          BY <1>1, <3>1, <4>4
        <5>3. G(i) < G(l - 1)
          BY <1>5, <4>1, <5>1, <5>2
        <5> QED BY <3>1, <4>4, <5>3
      <4> QED BY <1>11, <4>2, <4>3, <4>4
    <3>2. CASE i = j + 1 /\ Q(i) = a
      <4>1. l - 1 \in j + 1 .. n /\ l > j + 1 /\ Q(l) = G(l - 1)
        BY <1>1, <1>11, <2>2, <3>2
      <4> QED BY <1>7, <3>2, <4>1
    <3>3. CASE i - 1 \in j + 1 .. n /\ i > j + 1 /\ Q(i) = G(i - 1)
      <4>1. l - 1 \in j + 1 .. n /\ l > j + 1 /\ Q(l) = G(l - 1)
        BY <1>1, <1>11, <2>2, <3>3
      <4>2. i - 1 \in 1 .. n /\ l - 1 \in 1 .. n /\ i - 1 < l - 1
        BY <1>7, <2>2, <3>3, <4>1
      <4> QED BY <1>5, <3>3, <4>1, <4>2
    <3> QED BY <1>11, <3>1, <3>2, <3>3
  <2> QED BY <1>9, <2>1, <2>2 DEF RecvSide
<1>13. ASSUME NEW x \in SeqNums PROVE Has(q, x) <=> Has(buf, x) \/ x = seg.sn
  <2>1. ASSUME Has(q, x) PROVE Has(buf, x) \/ x = seg.sn
    <3>1. PICK i \in 1 .. n + 1 : q[i].sn = x
      BY <1>9, <2>1 DEF Has
    <3> QED BY <1>6, <1>7, <1>10, <3>1 DEF Has
  <2>2. ASSUME Has(buf, x) PROVE Has(q, x)
    <3>1. PICK i \in 1 .. n : buf[i].sn = x
      BY <2>2 DEF Has
    <3>2. CASE i <= j
      <4>1. i \in 1 .. n + 1 /\ q[i] = buf[i]
        BY <1>0, <1>8, <1>9, <1>1, <3>2
      <4> QED BY <1>9, <3>1, <4>1 DEF Has
    <3>3. CASE i > j
      <4>1. i + 1 \in 1 .. n + 1 /\ q[i + 1] = buf[i]
        BY <1>0, <1>8, <1>9, <1>1, <3>3
      <4> QED BY <1>9, <3>1, <4>1 DEF Has
    <3> QED BY <1>0, <1>1, <3>2, <3>3
  <2>3. ASSUME x = seg.sn PROVE Has(q, x)
    <3>1. place \in 1 .. n + 1 /\ q[place] = seg
      BY <1>0, <1>1, <1>8, <1>9
    <3> QED BY <1>9, <2>3, <3>1 DEF Has
  <2> QED BY <2>1, <2>2, <2>3
<1> QED BY <1>9, <1>12, <1>13 DEF q

-----------------------------------------------------------------------------
(* A data segment taken in                                                 *)

\* The window tests of input and ikcp_parse_data.
LEMMA WindowTest ==
    ASSUME Signed, NEW x \in SeqNums, NEW nxt \in SeqNums, Diff(x, nxt) >= 0
    PROVE  (Diff(x, Plus(nxt, RcvWnd)) < 0) => Gap(x, nxt) < RcvWnd
<1> DEFINE g == Gap(x, nxt)
           p == Plus(nxt, RcvWnd)
           h == Gap(x, p)
<1>1. RcvWnd \in SeqNums /\ RcvWnd \in Nat /\ Word \in Nat /\ 2 * RcvWnd < Word
  BY Sizes DEF Signed
<1>2. g \in Nat /\ p \in SeqNums /\ h \in Nat
  BY <1>1, PlusIs, GapNat
<1>3. RcvWnd <= g => h = g - RcvWnd
  BY <1>1, GapPlus
<1>4. Diff(x, nxt) = IF 2 * g < Word THEN g ELSE g - Word
  BY GapIs
<1> HIDE DEF p
<1>5. Diff(x, p) = IF 2 * h < Word THEN h ELSE h - Word
  BY <1>2, GapIs
<1>6. g < Word
  BY GapNat
<1> HIDE DEF g, h
<1>7. 2 * g < Word
  BY <1>1, <1>2, <1>4, <1>6
<1>8. Diff(x, p) < 0 => g < RcvWnd
  BY <1>1, <1>2, <1>3, <1>5, <1>7
<1> QED BY <1>8 DEF g, p

\* k2 comes from k by a segment with number sn: it is acknowledged only if kept.
TakenIn(nxt, k, k2, sn) ==
    /\ Keeps(nxt, k, k2)
    /\ \A x \in Due(k2) : x \in Due(k) \/ (x = sn /\ Got(nxt, k2, sn))

\* ikcp_parse_data: a segment in the window is kept unless it was before.
LEMMA ParseDataFact ==
    ASSUME Signed, NEW k, Fine(k), NEW seg \in Kept,
           ~ (Diff(seg.sn, Plus(k.rcv_nxt, RcvWnd)) >= 0)
    PROVE  /\ Fine(ParseData(k, seg)) /\ SameSender(k, ParseData(k, seg))
           /\ ParseData(k, seg).acklist = k.acklist
           /\ \A nxt \in SeqNums :
                /\ Below(nxt, k)
                /\ 0 < Gap(nxt, seg.sn) /\ 2 * Gap(nxt, seg.sn) < Word
                /\ 2 * Gap(nxt, k.rcv_nxt) < Word
                => Keeps(nxt, k, ParseData(k, seg)) /\ Got(nxt, ParseData(k, seg), seg.sn)
<1> DEFINE place == Max({i \in DOMAIN k.rcv_buf : Diff(seg.sn, k.rcv_buf[i].sn) > 0} \cup {0}) + 1
           buf == InsertAt(k.rcv_buf, place, seg)
           k1 == [k EXCEPT !.rcv_buf = buf]
           old == Diff(seg.sn, k.rcv_nxt) < 0
           repeat == Has(k.rcv_buf, seg.sn)
           k2 == IF old THEN k ELSE MoveReady(IF repeat THEN k ELSE k1)
<1>1. /\ k \in Blocks /\ k.rcv_nxt \in SeqNums /\ k.rcv_buf \in Seq(Kept)
      /\ RecvSide(k.rcv_nxt, k.rcv_buf) /\ seg.sn \in SeqNums
  <2>1. k \in Blocks /\ RecvSide(k.rcv_nxt, k.rcv_buf)
    BY DEF Fine
  <2>2. k.rcv_nxt \in SeqNums /\ k.rcv_buf \in Seq(Kept)
    BY <2>1 DEF Blocks
  <2> QED BY <2>1, <2>2 DEF Kept
<1>2. ParseData(k, seg) = k2
  <2>1. DOMAIN k.rcv_buf = 1 .. Len(k.rcv_buf)
    BY <1>1
  <2>2. repeat <=> \E i \in DOMAIN k.rcv_buf : k.rcv_buf[i].sn = seg.sn
    BY <2>1 DEF Has
  <2> HIDE DEF repeat
  <2> QED BY <2>2, Zenon DEF ParseData
<1> HIDE DEF place
<1>3. ASSUME ~repeat, ~old
      PROVE  /\ buf \in Seq(Kept) /\ RecvSide(k.rcv_nxt, buf)
             /\ \A x \in SeqNums : Has(buf, x) <=> Has(k.rcv_buf, x) \/ x = seg.sn
             /\ Gap(seg.sn, k.rcv_nxt) < RcvWnd
  <2> DEFINE p == Plus(k.rcv_nxt, RcvWnd)
  <2>1. Gap(seg.sn, k.rcv_nxt) < RcvWnd
    <3>1. Diff(seg.sn, k.rcv_nxt) \in Int
      BY <1>1, DiffTurns
    <3>2. p \in SeqNums
      <4>1. RcvWnd \in SeqNums
        BY Sizes DEF Signed
      <4> QED BY <1>1, <4>1, PlusIs
    <3> HIDE DEF p
    <3>3. Diff(seg.sn, p) \in Int
      BY <1>1, <3>2, DiffTurns
    <3>4. ~ (Diff(seg.sn, p) >= 0)
      BY DEF p
    <3>5. Diff(seg.sn, p) < 0 /\ Diff(seg.sn, k.rcv_nxt) >= 0
      BY <1>3, <3>1, <3>3, <3>4
    <3> QED BY <1>1, <3>5, WindowTest DEF p
  <2> QED BY <1>1, <1>3, <2>1, InsertFact DEF place
<1> HIDE DEF buf
<1>4. ASSUME ~repeat, ~old PROVE Fine(k1) /\ SameSender(k, k1) /\ k1.acklist = k.acklist
  <2>1. /\ k1 \in Blocks /\ k1.rcv_queue = k.rcv_queue /\ k1.rcv_buf = buf /\ k1.rcv_nxt = k.rcv_nxt
        /\ SameSender(k, k1) /\ k1.acklist = k.acklist
    BY <1>1, <1>3, <1>4 DEF Blocks, SameSender
  <2> QED BY <1>3, <1>4, <2>1 DEF Fine, SameSender
<1>5. k1.rcv_nxt = k.rcv_nxt /\ k1.rcv_buf = buf
  BY <1>1 DEF Blocks
<1> HIDE DEF k1, old
<1>6. ASSUME NEW j, Fine(j), SameSender(k, j), j.acklist = k.acklist
      PROVE  /\ Fine(MoveReady(j)) /\ SameSender(k, MoveReady(j)) /\ MoveReady(j).acklist = k.acklist
             /\ \A nxt \in SeqNums : Below(nxt, j) => Keeps(nxt, j, MoveReady(j))
  BY <1>6, MoveReadyFact DEF SameSender
<1>7. Fine(k2) /\ SameSender(k, k2) /\ k2.acklist = k.acklist
  <2>1. CASE old
    BY <2>1 DEF SameSender
  <2>2. CASE ~old /\ repeat
    BY <1>6, <2>2 DEF SameSender
  <2>3. CASE ~old /\ ~repeat
    BY <1>4, <1>6, <2>3
  <2> QED BY <2>1, <2>2, <2>3
<1>8. ASSUME NEW nxt \in SeqNums, Below(nxt, k), 0 < Gap(nxt, seg.sn), 2 * Gap(nxt, seg.sn) < Word,
             2 * Gap(nxt, k.rcv_nxt) < Word
      PROVE  Keeps(nxt, k, k2) /\ Got(nxt, k2, seg.sn)
  <2> DEFINE s == Gap(nxt, seg.sn)
             r == Gap(nxt, k.rcv_nxt)
  <2>0. s \in Nat /\ r \in Nat /\ Word \in Nat /\ RcvWnd \in Nat /\ 2 * RcvWnd < Word
    BY <1>1, GapNat, Sizes DEF Signed
  <2>1. CASE old
    <3>1. Keeps(nxt, k, k)
      BY <1>1, <1>8, KeepsSame
    <3>2. Diff(seg.sn, k.rcv_nxt) = r - s
      BY <1>1, <1>8, DiffBehind
    <3>3. Diff(seg.sn, k.rcv_nxt) < 0
      BY <2>1 DEF old
    <3> HIDE DEF s, r
    <3>4. s > r
      BY <2>0, <3>2, <3>3
    <3> QED BY <2>1, <3>1, <3>4 DEF Got, s, r
  <2>2. CASE ~old /\ repeat
    <3>1. Keeps(nxt, k, MoveReady(k))
      BY <1>6, <1>8, <2>2 DEF SameSender
    <3>2. Got(nxt, k, seg.sn)
      BY <2>2 DEF Got
    <3> QED BY <1>1, <2>2, <3>1, <3>2 DEF Keeps
  <2>3. CASE ~old /\ ~repeat
    <3>1. Keeps(nxt, k, k1)
      <4> DEFINE a == Gap(seg.sn, k.rcv_nxt)
      <4>1. a \in Nat /\ a < RcvWnd
        BY <1>1, <1>3, <2>3, GapNat
      <4>2. s + a < Word => r = s + a
        BY <1>1, GapVia
      <4>3. 2 * s < Word /\ 0 < s
        BY <1>8
      <4>4. a < r
        <5> HIDE DEF s, r, a
        <5> QED BY <2>0, <4>1, <4>2, <4>3
      <4>5. Below(nxt, k1)
        <5> SUFFICES ASSUME NEW i \in 1 .. Len(buf) PROVE Gap(buf[i].sn, k.rcv_nxt) < r
          BY <1>5 DEF Below
        <5>1. buf[i].sn \in SeqNums
          <6>1. buf[i] \in Kept
            BY <1>3, <2>3
          <6> QED BY <6>1 DEF Kept
        <5>2. Has(buf, buf[i].sn)
          BY DEF Has
        <5>3. Has(k.rcv_buf, buf[i].sn) \/ buf[i].sn = seg.sn
          BY <1>3, <2>3, <5>1, <5>2
        <5>4. CASE Has(k.rcv_buf, buf[i].sn)
          BY <1>8, <5>4 DEF Has, Below
        <5>5. CASE buf[i].sn = seg.sn
          BY <4>4, <5>5
        <5> QED BY <5>3, <5>4, <5>5
      <4>6. \A x \in SeqNums : Got(nxt, k, x) => Got(nxt, k1, x)
        BY <1>3, <1>5, <2>3 DEF Got
      <4> QED BY <1>5, <2>0, <4>5, <4>6 DEF Keeps
    <3>2. Got(nxt, k1, seg.sn)
      BY <1>1, <1>3, <1>5, <2>3 DEF Got
    <3>3. Keeps(nxt, k1, MoveReady(k1))
      BY <1>4, <1>6, <2>3, <3>1 DEF Keeps
    <3>4. Got(nxt, MoveReady(k1), seg.sn)
      BY <1>1, <3>2, <3>3 DEF Keeps
    <3>5. k1 \in Blocks /\ MoveReady(k1) \in Blocks
      BY <1>4, <1>6, <2>3 DEF Fine
    <3>6. Keeps(nxt, k, MoveReady(k1))
      BY <1>1, <3>1, <3>3, <3>5, KeepsTrans
    <3> QED BY <2>3, <3>4, <3>6
  <2> QED BY <2>1, <2>2, <2>3
<1> HIDE DEF k2
<1> QED BY <1>2, <1>7, <1>8

-----------------------------------------------------------------------------
(* Acknowledgements taken in                                               *)

\* k2 comes from k by sending: nothing of the receiver's changes.
SameReceiver(k, k2) ==
    k2.rcv_nxt = k.rcv_nxt /\ k2.rcv_buf = k.rcv_buf /\ k2.rcv_queue = k.rcv_queue

\* Segments taken out leave the others in order.
LEMMA SubSide ==
    ASSUME NEW nxt, NEW una, NEW buf \in Seq(Held), NEW q \in Seq(Held), SendSide(nxt, una, buf),
           NEW f \in [1 .. Len(q) -> 1 .. Len(buf)], \A i, j \in 1 .. Len(q) : i < j => f[i] < f[j],
           \A i \in 1 .. Len(q) : q[i].sn = buf[f[i]].sn
    PROVE  SendSide(nxt, una, q)
<1>1. Gap(nxt, una) <= SndWnd
  BY DEF SendSide
<1>2. ASSUME NEW i \in 1 .. Len(q)
      PROVE  0 < Gap(nxt, q[i].sn) /\ Gap(nxt, q[i].sn) <= Gap(nxt, una)
  <2>1. f[i] \in 1 .. Len(buf) /\ q[i].sn = buf[f[i]].sn
    OBVIOUS
  <2> QED BY <2>1 DEF SendSide
<1>3. ASSUME NEW i \in 1 .. Len(q), NEW j \in 1 .. Len(q), i < j
      PROVE  Gap(nxt, q[j].sn) < Gap(nxt, q[i].sn)
  <2>1. f[i] \in 1 .. Len(buf) /\ f[j] \in 1 .. Len(buf) /\ f[i] < f[j]
    BY <1>3
  <2>2. q[i].sn = buf[f[i]].sn /\ q[j].sn = buf[f[j]].sn
    OBVIOUS
  <2>3. Gap(nxt, buf[f[j]].sn) < Gap(nxt, buf[f[i]].sn)
    BY <2>1 DEF SendSide
  <2> QED BY <2>2, <2>3
<1> QED BY <1>1, <1>2, <1>3 DEF SendSide

\* The numbers in flight are less than half a turn behind snd_nxt.
LEMMA SideNats ==
    ASSUME Signed, NEW nxt \in SeqNums, NEW una \in SeqNums, NEW buf \in Seq(Held), SendSide(nxt, una, buf)
    PROVE  /\ Gap(nxt, una) \in Nat /\ 2 * Gap(nxt, una) < Word
           /\ \A i \in 1 .. Len(buf) : /\ buf[i].sn \in SeqNums /\ Gap(nxt, buf[i].sn) \in Nat \ {0}
                                       /\ Gap(nxt, buf[i].sn) <= SndWnd /\ 2 * Gap(nxt, buf[i].sn) < Word
<1> DEFINE u == Gap(nxt, una)
<1>1. u \in Nat /\ u <= SndWnd /\ SndWnd \in Nat /\ Word \in Nat /\ 2 * SndWnd < Word
  BY GapNat, Sizes DEF Signed, SendSide
<1>2. ASSUME NEW i \in 1 .. Len(buf)
      PROVE  buf[i].sn \in SeqNums /\ Gap(nxt, buf[i].sn) \in Nat /\ 0 < Gap(nxt, buf[i].sn) /\ Gap(nxt, buf[i].sn) <= u
  <2>1. buf[i] \in Held
    OBVIOUS
  <2>2. buf[i].sn \in SeqNums
    BY <2>1 DEF Held
  <2> QED BY <2>2, GapNat DEF SendSide
<1> HIDE DEF u
<1>3. ASSUME NEW i \in 1 .. Len(buf)
      PROVE  Gap(nxt, buf[i].sn) \in Nat \ {0} /\ Gap(nxt, buf[i].sn) <= SndWnd /\ 2 * Gap(nxt, buf[i].sn) < Word
  <2> DEFINE g == Gap(nxt, buf[i].sn)
  <2>1. g \in Nat /\ 0 < g /\ g <= u
    BY <1>2
  <2> HIDE DEF g
  <2>2. g \in Nat \ {0} /\ g <= SndWnd /\ 2 * g < Word
    BY <1>1, <2>1
  <2> QED BY <2>2 DEF g
<1>4. 2 * u < Word
  BY <1>1
<1> QED BY <1>1, <1>2, <1>3, <1>4 DEF u

\* ikcp_parse_una: only what is behind una is let go.
LEMMA ParseUnaFact ==
    ASSUME Signed, NEW k, Fine(k), NEW una \in SeqNums
    PROVE  LET k2 == ParseUna(k, una) IN
           /\ Fine(k2) /\ SameReceiver(k, k2) /\ k2.acklist = k.acklist
           /\ k2.snd_nxt = k.snd_nxt
           /\ 2 * Gap(k.snd_nxt, una) < Word =>
                \A x \in SeqNums : Has(k.snd_buf, x) =>
                    Has(k2.snd_buf, x) \/ Gap(k.snd_nxt, x) > Gap(k.snd_nxt, una)
<1> DEFINE T == {m \in 0 .. Len(k.snd_buf) : \A i \in 1 .. m : Diff(una, k.snd_buf[i].sn) > 0}
           n == Max(T)
           buf == SubSeq(k.snd_buf, n + 1, Len(k.snd_buf))
           k2 == [k EXCEPT !.snd_buf = buf]
           nxt == k.snd_nxt
<1>1. /\ k \in Blocks /\ nxt \in SeqNums /\ k.snd_una \in SeqNums /\ k.snd_buf \in Seq(Held)
      /\ SendSide(nxt, k.snd_una, k.snd_buf) /\ Len(k.snd_buf) \in Nat
  <2>1. k \in Blocks /\ SendSide(nxt, k.snd_una, k.snd_buf)
    BY DEF Fine
  <2>2. nxt \in SeqNums /\ k.snd_una \in SeqNums /\ k.snd_buf \in Seq(Held)
    BY <2>1 DEF Blocks
  <2> QED BY <2>1, <2>2
<1>2. n \in T
  <2>1. 0 \in T /\ T \subseteq 0 .. Len(k.snd_buf)
    BY <1>1
  <2> HIDE DEF T
  <2> QED BY <1>1, <2>1, MaxFact
<1>3. n \in 0 .. Len(k.snd_buf) /\ \A i \in 1 .. n : Diff(una, k.snd_buf[i].sn) > 0
  BY <1>2
<1>4. ParseUna(k, una) = k2
  BY DEF ParseUna
<1> HIDE DEF n, T
<1>5. /\ buf \in Seq(Held) /\ Len(buf) = Len(k.snd_buf) - n
      /\ \A i \in 1 .. Len(k.snd_buf) - n : buf[i] = k.snd_buf[n + i]
  BY <1>1, <1>3, CutFact
<1> HIDE DEF buf
<1>6. SendSide(nxt, k.snd_una, buf)
  <2> DEFINE f == [i \in 1 .. Len(buf) |-> n + i]
  <2>1. f \in [1 .. Len(buf) -> 1 .. Len(k.snd_buf)]
    BY <1>1, <1>3, <1>5
  <2>2. \A i, j \in 1 .. Len(buf) : i < j => f[i] < f[j]
    BY <1>1, <1>3, <1>5
  <2>3. \A i \in 1 .. Len(buf) : buf[i].sn = k.snd_buf[f[i]].sn
    BY <1>5
  <2> HIDE DEF f
  <2> QED BY <1>1, <1>5, <2>1, <2>2, <2>3, SubSide
<1>7. /\ k2 \in Blocks /\ SameReceiver(k, k2) /\ k2.acklist = k.acklist /\ k2.snd_nxt = k.snd_nxt
      /\ k2.snd_una = k.snd_una /\ k2.snd_buf = buf
  BY <1>1, <1>5 DEF Blocks, SameReceiver
<1>8. Fine(k2)
  BY <1>6, <1>7 DEF Fine, SameReceiver
<1>9. ASSUME 2 * Gap(nxt, una) < Word, NEW x \in SeqNums, Has(k.snd_buf, x), ~Has(buf, x)
      PROVE  Gap(nxt, x) > Gap(nxt, una)
  <2>1. PICK i \in 1 .. Len(k.snd_buf) : k.snd_buf[i].sn = x
    BY <1>9 DEF Has
  <2>2. i <= n
    <3> SUFFICES ASSUME i > n PROVE FALSE
      BY <1>3
    <3>1. i - n \in 1 .. Len(buf) /\ n + (i - n) = i
      BY <1>1, <1>3, <1>5
    <3>2. buf[i - n].sn = x
      BY <1>5, <2>1, <3>1
    <3> QED BY <1>9, <3>1, <3>2 DEF Has
  <2>3. Diff(una, x) > 0
    BY <1>3, <2>1, <2>2
  <2>4. 2 * Gap(nxt, x) < Word /\ Gap(nxt, x) \in Nat
    BY <1>1, <2>1, SideNats
  <2>5. Diff(una, x) = Gap(nxt, x) - Gap(nxt, una)
    BY <1>1, <1>9, <2>4, DiffBehind
  <2>6. Gap(nxt, una) \in Nat
    BY <1>1, GapNat
  <2> DEFINE a == Gap(nxt, x)
             b == Gap(nxt, una)
  <2>7. a \in Nat /\ b \in Nat /\ a - b > 0
    BY <2>3, <2>4, <2>5, <2>6
  <2> HIDE DEF a, b
  <2>8. a > b
    BY <2>7
  <2> QED BY <2>8 DEF a, b
<1> HIDE DEF k2
<1> QED BY <1>4, <1>7, <1>8, <1>9

\* ikcp_shrink_buf: snd_una is the first in flight, or snd_nxt.
LEMMA ShrinkBufFact ==
    ASSUME Signed, NEW k, Fine(k)
    PROVE  LET k2 == ShrinkBuf(k) IN
           /\ Fine(k2) /\ SameReceiver(k, k2) /\ k2.acklist = k.acklist
           /\ k2.snd_nxt = k.snd_nxt /\ k2.snd_buf = k.snd_buf
<1> DEFINE una == IF k.snd_buf = <<>> THEN k.snd_nxt ELSE Head(k.snd_buf).sn
           k2 == [k EXCEPT !.snd_una = una]
           buf == k.snd_buf
           nxt == k.snd_nxt
<1>1. /\ k \in Blocks /\ nxt \in SeqNums /\ k.snd_una \in SeqNums /\ buf \in Seq(Held)
      /\ SendSide(nxt, k.snd_una, buf) /\ Len(buf) \in Nat
  <2>1. k \in Blocks /\ SendSide(nxt, k.snd_una, buf)
    BY DEF Fine
  <2>2. nxt \in SeqNums /\ k.snd_una \in SeqNums /\ buf \in Seq(Held)
    BY <2>1 DEF Blocks
  <2> QED BY <2>1, <2>2
<1>2. una \in SeqNums /\ SendSide(nxt, una, buf)
  <2>1. CASE buf = <<>>
    <3>1. una = nxt /\ Len(buf) = 0
      BY <2>1
    <3>2. Gap(nxt, nxt) = 0
      BY <1>1, GapIs
    <3> HIDE DEF una
    <3> QED BY <1>1, <3>1, <3>2, Sizes DEF SendSide
  <2>2. CASE buf # <<>>
    <3>1. una = buf[1].sn /\ 1 \in 1 .. Len(buf)
      BY <1>1, <2>2
    <3> HIDE DEF una
    <3>2. una \in SeqNums /\ Gap(nxt, una) <= SndWnd
      BY <1>1, <3>1, SideNats
    <3>3. ASSUME NEW i \in 1 .. Len(buf) PROVE Gap(nxt, buf[i].sn) <= Gap(nxt, una)
      <4>1. CASE i = 1
        <5>1. Gap(nxt, una) \in Nat
          BY <1>1, <3>2, GapNat
        <5> QED BY <3>1, <4>1, <5>1
      <4>2. CASE i # 1
        <5>1. 1 < i
          BY <4>2
        <5>2. Gap(nxt, buf[i].sn) < Gap(nxt, buf[1].sn)
          BY <1>1, <3>1, <5>1 DEF SendSide
        <5>3. Gap(nxt, buf[i].sn) \in Nat /\ Gap(nxt, buf[1].sn) \in Nat
          BY <1>1, <3>1, SideNats
        <5> QED BY <3>1, <5>2, <5>3
      <4> QED BY <4>1, <4>2
    <3> QED BY <1>1, <3>2, <3>3 DEF SendSide
  <2> QED BY <2>1, <2>2
<1> HIDE DEF una
<1>3. /\ k2 \in Blocks /\ SameReceiver(k, k2) /\ k2.acklist = k.acklist /\ k2.snd_nxt = k.snd_nxt
      /\ k2.snd_una = una /\ k2.snd_buf = k.snd_buf
  BY <1>1, <1>2 DEF Blocks, SameReceiver
<1>4. Fine(k2)
  BY <1>2, <1>3 DEF Fine, SameReceiver
<1>5. ShrinkBuf(k) = k2
  BY DEF ShrinkBuf, una
<1> HIDE DEF k2
<1> QED BY <1>3, <1>4, <1>5

\* ikcp_parse_ack: only what is acknowledged is let go.
LEMMA ParseAckFact ==
    ASSUME Signed, NEW k, Fine(k), NEW sn \in SeqNums
    PROVE  LET k2 == ParseAck(k, sn) IN
           /\ Fine(k2) /\ SameReceiver(k, k2) /\ k2.acklist = k.acklist
           /\ k2.snd_nxt = k.snd_nxt
           /\ \A x \in SeqNums : Has(k.snd_buf, x) => Has(k2.snd_buf, x) \/ x = sn
<1> DEFINE at == CHOOSE i \in DOMAIN k.snd_buf : k.snd_buf[i].sn = sn
           buf == RemoveAt(k.snd_buf, at)
           k2 == [k EXCEPT !.snd_buf = buf]
           found == InFlight(k, sn) /\ \E i \in DOMAIN k.snd_buf : k.snd_buf[i].sn = sn
           nxt == k.snd_nxt
<1>1. /\ k \in Blocks /\ nxt \in SeqNums /\ k.snd_una \in SeqNums /\ k.snd_buf \in Seq(Held)
      /\ SendSide(nxt, k.snd_una, k.snd_buf) /\ Len(k.snd_buf) \in Nat /\ DOMAIN k.snd_buf = 1 .. Len(k.snd_buf)
  <2>1. k \in Blocks /\ SendSide(nxt, k.snd_una, k.snd_buf)
    BY DEF Fine
  <2>2. nxt \in SeqNums /\ k.snd_una \in SeqNums /\ k.snd_buf \in Seq(Held)
    BY <2>1 DEF Blocks
  <2> QED BY <2>1, <2>2
<1>2. ParseAck(k, sn) = IF found THEN k2 ELSE k
  BY Zenon DEF ParseAck
<1>3. CASE ~found
  BY <1>2, <1>3 DEF SameReceiver
<1>4. CASE found
  <2>1. at \in 1 .. Len(k.snd_buf) /\ k.snd_buf[at].sn = sn
    BY <1>1, <1>4
  <2> HIDE DEF at, found
  <2> DEFINE n == Len(k.snd_buf)
  <2>2. /\ buf \in Seq(Held) /\ Len(buf) = n - 1
        /\ \A i \in 1 .. n - 1 : buf[i] = IF i < at THEN k.snd_buf[i] ELSE k.snd_buf[i + 1]
    BY <1>1, <2>1, RemoveAtFact
  <2> HIDE DEF buf
  <2>3. SendSide(nxt, k.snd_una, buf)
    <3> DEFINE f == [i \in 1 .. Len(buf) |-> IF i < at THEN i ELSE i + 1]
    <3>1. f \in [1 .. Len(buf) -> 1 .. Len(k.snd_buf)]
      BY <1>1, <2>1, <2>2
    <3>2. \A i, j \in 1 .. Len(buf) : i < j => f[i] < f[j]
      BY <1>1, <2>1, <2>2
    <3>3. \A i \in 1 .. Len(buf) : buf[i].sn = k.snd_buf[f[i]].sn
      BY <2>2
    <3> HIDE DEF f
    <3> QED BY <1>1, <2>2, <3>1, <3>2, <3>3, SubSide
  <2>4. /\ k2 \in Blocks /\ SameReceiver(k, k2) /\ k2.acklist = k.acklist /\ k2.snd_nxt = k.snd_nxt
        /\ k2.snd_una = k.snd_una /\ k2.snd_buf = buf
    BY <1>1, <2>2 DEF Blocks, SameReceiver
  <2>5. Fine(k2)
    BY <2>3, <2>4 DEF Fine, SameReceiver
  <2>6. ASSUME NEW x \in SeqNums, Has(k.snd_buf, x), x # sn PROVE Has(buf, x)
    <3>1. PICK i \in 1 .. n : k.snd_buf[i].sn = x
      BY <2>6 DEF Has
    <3>2. i # at
      BY <2>1, <2>6, <3>1
    <3>3. CASE i < at
      <4>1. i \in 1 .. n - 1 /\ buf[i].sn = x
        BY <1>1, <2>1, <2>2, <3>1, <3>3
      <4> QED BY <2>2, <4>1 DEF Has
    <3>4. CASE i > at
      <4>1. i - 1 \in 1 .. n - 1 /\ ~ (i - 1 < at) /\ (i - 1) + 1 = i
        BY <1>1, <2>1, <3>4
      <4>2. buf[i - 1].sn = x
        BY <2>2, <3>1, <4>1
      <4> QED BY <2>2, <4>1, <4>2 DEF Has
    <3> QED BY <2>1, <3>2, <3>3, <3>4
  <2> HIDE DEF k2
  <2> QED BY <1>2, <1>4, <2>4, <2>5, <2>6
<1> QED BY <1>3, <1>4

-----------------------------------------------------------------------------
(* One segment of a packet, by itself                                      *)

\* The fields of a segment.
LEMMA SegIs ==
    ASSUME NEW seg \in Segs
    PROVE  /\ seg.cmd \in {"PUSH", "DUPS", "ACK", "WASK", "WINS"} /\ seg.frg \in Frgs /\ seg.wnd \in Nat
           /\ seg.sn \in SeqNums /\ seg.una \in SeqNums /\ seg.data \in Chunk
BY DEF Segs

\* The fields of a control block.
LEMMA BlockIs ==
    ASSUME NEW k, Fine(k)
    PROVE  /\ k \in Blocks /\ k.snd_nxt \in SeqNums /\ k.snd_una \in SeqNums /\ k.rcv_nxt \in SeqNums
           /\ k.snd_buf \in Seq(Held) /\ k.rcv_buf \in Seq(Kept) /\ k.acklist \in Seq(SeqNums)
<1>1. k \in Blocks
  BY DEF Fine
<1> QED BY <1>1 DEF Blocks

\* What is read from the wire is a number of the counter.
LEMMA DecodedIn ==
    ASSUME NEW base \in SeqNums, NEW x \in SeqNums
    PROVE  GetId(base, Short(x)) \in SeqNums
BY ShortIs, GetIdIn

\* The window and what the peer has.
LEMMA HeadFact ==
    ASSUME Signed, NEW k, Fine(k), NEW seg \in Segs
    PROVE  LET k2 == InputHead(k, seg)
               una == GetId(k.snd_nxt, Short(seg.una)) IN
           /\ Fine(k2) /\ SameReceiver(k, k2) /\ k2.acklist = k.acklist /\ k2.snd_nxt = k.snd_nxt
           /\ 2 * Gap(k.snd_nxt, una) < Word =>
                \A x \in SeqNums : Has(k.snd_buf, x) =>
                    Has(k2.snd_buf, x) \/ Gap(k.snd_nxt, x) > Gap(k.snd_nxt, una)
<1> DEFINE una == GetId(k.snd_nxt, Short(seg.una))
           k0 == [k EXCEPT !.rmt_wnd = seg.wnd]
           k1 == ParseUna(k0, una)
           k2 == ShrinkBuf(k1)
<1>1. k \in Blocks /\ k.snd_nxt \in SeqNums
  BY BlockIs
<1>2. seg.wnd \in Nat /\ seg.una \in SeqNums
  BY SegIs
<1>3. una \in SeqNums
  BY <1>1, <1>2, DecodedIn
<1>4. /\ k0 \in Blocks /\ SameReceiver(k, k0) /\ SameSender(k, k0) /\ k0.acklist = k.acklist
  BY <1>1, <1>2 DEF Blocks, SameReceiver, SameSender
<1>5. InputHead(k, seg) = k2
  BY DEF InputHead
<1> HIDE DEF k0, una
<1>6. Fine(k0)
  BY <1>4 DEF Fine, SameReceiver, SameSender
<1>7. /\ Fine(k1) /\ SameReceiver(k0, k1) /\ k1.acklist = k0.acklist /\ k1.snd_nxt = k0.snd_nxt
      /\ 2 * Gap(k0.snd_nxt, una) < Word =>
            \A x \in SeqNums : Has(k0.snd_buf, x) =>
                Has(k1.snd_buf, x) \/ Gap(k0.snd_nxt, x) > Gap(k0.snd_nxt, una)
  BY <1>3, <1>6, ParseUnaFact
<1> HIDE DEF k1
<1>8. /\ Fine(k2) /\ SameReceiver(k1, k2) /\ k2.acklist = k1.acklist
      /\ k2.snd_nxt = k1.snd_nxt /\ k2.snd_buf = k1.snd_buf
  BY <1>7, ShrinkBufFact
<1> HIDE DEF k2
<1>9. Fine(k2) /\ SameReceiver(k, k2) /\ k2.acklist = k.acklist /\ k2.snd_nxt = k.snd_nxt
  BY <1>4, <1>7, <1>8 DEF SameReceiver, SameSender
<1>10. k0.snd_nxt = k.snd_nxt /\ k0.snd_buf = k.snd_buf /\ k2.snd_buf = k1.snd_buf
  BY <1>4, <1>8 DEF SameSender
<1>11. 2 * Gap(k.snd_nxt, una) < Word =>
            \A x \in SeqNums : Has(k.snd_buf, x) =>
                Has(k2.snd_buf, x) \/ Gap(k.snd_nxt, x) > Gap(k.snd_nxt, una)
  BY <1>7, <1>10
<1> QED BY <1>5, <1>9, <1>11 DEF una

\* An acknowledgement in pvp_ikcp_input.
LEMMA AckFact ==
    ASSUME Signed, NEW k, Fine(k), NEW seg \in Segs
    PROVE  LET k2 == InputAck(k, seg) IN
           /\ Fine(k2) /\ SameReceiver(k, k2) /\ k2.acklist = k.acklist /\ k2.snd_nxt = k.snd_nxt
           /\ \A x \in SeqNums : Has(k.snd_buf, x) =>
                  Has(k2.snd_buf, x) \/ x = GetId(k.snd_nxt, Short(seg.sn))
<1> DEFINE sn == GetId(k.snd_nxt, Short(seg.sn))
           k1 == ParseAck(k, sn)
           k2 == ShrinkBuf(k1)
<1>1. sn \in SeqNums
  BY BlockIs, SegIs, DecodedIn
<1>2. InputAck(k, seg) = k2
  BY DEF InputAck
<1> HIDE DEF sn
<1>3. /\ Fine(k1) /\ SameReceiver(k, k1) /\ k1.acklist = k.acklist /\ k1.snd_nxt = k.snd_nxt
      /\ \A x \in SeqNums : Has(k.snd_buf, x) => Has(k1.snd_buf, x) \/ x = sn
  BY <1>1, ParseAckFact
<1> HIDE DEF k1
<1>4. /\ Fine(k2) /\ SameReceiver(k1, k2) /\ k2.acklist = k1.acklist
      /\ k2.snd_nxt = k1.snd_nxt /\ k2.snd_buf = k1.snd_buf
  BY <1>3, ShrinkBufFact
<1> HIDE DEF k2
<1>5. SameReceiver(k, k2)
  BY <1>3, <1>4 DEF SameReceiver
<1> QED BY <1>2, <1>3, <1>4, <1>5 DEF sn

\* A data segment in pvp_ikcp_input.
LEMMA PushFact ==
    ASSUME Signed, NEW k, Fine(k), NEW seg \in Segs
    PROVE  LET k2 == InputPush(k, seg)
               sn == GetId(k.rcv_nxt, Short(seg.sn)) IN
           /\ Fine(k2) /\ SameSender(k, k2)
           /\ \A nxt \in SeqNums :
                /\ Below(nxt, k)
                /\ 0 < Gap(nxt, sn) /\ 2 * Gap(nxt, sn) < Word
                /\ 2 * Gap(nxt, k.rcv_nxt) < Word
                => TakenIn(nxt, k, k2, sn)
<1> DEFINE sn == GetId(k.rcv_nxt, Short(seg.sn))
           acks == Append(k.acklist, sn)
           ka == [k EXCEPT !.acklist = acks]
           k1 == IF seg.cmd = "PUSH" \/ DupAck THEN ka ELSE k
           new == [sn |-> sn, frg |-> seg.frg, data |-> seg.data]
           out == Diff(sn, Plus(k.rcv_nxt, RcvWnd)) >= 0
           k2 == ParseData(k1, new)
<1>1. k \in Blocks /\ k.rcv_nxt \in SeqNums /\ k.acklist \in Seq(SeqNums)
  BY BlockIs
<1>2. sn \in SeqNums
  BY <1>1, SegIs, DecodedIn
<1>3. InputPush(k, seg) = IF out THEN k ELSE k2
  BY DEF InputPush
<1> HIDE DEF sn
<1>4. new \in Kept /\ new.sn = sn
  <2>1. seg.frg \in Frgs /\ seg.data \in Chunk
    BY SegIs
  <2> QED BY <1>2, <2>1 DEF Kept
<1>5. acks \in Seq(SeqNums) /\ \A i \in 1 .. Len(acks) : acks[i] = sn \/ acks[i] \in Due(k)
  <2>1. acks \in Seq(SeqNums) /\ Len(acks) = Len(k.acklist) + 1 /\ Len(k.acklist) \in Nat
    BY <1>1, <1>2
  <2>2. ASSUME NEW i \in 1 .. Len(acks) PROVE acks[i] = sn \/ acks[i] \in Due(k)
    <3>1. acks[i] = IF i <= Len(k.acklist) THEN k.acklist[i] ELSE sn
      BY <1>1, <1>2, <2>1
    <3>2. CASE i <= Len(k.acklist)
      <4>1. i \in 1 .. Len(k.acklist)
        BY <2>1, <3>2
      <4> HIDE DEF acks
      <4> QED BY <3>1, <3>2, <4>1 DEF Due
    <3>3. CASE ~ (i <= Len(k.acklist))
      <4> HIDE DEF acks
      <4> QED BY <3>1, <3>3
    <3> QED BY <3>2, <3>3
  <2> QED BY <2>1, <2>2
<1> HIDE DEF acks, new
<1>6. /\ ka \in Blocks /\ SameSender(k, ka) /\ SameReceiver(k, ka) /\ ka.acklist = acks
  BY <1>1, <1>5 DEF Blocks, SameSender, SameReceiver
<1> HIDE DEF ka
<1>7. k1 \in Blocks /\ Fine(k1) /\ SameSender(k, k1) /\ SameReceiver(k, k1)
      /\ \A x \in Due(k1) : x \in Due(k) \/ x = sn
  <2>1. Fine(ka)
    BY <1>6 DEF Fine, SameSender, SameReceiver
  <2>2. \A x \in Due(ka) : x \in Due(k) \/ x = sn
    BY <1>5, <1>6 DEF Due
  <2> QED BY <1>1, <1>6, <2>1, <2>2 DEF SameSender, SameReceiver
<1> HIDE DEF k1
<1>8. CASE out
  <2>1. Fine(k) /\ SameSender(k, k)
    BY DEF SameSender
  <2>2. ASSUME NEW nxt \in SeqNums, Below(nxt, k) PROVE TakenIn(nxt, k, k, sn)
    <3>1. Keeps(nxt, k, k)
      BY <1>1, <2>2, KeepsSame
    <3> QED BY <3>1 DEF TakenIn
  <2> QED BY <1>3, <1>8, <2>1, <2>2 DEF sn
<1>9. CASE ~out
  <2>1. k1.rcv_nxt = k.rcv_nxt /\ k1.rcv_buf = k.rcv_buf
    BY <1>7 DEF SameReceiver
  <2>2. ~ (Diff(new.sn, Plus(k1.rcv_nxt, RcvWnd)) >= 0)
    BY <1>4, <1>9, <2>1
  <2>3. /\ Fine(k2) /\ SameSender(k1, k2) /\ k2.acklist = k1.acklist
        /\ \A nxt \in SeqNums :
             /\ Below(nxt, k1) /\ 0 < Gap(nxt, new.sn) /\ 2 * Gap(nxt, new.sn) < Word
             /\ 2 * Gap(nxt, k1.rcv_nxt) < Word
             => Keeps(nxt, k1, k2) /\ Got(nxt, k2, new.sn)
    BY <1>4, <1>7, <2>2, ParseDataFact
  <2> HIDE DEF k2
  <2>4. Fine(k2) /\ SameSender(k, k2)
    BY <1>7, <2>3 DEF SameSender
  <2>5. ASSUME NEW nxt \in SeqNums, Below(nxt, k), 0 < Gap(nxt, sn), 2 * Gap(nxt, sn) < Word,
               2 * Gap(nxt, k.rcv_nxt) < Word
        PROVE  TakenIn(nxt, k, k2, sn)
    <3>1. Below(nxt, k1)
      BY <2>1, <2>5 DEF Below
    <3>2. Keeps(nxt, k1, k2) /\ Got(nxt, k2, sn)
      BY <1>4, <2>1, <2>3, <2>5, <3>1
    <3>3. k2 \in Blocks
      BY <2>3 DEF Fine
    <3>4. Keeps(nxt, k, k1)
      BY <1>1, <1>7, <2>1, <2>5, KeepsSame
    <3>5. Keeps(nxt, k, k2)
      BY <1>1, <1>7, <3>2, <3>3, <3>4, KeepsTrans
    <3>6. \A x \in Due(k2) : x \in Due(k) \/ x = sn
      BY <1>7, <2>3 DEF Due
    <3> QED BY <3>2, <3>5, <3>6 DEF TakenIn
  <2> QED BY <1>3, <1>9, <2>4, <2>5 DEF sn
<1> QED BY <1>8, <1>9

-----------------------------------------------------------------------------
(* The two ends together                                                   *)

\* Together the windows are no more than half the range of a number on the wire.
Wide == SndWnd + RcvWnd <= Half

\* The windows are narrow enough for every comparison.
LEMMA WideFact ==
    ASSUME Wide
    PROVE  Signed /\ SndWnd < Half /\ RcvWnd < Half /\ 4 * Half <= Word
BY Sizes DEF Wide, Signed

\* What the sender k has used and the receiver p has not passed is held.
Covers(k, p) ==
    \A x \in SeqNums :
        0 < Gap(k.snd_nxt, x) /\ Gap(k.snd_nxt, x) <= Gap(k.snd_nxt, p.rcv_nxt)
            => Has(k.snd_buf, x) \/ Has(p.rcv_buf, x)

\* What the receiver p has and has not of the numbers of the sender k.
Joined(k, p) == Below(k.snd_nxt, p) /\ Covers(k, p)

\* A number that p acknowledges, or has acknowledged, to k.
Settled(k, p, x) == Got(k.snd_nxt, p, x) /\ 2 * Gap(k.snd_nxt, x) < Word

\* p acknowledges only what it has.
Honest(k, p) == \A x \in Due(p) : Settled(k, p, x)

\* A segment on its way to k from p.
Comes(k, p, seg) ==
    /\ Gap(k.snd_nxt, p.rcv_nxt) <= Gap(k.snd_nxt, seg.una)
    /\ 2 * Gap(k.snd_nxt, seg.una) < Word
    /\ seg.cmd = "ACK" => Settled(k, p, seg.sn)
    /\ seg.cmd \in {"PUSH", "DUPS"} =>
         0 < Gap(p.snd_nxt, seg.sn) /\ 2 * Gap(p.snd_nxt, seg.sn) < Word

\* k, hearing from p, has become k2.
Heard(k, p, k2) ==
    /\ Fine(k2) /\ k2.snd_nxt = k.snd_nxt
    /\ Covers(k2, p) /\ Keeps(p.snd_nxt, k, k2) /\ Honest(p, k2)

\* How far the receiver may be behind.
LEMMA CloseFact ==
    ASSUME Signed, NEW k, NEW p, Fine(k), Fine(p), Joined(k, p)
    PROVE  Gap(k.snd_nxt, p.rcv_nxt) \in Nat /\ Gap(k.snd_nxt, p.rcv_nxt) <= SndWnd + RcvWnd
<1> DEFINE nxt == k.snd_nxt
           g == Gap(nxt, p.rcv_nxt)
           x == Plus(p.rcv_nxt, RcvWnd)
<1>1. /\ nxt \in SeqNums /\ p.rcv_nxt \in SeqNums /\ g \in Nat /\ k.snd_una \in SeqNums
      /\ k.snd_buf \in Seq(Held) /\ p.rcv_buf \in Seq(Kept)
      /\ SendSide(nxt, k.snd_una, k.snd_buf) /\ RecvSide(p.rcv_nxt, p.rcv_buf)
  BY BlockIs, GapNat DEF Fine
<1>2. RcvWnd \in SeqNums /\ RcvWnd \in Nat /\ SndWnd \in Nat
  BY Sizes DEF Signed
<1>3. CASE g <= RcvWnd
  <2> HIDE DEF g
  <2>1. g <= SndWnd + RcvWnd
    BY <1>1, <1>2, <1>3
  <2> QED BY <1>1, <2>1 DEF g
<1>4. CASE RcvWnd < g
  <2>1. x \in SeqNums /\ Gap(nxt, x) = g - RcvWnd /\ Gap(x, p.rcv_nxt) = RcvWnd
    <3> DEFINE y == p.rcv_nxt
    <3>1. y \in SeqNums /\ nxt \in SeqNums /\ RcvWnd \in SeqNums /\ RcvWnd <= Gap(nxt, y)
      BY <1>1, <1>2, <1>4
    <3>2. x \in SeqNums
      BY <3>1, PlusIs
    <3> HIDE DEF y
    <3>3. Gap(nxt, Plus(y, RcvWnd)) = Gap(nxt, y) - RcvWnd
      BY <3>1, GapPlus
    <3>4. Gap(Plus(y, RcvWnd), y) = RcvWnd
      BY <3>1, GapPlus
    <3> QED BY <3>2, <3>3, <3>4 DEF y
  <2>2. 0 < Gap(nxt, x) /\ Gap(nxt, x) <= Gap(nxt, p.rcv_nxt)
    BY <1>1, <1>2, <1>4, <2>1
  <2> HIDE DEF x
  <2>3. Has(k.snd_buf, x) \/ Has(p.rcv_buf, x)
    BY <2>1, <2>2 DEF Joined, Covers
  <2>4. ~Has(p.rcv_buf, x)
    <3> SUFFICES ASSUME NEW i \in 1 .. Len(p.rcv_buf), p.rcv_buf[i].sn = x PROVE FALSE
      BY DEF Has
    <3>1. Gap(x, p.rcv_nxt) < RcvWnd
      BY <1>1 DEF RecvSide
    <3> QED BY <1>2, <2>1, <3>1
  <2>5. PICK i \in 1 .. Len(k.snd_buf) : k.snd_buf[i].sn = x
    BY <2>3, <2>4 DEF Has
  <2>6. Gap(nxt, x) <= SndWnd
    BY <1>1, <2>5, SideNats
  <2> HIDE DEF g
  <2>7. g <= SndWnd + RcvWnd
    BY <1>1, <1>2, <2>1, <2>6
  <2> QED BY <1>1, <2>7 DEF g
<1> QED BY <1>1, <1>2, <1>3, <1>4

\* get_id of a number less than Half behind the base.
LEMMA DecodeBehind ==
    ASSUME NEW base \in SeqNums, NEW x \in SeqNums, Gap(base, x) < Half
    PROVE  GetId(base, Short(x)) = x
<1> DEFINE g == Gap(base, x)
<1>1. g \in Nat /\ Half \in Nat \ {0} /\ Word \in Nat /\ 4 * Half <= Word
  BY GapNat, Sizes
<1>2. Gap(base, base) = 0 /\ 2 * g < Word
  BY <1>1, GapIs
<1>3. Diff(x, base) = Gap(base, base) - g
  BY <1>1, <1>2, DiffBehind
<1>4. g < Half
  OBVIOUS
<1> HIDE DEF g
<1>5. Diff(x, base) < Half /\ Diff(x, base) > -Half
  BY <1>1, <1>2, <1>3, <1>4
<1> QED BY <1>5, GetIdExact

\* get_id of a data segment: the receiver and the segment are both behind snd_nxt.
LEMMA DecodeData ==
    ASSUME NEW nxt \in SeqNums, NEW base \in SeqNums, NEW x \in SeqNums,
           Gap(nxt, base) <= Half, 0 < Gap(nxt, x), Gap(nxt, x) < Half
    PROVE  GetId(base, Short(x)) = x
<1> DEFINE g == Gap(nxt, base)
           h == Gap(nxt, x)
<1>1. g \in Nat /\ h \in Nat /\ Half \in Nat \ {0} /\ Word \in Nat /\ 4 * Half <= Word
  BY GapNat, Sizes
<1>2. 2 * g < Word /\ 2 * h < Word
  BY <1>1
<1>3. Diff(x, base) = g - h
  BY <1>2, DiffBehind
<1>4. g <= Half /\ 0 < h /\ h < Half
  OBVIOUS
<1> HIDE DEF g, h
<1>5. Diff(x, base) < Half /\ Diff(x, base) > -Half
  BY <1>1, <1>3, <1>4
<1> QED BY <1>5, GetIdExact

\* A segment that is not too old is decoded as it was sent.
LEMMA SegDecodes ==
    ASSUME Wide, NEW k, NEW p, Fine(k), Fine(p), Joined(p, k), NEW seg \in Segs,
           Comes(k, p, seg), Young(k, p, seg)
    PROVE  /\ Gap(p.snd_nxt, k.rcv_nxt) <= Half
           /\ Gap(k.snd_nxt, seg.una) < Half /\ GetId(k.snd_nxt, Short(seg.una)) = seg.una
           /\ seg.cmd = "ACK" => Gap(k.snd_nxt, seg.sn) < Half /\ GetId(k.snd_nxt, Short(seg.sn)) = seg.sn
           /\ seg.cmd \in {"PUSH", "DUPS"} =>
                Gap(p.snd_nxt, seg.sn) < Half /\ GetId(k.rcv_nxt, Short(seg.sn)) = seg.sn
<1>1. /\ k.snd_nxt \in SeqNums /\ k.rcv_nxt \in SeqNums /\ p.snd_nxt \in SeqNums
      /\ seg.una \in SeqNums /\ seg.sn \in SeqNums
  BY BlockIs, SegIs
<1>2. Signed
  BY WideFact
<1>3. Gap(p.snd_nxt, k.rcv_nxt) <= Half
  <2> DEFINE g == Gap(p.snd_nxt, k.rcv_nxt)
  <2>1. g \in Nat /\ g <= SndWnd + RcvWnd
    BY <1>2, CloseFact
  <2> HIDE DEF g
  <2>2. g <= Half
    BY <2>1, Sizes DEF Wide
  <2> QED BY <2>2 DEF g
<1>4. ASSUME NEW b \in SeqNums, NEW x \in SeqNums, 2 * Gap(b, x) < Word, Diff(b, x) < Half
      PROVE  Gap(b, x) < Half
  BY <1>4, GapIs
<1>5. Gap(k.snd_nxt, seg.una) < Half
  BY <1>1, <1>4 DEF Comes, Young
<1>6. ASSUME seg.cmd = "ACK" PROVE Gap(k.snd_nxt, seg.sn) < Half
  BY <1>1, <1>4, <1>6 DEF Comes, Young, Settled
<1>7. ASSUME seg.cmd \in {"PUSH", "DUPS"} PROVE Gap(p.snd_nxt, seg.sn) < Half /\ 0 < Gap(p.snd_nxt, seg.sn)
  BY <1>1, <1>4, <1>7 DEF Comes, Young
<1> QED BY <1>1, <1>3, <1>5, <1>6, <1>7, DecodeBehind, DecodeData

-----------------------------------------------------------------------------
(* One segment of a packet, from the other end                             *)

\* One segment of a packet.
Reading == {r \in [k : Blocks, acked : SUBSET SeqNums] : Fine(r.k)}

\* The commands of a segment.
LEMMA InputSegCases ==
    ASSUME NEW r, NEW seg \in Segs, NEW k, k = InputHead(r.k, seg)
    PROVE  /\ seg.cmd = "ACK" => InputSeg(r, seg) = [k |-> InputAck(k, seg),
                                     acked |-> r.acked \cup {GetId(k.snd_nxt, Short(seg.sn))}]
           /\ seg.cmd \in {"PUSH", "DUPS"} => InputSeg(r, seg) = [r EXCEPT !.k = InputPush(k, seg)]
           /\ seg.cmd = "WASK" => InputSeg(r, seg) = [r EXCEPT !.k = [k EXCEPT !.probe = @ \cup {"TELL"}]]
           /\ seg.cmd = "WINS" => InputSeg(r, seg) = [r EXCEPT !.k = k]
BY DEF InputSeg

\* A control block stays sound with whatever segment.
LEMMA ReadingFact ==
    ASSUME Signed, NEW r \in Reading, NEW seg \in Segs
    PROVE  InputSeg(r, seg) \in Reading
<1> DEFINE k == InputHead(r.k, seg)
           told == k.probe \cup {"TELL"}
           kt == [k EXCEPT !.probe = told]
<1>1. Fine(r.k) /\ r \in [k : Blocks, acked : SUBSET SeqNums]
  BY DEF Reading
<1>2. Fine(k)
  BY <1>1, HeadFact
<1> HIDE DEF k
<1>3. seg.cmd \in {"PUSH", "DUPS", "ACK", "WASK", "WINS"} /\ seg.sn \in SeqNums
  BY SegIs
<1>4. ASSUME NEW k2, Fine(k2) PROVE [r EXCEPT !.k = k2] \in Reading
  <2>1. k2 \in Blocks
    BY <1>4 DEF Fine
  <2> QED BY <1>1, <1>4, <2>1 DEF Reading
<1>5. CASE seg.cmd = "ACK"
  <2> DEFINE k2 == InputAck(k, seg)
             acked == r.acked \cup {GetId(k.snd_nxt, Short(seg.sn))}
  <2>1. Fine(k2)
    BY <1>2, AckFact
  <2>2. k2 \in Blocks
    BY <2>1 DEF Fine
  <2>3. GetId(k.snd_nxt, Short(seg.sn)) \in SeqNums
    BY <1>2, <1>3, BlockIs, DecodedIn
  <2>4. acked \in SUBSET SeqNums
    BY <1>1, <2>3
  <2>5. InputSeg(r, seg) = [k |-> k2, acked |-> acked]
    BY <1>5, InputSegCases DEF k
  <2> HIDE DEF k2, acked
  <2> QED BY <2>1, <2>2, <2>4, <2>5 DEF Reading
<1>6. CASE seg.cmd \in {"PUSH", "DUPS"}
  <2>1. Fine(InputPush(k, seg))
    BY <1>2, PushFact
  <2>2. InputSeg(r, seg) = [r EXCEPT !.k = InputPush(k, seg)]
    BY <1>6, InputSegCases DEF k
  <2> QED BY <1>4, <2>1, <2>2
<1>7. CASE seg.cmd = "WASK"
  <2>1. k \in Blocks
    BY <1>2 DEF Fine
  <2>2. told \in SUBSET {"SEND", "TELL"}
    BY <2>1 DEF Blocks
  <2>3. InputSeg(r, seg) = [r EXCEPT !.k = kt]
    BY <1>7, InputSegCases DEF k
  <2> HIDE DEF told
  <2>4. /\ kt \in Blocks /\ SameSender(k, kt) /\ SameReceiver(k, kt)
    BY <2>1, <2>2 DEF Blocks, SameSender, SameReceiver
  <2> HIDE DEF kt
  <2>5. Fine(kt)
    BY <1>2, <2>4 DEF Fine, SameSender, SameReceiver
  <2> QED BY <1>4, <2>3, <2>5
<1>8. CASE seg.cmd = "WINS"
  <2>1. InputSeg(r, seg) = [r EXCEPT !.k = k]
    BY <1>8, InputSegCases DEF k
  <2> QED BY <1>2, <1>4, <2>1
<1> QED BY <1>3, <1>5, <1>6, <1>7, <1>8

\* A change of the rest of the block.
LEMMA HeardSame ==
    ASSUME NEW k, NEW p, NEW k1, NEW k2, Fine(k), Fine(p), Heard(k, p, k1), k2 \in Blocks,
           SameSender(k1, k2), SameReceiver(k1, k2), k2.acklist = k1.acklist
    PROVE  Heard(k, p, k2)
<1>1. Fine(k2)
  BY DEF Heard, Fine, SameSender, SameReceiver
<1>2. Covers(k2, p) /\ k2.snd_nxt = k.snd_nxt
  BY DEF Heard, Covers, SameSender
<1>3. Keeps(p.snd_nxt, k, k2) /\ \A x \in SeqNums : Got(p.snd_nxt, k1, x) <=> Got(p.snd_nxt, k2, x)
  BY DEF Heard, Keeps, Below, Got, SameReceiver
<1>4. Honest(p, k2)
  <2>1. Due(k2) = Due(k1)
    BY DEF Due
  <2>2. \A x : Got(p.snd_nxt, k1, x) <=> Got(p.snd_nxt, k2, x)
    BY DEF Got, SameReceiver
  <2> QED BY <2>1, <2>2 DEF Heard, Honest, Settled
<1> QED BY <1>1, <1>2, <1>3, <1>4 DEF Heard

\* One segment from the other end loses nothing and acknowledges nothing too much.
LEMMA HeardSegFact ==
    ASSUME Wide, NEW k0, NEW p, Fine(k0), Fine(p), Joined(p, k0),
           NEW r \in Reading, Heard(k0, p, r.k), NEW seg \in Segs, Comes(k0, p, seg), Young(k0, p, seg)
    PROVE  Heard(k0, p, InputSeg(r, seg).k)
<1> DEFINE k == InputHead(r.k, seg)
           told == k.probe \cup {"TELL"}
           kt == [k EXCEPT !.probe = told]
           nxt == k0.snd_nxt
           pn == p.snd_nxt
<1>1. Fine(r.k) /\ r.k.snd_nxt = nxt /\ Signed /\ r \in [k : Blocks, acked : SUBSET SeqNums]
  BY WideFact DEF Reading, Heard
<1>2. /\ nxt \in SeqNums /\ k0.rcv_nxt \in SeqNums /\ pn \in SeqNums /\ k0 \in Blocks
      /\ p.rcv_nxt \in SeqNums /\ r.k \in Blocks
  BY <1>1, BlockIs
<1>3. /\ Gap(pn, k0.rcv_nxt) <= Half
      /\ GetId(nxt, Short(seg.una)) = seg.una
      /\ seg.cmd = "ACK" => GetId(nxt, Short(seg.sn)) = seg.sn
      /\ seg.cmd \in {"PUSH", "DUPS"} => Gap(pn, seg.sn) < Half
  BY SegDecodes
<1>4. /\ seg.cmd \in {"PUSH", "DUPS", "ACK", "WASK", "WINS"} /\ seg.sn \in SeqNums /\ seg.una \in SeqNums
  BY SegIs
\* What una tells has arrived.
<1>5. /\ Fine(k) /\ SameReceiver(r.k, k) /\ k.acklist = r.k.acklist /\ k.snd_nxt = nxt
      /\ \A x \in SeqNums : Has(r.k.snd_buf, x) => Has(k.snd_buf, x) \/ Gap(nxt, x) > Gap(nxt, seg.una)
  BY <1>1, <1>3, HeadFact DEF Comes
<1> HIDE DEF k
<1>6. k \in Blocks
  BY <1>5 DEF Fine
<1>7. Covers(k, p)
  <2> SUFFICES ASSUME NEW x \in SeqNums, 0 < Gap(nxt, x), Gap(nxt, x) <= Gap(nxt, p.rcv_nxt)
               PROVE  Has(k.snd_buf, x) \/ Has(p.rcv_buf, x)
    BY <1>5 DEF Covers
  <2>1. Has(r.k.snd_buf, x) \/ Has(p.rcv_buf, x)
    BY <1>1 DEF Heard, Covers
  <2>2. ~ (Gap(nxt, x) > Gap(nxt, seg.una))
    <3> DEFINE a == Gap(nxt, x)
               b == Gap(nxt, p.rcv_nxt)
               c == Gap(nxt, seg.una)
    <3>1. a \in Nat /\ b \in Nat /\ c \in Nat
      BY <1>2, <1>4, GapNat
    <3>2. a <= b /\ b <= c
      BY DEF Comes
    <3> HIDE DEF a, b, c
    <3>3. ~ (a > c)
      BY <3>1, <3>2
    <3> QED BY <3>3 DEF a, c
  <2> QED BY <1>5, <2>1, <2>2
<1>8. ASSUME NEW k2 \in Blocks, Fine(k2), SameReceiver(k, k2), k2.acklist = k.acklist, k2.snd_nxt = nxt, Covers(k2, p)
      PROVE  Heard(k0, p, k2)
  <2>1. SameReceiver(r.k, k2) /\ k2.acklist = r.k.acklist
    BY <1>5, <1>8 DEF SameReceiver
  <2>2. Keeps(pn, k0, k2)
    BY <2>1 DEF Heard, Keeps, Below, Got, SameReceiver
  <2>3. Honest(p, k2)
    <3>1. Due(k2) = Due(r.k)
      BY <2>1 DEF Due
    <3>2. \A x : Got(pn, r.k, x) <=> Got(pn, k2, x)
      BY <2>1 DEF Got, SameReceiver
    <3> QED BY <3>1, <3>2 DEF Heard, Honest, Settled
  <2> QED BY <1>8, <2>2, <2>3 DEF Heard
<1>9. Heard(k0, p, k)
  BY <1>5, <1>6, <1>7, <1>8 DEF SameReceiver
<1>10. CASE seg.cmd = "ACK"
  <2> DEFINE k2 == InputAck(k, seg)
  <2>1. /\ Fine(k2) /\ SameReceiver(k, k2) /\ k2.acklist = k.acklist /\ k2.snd_nxt = k.snd_nxt
        /\ \A x \in SeqNums : Has(k.snd_buf, x) => Has(k2.snd_buf, x) \/ x = seg.sn
    BY <1>1, <1>3, <1>5, <1>10, AckFact
  <2>2. InputSeg(r, seg).k = k2
    BY <1>10, InputSegCases DEF k
  <2> HIDE DEF k2
  <2>3. k2 \in Blocks
    BY <2>1 DEF Fine
  <2>4. Covers(k2, p)
    <3> SUFFICES ASSUME NEW x \in SeqNums, 0 < Gap(nxt, x), Gap(nxt, x) <= Gap(nxt, p.rcv_nxt)
                 PROVE  Has(k2.snd_buf, x) \/ Has(p.rcv_buf, x)
      BY <1>5, <2>1 DEF Covers
    <3>1. Has(k.snd_buf, x) \/ Has(p.rcv_buf, x)
      BY <1>5, <1>7 DEF Covers
    <3>2. CASE x = seg.sn
      <4>1. Got(nxt, p, x)
        BY <1>10, <3>2 DEF Comes, Settled
      <4> DEFINE a == Gap(nxt, x)
                 b == Gap(nxt, p.rcv_nxt)
      <4>2. a \in Nat /\ b \in Nat /\ a <= b
        BY <1>2, GapNat
      <4>3. a > b \/ Has(p.rcv_buf, x)
        BY <4>1 DEF Got
      <4> HIDE DEF a, b
      <4> QED BY <4>2, <4>3
    <3> QED BY <2>1, <3>1, <3>2
  <2> QED BY <1>5, <1>8, <2>1, <2>2, <2>3, <2>4
<1>11. CASE seg.cmd \in {"PUSH", "DUPS"}
  <2> DEFINE k2 == InputPush(k, seg)
  <2>1. Keeps(pn, k0, k) /\ Honest(p, k)
    BY <1>9 DEF Heard
  <2>2. Below(pn, k) /\ k.rcv_nxt \in SeqNums
    BY <1>5, <2>1, BlockIs DEF Keeps
  <2> DEFINE g == Gap(pn, k.rcv_nxt)
             g0 == Gap(pn, k0.rcv_nxt)
             s == Gap(pn, seg.sn)
  <2>3. g \in Nat /\ g0 \in Nat /\ s \in Nat /\ g <= g0 /\ g0 <= Half /\ 0 < s /\ s < Half
    BY <1>2, <1>3, <1>4, <1>11, <2>1, <2>2, GapNat DEF Keeps, Comes
  <2>4. g <= Half /\ 2 * g < Word /\ 2 * s < Word
    <3> HIDE DEF g, g0, s
    <3> QED BY <2>3, Sizes
  <2>5. GetId(k.rcv_nxt, Short(seg.sn)) = seg.sn
    BY <1>2, <1>4, <2>2, <2>3, <2>4, DecodeData
  <2>6. /\ Fine(k2) /\ SameSender(k, k2) /\ TakenIn(pn, k, k2, seg.sn)
    BY <1>1, <1>2, <1>5, <2>2, <2>3, <2>4, <2>5, PushFact
  <2>7. InputSeg(r, seg).k = k2
    BY <1>1, <1>11, InputSegCases DEF k
  <2> HIDE DEF k2
  <2>8. k2 \in Blocks
    BY <2>6 DEF Fine
  <2>9. Keeps(pn, k0, k2)
    BY <1>2, <1>6, <2>1, <2>6, <2>8, KeepsTrans DEF TakenIn
  <2>10. Covers(k2, p) /\ k2.snd_nxt = nxt
    BY <1>5, <1>7, <2>6 DEF Covers, SameSender
  <2>11. Honest(p, k2)
    <3> SUFFICES ASSUME NEW x \in Due(k2) PROVE Got(pn, k2, x) /\ 2 * Gap(pn, x) < Word
      BY DEF Honest, Settled
    <3>1. CASE x \in Due(k)
      <4>1. Got(pn, k, x) /\ 2 * Gap(pn, x) < Word
        BY <2>1, <3>1 DEF Honest, Settled
      <4>2. x \in SeqNums
        <5>1. k.acklist \in Seq(SeqNums)
          BY <1>5, BlockIs
        <5> QED BY <3>1, <5>1 DEF Due
      <4> QED BY <2>6, <4>1, <4>2 DEF TakenIn, Keeps
    <3>2. CASE ~ (x \in Due(k))
      BY <2>4, <2>6, <3>2 DEF TakenIn
    <3> QED BY <3>1, <3>2
  <2> QED BY <2>6, <2>7, <2>9, <2>10, <2>11 DEF Heard
<1>12. CASE seg.cmd = "WASK"
  <2>1. told \in SUBSET {"SEND", "TELL"}
    BY <1>6 DEF Blocks
  <2>2. InputSeg(r, seg).k = kt
    BY <1>1, <1>12, InputSegCases DEF k
  <2> HIDE DEF told
  <2>3. /\ kt \in Blocks /\ SameSender(k, kt) /\ SameReceiver(k, kt) /\ kt.acklist = k.acklist
    BY <1>6, <2>1 DEF Blocks, SameSender, SameReceiver
  <2> HIDE DEF kt
  <2> QED BY <1>9, <2>2, <2>3, HeardSame
<1>13. CASE seg.cmd = "WINS"
  <2>1. InputSeg(r, seg).k = k
    BY <1>1, <1>13, InputSegCases DEF k
  <2> QED BY <1>9, <2>1
<1> QED BY <1>4, <1>10, <1>11, <1>12, <1>13

\* What every segment keeps, a packet keeps.
LEMMA InputFold ==
    ASSUME NEW T, NEW S, NEW packet \in Seq(S), NEW base \in T,
           \A r \in T, seg \in S : InputSeg(r, seg) \in T
    PROVE  FoldLeft(InputSeg, base, packet) \in T
<1> DEFINE n == Len(packet)
           op(x, y) == InputSeg(x, y)
           e(g, A) == IF A = {} THEN base ELSE op(g[A \ {Max(A)}], packet[Max(A)])
           step == [x \in T \X (1 .. n) |-> op(x[1], packet[x[2]])]
           h == CHOOSE g : g = [A \in SUBSET (DOMAIN packet) |-> e(g, A)]
<1>0. base \in T
  OBVIOUS
<1>1. n \in Nat /\ DOMAIN packet = 1 .. n
  OBVIOUS
<1>2. ASSUME NEW x \in T, NEW i \in 1 .. n PROVE op(x, packet[i]) \in T
  <2>1. packet[i] \in S
    OBVIOUS
  <2> QED BY <2>1
<1>3. FoldLeft(InputSeg, base, packet) = h[DOMAIN packet]
  BY Zenon DEF FoldLeft, MapThenFoldSet
<1> HIDE DEF n, op
<1>4. step \in [T \X (1 .. n) -> T]
  BY <1>2
<1>5. PICK g \in [SUBSET (1 .. n) -> T] : Iterates(g, n, base, step)
  <2> HIDE DEF step
  <2> QED BY <1>0, <1>1, <1>4, IteratesExist
<1>6. ASSUME NEW A \in SUBSET (1 .. n), A # {}
      PROVE  step[<<g[A \ {Max(A)}], Max(A)>>] = op(g[A \ {Max(A)}], packet[Max(A)])
  <2>1. Max(A) \in 1 .. n /\ A \ {Max(A)} \in SUBSET (1 .. n)
    BY <1>1, <1>6, Before
  <2> QED BY <2>1
<1>7. g = [A \in SUBSET (DOMAIN packet) |-> e(g, A)]
  <2>1. \A A \in SUBSET (1 .. n) : A # {} =>
            step[<<g[A \ {Max(A)}], Max(A)>>] = op(g[A \ {Max(A)}], packet[Max(A)])
    BY <1>6
  <2> HIDE DEF step
  <2> QED BY <1>1, <1>5, <2>1 DEF Iterates
<1>8. h = [A \in SUBSET (DOMAIN packet) |-> e(h, A)]
  <2> HIDE DEF e
  <2> QED BY <1>7, Zenon
<1> HIDE DEF h
<1>9. \A A \in SUBSET (1 .. n) : h[A] = e(h, A)
  <2>1. SUBSET (DOMAIN packet) = SUBSET (1 .. n)
    BY <1>1
  <2> HIDE DEF e
  <2> QED BY <1>8, <2>1
<1>10. h[{}] = base
  <2>1. {} \in SUBSET (1 .. n)
    OBVIOUS
  <2> QED BY <1>9, <2>1
<1>11. ASSUME NEW i \in 1 .. n PROVE h[1 .. i] = op(h[1 .. (i - 1)], packet[i])
  <2>1. 1 .. i \in SUBSET (1 .. n) /\ i \in Nat /\ i > 0
    BY <1>1
  <2>2. Max(1 .. i) = i /\ (1 .. i) \ {i} = 1 .. (i - 1) /\ 1 .. i # {}
    BY <2>1, UpTo
  <2> QED BY <1>9, <2>1, <2>2
<1>12. h[1 .. n] \in T
  <2>1. \A i \in 1 .. n : h[1 .. (i - 1)] \in T => h[1 .. i] \in T
    BY <1>2, <1>11
  <2>2. n \in 0 .. n
    BY <1>1
  <2> QED BY <1>0, <1>1, <1>10, <2>1, <2>2, FoldIn
<1> QED BY <1>1, <1>3, <1>12

-----------------------------------------------------------------------------
(* A packet                                                                *)

\* A change of the segments in flight that leaves their numbers.
LEMMA SameNumbers ==
    ASSUME NEW k, Fine(k), NEW buf \in [1 .. Len(k.snd_buf) -> Held],
           \A i \in 1 .. Len(k.snd_buf) : buf[i].sn = k.snd_buf[i].sn
    PROVE  /\ buf \in Seq(Held) /\ SendSide(k.snd_nxt, k.snd_una, buf)
           /\ \A x : Has(buf, x) <=> Has(k.snd_buf, x)
<1> DEFINE n == Len(k.snd_buf)
<1>1. k.snd_buf \in Seq(Held) /\ SendSide(k.snd_nxt, k.snd_una, k.snd_buf) /\ n \in Nat
  BY BlockIs DEF Fine
<1>2. buf \in Seq(Held) /\ Len(buf) = n
  BY <1>1
<1>3. SendSide(k.snd_nxt, k.snd_una, buf)
  <2> DEFINE f == [i \in 1 .. Len(buf) |-> i]
  <2>1. f \in [1 .. Len(buf) -> 1 .. Len(k.snd_buf)] /\ \A i, j \in 1 .. Len(buf) : i < j => f[i] < f[j]
    BY <1>2
  <2>2. \A i \in 1 .. Len(buf) : buf[i].sn = k.snd_buf[f[i]].sn
    BY <1>2
  <2> HIDE DEF f
  <2> QED BY <1>1, <1>2, <2>1, <2>2, SubSide
<1>4. \A x : Has(buf, x) <=> Has(k.snd_buf, x)
  BY <1>2 DEF Has
<1> QED BY <1>2, <1>3, <1>4

\* k2 differs from k only where the windows do not show.
Alike(k, k2) ==
    /\ k2 \in Blocks /\ SameReceiver(k, k2) /\ k2.acklist = k.acklist
    /\ k2.snd_nxt = k.snd_nxt /\ k2.snd_una = k.snd_una /\ k2.snd_queue = k.snd_queue
    /\ Len(k2.snd_buf) = Len(k.snd_buf)
    /\ \A i \in 1 .. Len(k.snd_buf) : k2.snd_buf[i].sn = k.snd_buf[i].sn

\* Such a change leaves the windows as they are.
LEMMA AlikeFine ==
    ASSUME NEW k, NEW k2, Fine(k), Alike(k, k2)
    PROVE  Fine(k2) /\ \A x : Has(k2.snd_buf, x) <=> Has(k.snd_buf, x)
<1>1. k2.snd_buf \in Seq(Held) /\ k2 \in Blocks
  BY DEF Alike, Blocks
<1>2. k2.snd_buf \in [1 .. Len(k.snd_buf) -> Held]
  BY <1>1 DEF Alike
<1>3. /\ SendSide(k.snd_nxt, k.snd_una, k2.snd_buf) /\ \A x : Has(k2.snd_buf, x) <=> Has(k.snd_buf, x)
  BY <1>2, SameNumbers DEF Alike
<1> QED BY <1>1, <1>3 DEF Fine, Alike, SameReceiver

\* The same, after something heard.
LEMMA AlikeHeard ==
    ASSUME NEW k, NEW p, NEW k1, NEW k2, Fine(k), Fine(p), Heard(k, p, k1), Alike(k1, k2)
    PROVE  Heard(k, p, k2)
<1>1. Fine(k2) /\ \A x : Has(k2.snd_buf, x) <=> Has(k1.snd_buf, x)
  BY AlikeFine DEF Heard
<1>2. Covers(k2, p) /\ k2.snd_nxt = k.snd_nxt
  BY <1>1 DEF Heard, Covers, Alike
<1>3. Keeps(p.snd_nxt, k, k2)
  BY DEF Heard, Keeps, Below, Got, Alike, SameReceiver
<1>4. Honest(p, k2)
  <2>1. Due(k2) = Due(k1)
    BY DEF Due, Alike
  <2>2. \A x : Got(p.snd_nxt, k1, x) <=> Got(p.snd_nxt, k2, x)
    BY DEF Got, Alike, SameReceiver
  <2> QED BY <2>1, <2>2 DEF Heard, Honest, Settled
<1> QED BY <1>1, <1>2, <1>3, <1>4 DEF Heard

\* ikcp_parse_fastack: only counters change.
LEMMA FastackFact ==
    ASSUME NEW k, Fine(k), NEW sn
    PROVE  Alike(k, ParseFastack(k, sn))
<1> DEFINE passed(s) == IF Diff(sn, s.sn) > 0
                        THEN [s EXCEPT !.fastack = Min({@ + 1, FastResend})] ELSE s
           seg(i) == passed(k.snd_buf[i])
           buf == [i \in DOMAIN k.snd_buf |-> seg(i)]
           k2 == [k EXCEPT !.snd_buf = buf]
<1>1. k \in Blocks /\ k.snd_buf \in Seq(Held) /\ DOMAIN k.snd_buf = 1 .. Len(k.snd_buf) /\ Len(k.snd_buf) \in Nat
  BY BlockIs
<1>2. ParseFastack(k, sn) = IF InFlight(k, sn) THEN k2 ELSE k
  BY Zenon DEF ParseFastack
<1>3. ASSUME NEW i \in 1 .. Len(k.snd_buf) PROVE seg(i) \in Held /\ seg(i).sn = k.snd_buf[i].sn
  <2> DEFINE s == k.snd_buf[i]
             f == Min({s.fastack + 1, FastResend})
  <2>1. s \in Held
    BY <1>1
  <2> HIDE DEF s
  <2>2. f \in Nat
    <3>1. s.fastack \in Nat /\ FastResend \in Nat
      BY <2>1, Sizes DEF Held
    <3>2. f = IF s.fastack + 1 <= FastResend THEN s.fastack + 1 ELSE FastResend
      BY <3>1, OfTwo
    <3> HIDE DEF f
    <3> QED BY <3>1, <3>2
  <2> HIDE DEF f
  <2>3. [s EXCEPT !.fastack = f] \in Held /\ [s EXCEPT !.fastack = f].sn = s.sn
    BY <2>1, <2>2 DEF Held
  <2>4. seg(i) = s \/ seg(i) = [s EXCEPT !.fastack = f]
    BY DEF s, f
  <2> HIDE DEF seg
  <2> QED BY <2>1, <2>3, <2>4 DEF s
<1> HIDE DEF seg
<1>4. buf \in Seq(Held) /\ Len(buf) = Len(k.snd_buf) /\ \A i \in 1 .. Len(k.snd_buf) : buf[i] = seg(i)
  BY <1>1, <1>3
<1> HIDE DEF buf
<1>5. k2 \in Blocks /\ k2.snd_buf = buf /\ SameReceiver(k, k2) /\ k2.acklist = k.acklist
      /\ k2.snd_nxt = k.snd_nxt /\ k2.snd_una = k.snd_una /\ k2.snd_queue = k.snd_queue
  BY <1>1, <1>4 DEF Blocks, SameReceiver
<1> HIDE DEF k2
<1>6. Alike(k, k2)
  BY <1>3, <1>4, <1>5 DEF Alike
<1>7. Alike(k, k)
  BY <1>1 DEF Alike, SameReceiver
<1> QED BY <1>2, <1>6, <1>7

\* The windows of congestion.
LEMMA NewWindow ==
    ASSUME NEW k, k \in Blocks, NEW w \in Nat, NEW b \in Nat
    PROVE  [k EXCEPT !.cwnd = w, !.incr = b] \in Blocks /\ Alike(k, [k EXCEPT !.cwnd = w, !.incr = b])
<1> DEFINE k2 == [k EXCEPT !.cwnd = w, !.incr = b]
<1>1. /\ k2 \in Blocks /\ SameReceiver(k, k2) /\ k2.acklist = k.acklist /\ k2.snd_nxt = k.snd_nxt
      /\ k2.snd_una = k.snd_una /\ k2.snd_buf = k.snd_buf /\ k2.snd_queue = k.snd_queue
  BY DEF Blocks, SameReceiver
<1> HIDE DEF k2
<1>2. Alike(k, k2)
  BY <1>1 DEF Alike
<1> QED BY <1>1, <1>2 DEF k2

\* pvp_ikcp_input: the congestion window grows.
LEMMA GrowFact ==
    ASSUME NEW k, k \in Blocks
    PROVE  Alike(k, Grow(k))
<1> DEFINE W(w, b) == [k EXCEPT !.cwnd = w, !.incr = b]
           incr0 == Max({k.incr, Mss})
           a == (Mss * Mss) \div incr0
           c == Mss \div 16
           incr1 == incr0 + a + c
           w1 == IF (k.cwnd + 1) * Mss <= incr1 THEN k.cwnd + 1 ELSE k.cwnd
           slow == [k EXCEPT !.cwnd = @ + 1, !.incr = @ + Mss]
           avoid == [k EXCEPT !.incr = incr1, !.cwnd = IF (@ + 1) * Mss <= incr1 THEN @ + 1 ELSE @]
           k1 == IF k.cwnd < k.ssthresh THEN slow ELSE avoid
           last == [k1 EXCEPT !.cwnd = k.rmt_wnd, !.incr = k.rmt_wnd * Mss]
<1>1. k.cwnd \in Nat /\ k.incr \in Nat /\ k.rmt_wnd \in Nat /\ Mss \in Nat \ {0}
  BY Sizes DEF Blocks
<1>2. incr1 \in Nat
  <2>1. incr0 \in Nat \ {0}
    <3>1. incr0 = IF k.incr <= Mss THEN Mss ELSE k.incr
      <4> DEFINE u == k.incr
      <4>1. u \in Int /\ Mss \in Int
        BY <1>1
      <4> HIDE DEF u
      <4>2. Max({u, Mss}) = IF u <= Mss THEN Mss ELSE u
        BY <4>1, OfTwo
      <4> QED BY <4>2 DEF u
    <3> HIDE DEF incr0
    <3> QED BY <1>1, <3>1
  <2> HIDE DEF incr0
  <2> DEFINE sq == Mss * Mss
  <2>2. sq \in Nat
    BY <1>1
  <2> HIDE DEF sq
  <2>3. a \in Nat
    <3> SUFFICES sq \div incr0 \in Nat
      BY DEF sq
    <3> DEFINE q == sq \div incr0
               r == sq % incr0
    <3>1. q \in Int /\ r \in 0 .. incr0 - 1 /\ sq = incr0 * q + r
      BY <2>1, <2>2, DivMod
    <3> HIDE DEF q, r
    <3>2. q >= 0
      <4> SUFFICES ASSUME q <= -1 PROVE FALSE
        BY <3>1
      <4>1. incr0 * q <= incr0 * (-1)
        BY <2>1, <3>1
      <4> QED BY <2>1, <2>2, <3>1, <4>1
    <3> QED BY <3>1, <3>2 DEF q
  <2>4. c \in Nat
    BY <1>1
  <2> HIDE DEF a, c
  <2> QED BY <2>1, <2>3, <2>4
<1>3. slow = W(k.cwnd + 1, k.incr + Mss) /\ avoid = W(w1, incr1)
  <2> HIDE DEF incr1
  <2> QED BY DEF Blocks
<1> HIDE DEF incr0, a, c, incr1
<1>4. Grow(k) = IF k.cwnd >= k.rmt_wnd THEN k ELSE IF k1.cwnd > k.rmt_wnd THEN last ELSE k1
  BY DEF Grow, incr1, incr0, a, c
<1> HIDE DEF slow, avoid
<1>5. Alike(k, slow) /\ Alike(k, avoid)
  <2>1. w1 \in Nat /\ k.cwnd + 1 \in Nat /\ k.incr + Mss \in Nat
    BY <1>1
  <2> HIDE DEF w1
  <2> DEFINE u == k.cwnd + 1
             v == k.incr + Mss
  <2>2. u \in Nat /\ v \in Nat
    BY <2>1
  <2> HIDE DEF u, v
  <2>3. Alike(k, W(u, v)) /\ Alike(k, W(w1, incr1))
    BY <1>2, <2>1, <2>2, NewWindow
  <2> HIDE DEF W
  <2> QED BY <1>3, <2>3 DEF u, v
<1>6. Alike(k, k1)
  BY <1>5
<1> HIDE DEF k1
<1>7. Alike(k1, last)
  <2>1. k1 \in Blocks
    BY <1>6 DEF Alike
  <2> DEFINE v == k.rmt_wnd * Mss
             w == k.rmt_wnd
  <2>2. v \in Nat /\ w \in Nat
    BY <1>1
  <2> HIDE DEF v, w
  <2>3. Alike(k1, [k1 EXCEPT !.cwnd = w, !.incr = v])
    BY <2>1, <2>2, NewWindow
  <2> QED BY <2>3 DEF v, w
<1> HIDE DEF last
<1>8. Alike(k, last)
  <2>1. Len(k1.snd_buf) = Len(k.snd_buf)
    BY <1>6 DEF Alike
  <2> QED BY <1>6, <1>7, <2>1 DEF Alike, SameReceiver
<1>9. Alike(k, k)
  BY DEF Alike, SameReceiver
<1> QED BY <1>4, <1>6, <1>8, <1>9

\* pvp_ikcp_input: the windows, and what is held.
LEMMA InputFact ==
    ASSUME Signed, NEW k, Fine(k), NEW packet \in Seq(Segs)
    PROVE  /\ Fine(Input(k, packet))
           /\ \A p : /\ Wide /\ Fine(p) /\ Joined(k, p) /\ Joined(p, k) /\ Honest(p, k)
                     /\ \A i \in 1 .. Len(packet) : Comes(k, p, packet[i]) /\ Young(k, p, packet[i])
                     => Heard(k, p, Input(k, packet))
<1> DEFINE k0 == [k EXCEPT !.dead = FALSE]
           base == [k |-> k0, acked |-> {}]
           r == FoldLeft(InputSeg, base, packet)
           latest == CHOOSE sn \in r.acked : \A other \in r.acked : Diff(sn, other) >= 0
           k1 == IF r.acked = {} THEN r.k ELSE ParseFastack(r.k, latest)
           k2 == IF Diff(k1.snd_una, k.snd_una) > 0 THEN Grow(k1) ELSE k1
<1>1. k \in Blocks
  BY BlockIs
<1>2. Alike(k, k0)
  <2>1. /\ k0 \in Blocks /\ SameReceiver(k, k0) /\ k0.acklist = k.acklist /\ k0.snd_nxt = k.snd_nxt
        /\ k0.snd_una = k.snd_una /\ k0.snd_buf = k.snd_buf /\ k0.snd_queue = k.snd_queue
    BY <1>1 DEF Blocks, SameReceiver
  <2> HIDE DEF k0
  <2> QED BY <2>1 DEF Alike
<1>3. Input(k, packet) = k2
  BY DEF Input
<1> HIDE DEF k0
<1>4. Fine(k0) /\ k0 \in Blocks
  BY <1>2, AlikeFine DEF Alike
<1>5. base \in Reading
  <2>1. base \in [k : Blocks, acked : SUBSET SeqNums] /\ base.k = k0
    BY <1>4
  <2> HIDE DEF base
  <2> QED BY <1>4, <2>1 DEF Reading
<1>6. r \in Reading
  <2> HIDE DEF base
  <2> QED BY <1>5, ReadingFact, InputFold
<1>7. base.k = k0
  OBVIOUS
<1> HIDE DEF r, base
<1>8. Fine(r.k)
  BY <1>6 DEF Reading
<1>9. Alike(r.k, k1)
  <2>1. Alike(r.k, r.k)
    BY <1>8 DEF Alike, SameReceiver, Fine
  <2>2. Alike(r.k, ParseFastack(r.k, latest))
    <3> HIDE DEF latest
    <3> QED BY <1>8, FastackFact
  <2> QED BY <2>1, <2>2
<1> HIDE DEF k1
<1>10. Fine(k1)
  BY <1>8, <1>9, AlikeFine
<1>11. Alike(k1, k2)
  <2>1. k1 \in Blocks
    BY <1>10 DEF Fine
  <2>2. Alike(k1, k1)
    BY <2>1 DEF Alike, SameReceiver
  <2>3. Alike(k1, Grow(k1))
    BY <2>1, GrowFact
  <2> QED BY <2>2, <2>3
<1> HIDE DEF k2
<1>12. Fine(k2)
  BY <1>10, <1>11, AlikeFine
<1>13. ASSUME NEW p, Wide, Fine(p), Joined(k, p), Joined(p, k), Honest(p, k),
              \A i \in 1 .. Len(packet) : Comes(k, p, packet[i]) /\ Young(k, p, packet[i])
       PROVE  Heard(k, p, k2)
  <2> DEFINE S == {seg \in Segs : Comes(k, p, seg) /\ Young(k, p, seg)}
             T == {x \in Reading : Heard(k, p, x.k)}
  <2>1. packet \in Seq(S)
    <3>1. Len(packet) \in Nat /\ \A i \in 1 .. Len(packet) : packet[i] \in Segs
      OBVIOUS
    <3>2. \A i \in 1 .. Len(packet) : packet[i] \in S
      BY <1>13, <3>1
    <3> HIDE DEF S
    <3> QED BY <3>1, <3>2
  <2>2. Heard(k, p, k)
    <3>1. Keeps(p.snd_nxt, k, k)
      BY <1>1, <1>13, KeepsSame, BlockIs DEF Joined
    <3> QED BY <1>13, <3>1 DEF Heard, Joined
  <2>3. Heard(k, p, k0)
    BY <1>2, <1>13, <2>2, AlikeHeard
  <2>4. base \in T
    BY <1>5, <1>7, <2>3
  <2>5. ASSUME NEW x \in T, NEW seg \in S PROVE InputSeg(x, seg) \in T
    <3>1. InputSeg(x, seg) \in Reading
      BY ReadingFact
    <3>2. Heard(k, p, InputSeg(x, seg).k)
      BY <1>13, HeardSegFact
    <3> QED BY <3>1, <3>2
  <2>6. \A x \in T : Heard(k, p, x.k)
    OBVIOUS
  <2> HIDE DEF S, T
  <2>7. FoldLeft(InputSeg, base, packet) \in T
    BY <2>1, <2>4, <2>5, InputFold
  <2>8. Heard(k, p, r.k)
    BY <2>6, <2>7 DEF r
  <2>9. Heard(k, p, k1)
    BY <1>9, <1>13, <2>8, AlikeHeard
  <2> QED BY <1>11, <1>13, <2>9, AlikeHeard
<1> QED BY <1>3, <1>12, <1>13

-----------------------------------------------------------------------------
(* The send window                                                         *)

\* The window of flush and send_ex.
LEMMA WindowFact ==
    ASSUME NEW k, k \in Blocks
    PROVE  Window(k) \in Nat /\ Window(k) <= SndWnd
<1> DEFINE T == {SndWnd, k.rmt_wnd}
           U == {SndWnd, k.rmt_wnd, k.cwnd}
<1>1. SndWnd \in Nat /\ k.rmt_wnd \in Nat /\ k.cwnd \in Nat
  BY Sizes DEF Blocks
<1>2. T \subseteq Nat /\ U \subseteq Nat /\ SndWnd \in T /\ SndWnd \in U
  BY <1>1
<1>3. Window(k) = Min(T) \/ Window(k) = Min(U)
  BY DEF Window
<1> HIDE DEF T, U
<1>4. Min(T) \in T /\ Min(T) <= SndWnd /\ Min(U) \in U /\ Min(U) <= SndWnd
  BY <1>2, MinFact
<1> QED BY <1>2, <1>3, <1>4

\* The window test of flush and send_ex.
LEMMA AdmittedFact ==
    ASSUME Signed, NEW k, Fine(k)
    PROVE  /\ Admitted(k) \in 0 .. Len(k.snd_queue)
           /\ Gap(k.snd_nxt, k.snd_una) + Admitted(k) <= SndWnd
<1> DEFINE w == Window(k)
           u == Gap(k.snd_nxt, k.snd_una)
           x == Plus(k.snd_una, w)
           d == Diff(x, k.snd_nxt)
           m == Max({0, d})
           l == Len(k.snd_queue)
           n == Min({l, m})
<1>1. /\ k \in Blocks /\ k.snd_nxt \in SeqNums /\ k.snd_una \in SeqNums
      /\ u \in Nat /\ u <= SndWnd
  <2>1. k \in Blocks /\ k.snd_nxt \in SeqNums /\ k.snd_una \in SeqNums
    BY BlockIs
  <2> QED BY <2>1, GapNat DEF Fine, SendSide
<1>2. l \in Nat
  <2>1. k.snd_queue \in Seq(Queued)
    BY <1>1 DEF Blocks
  <2> QED BY <2>1
<1>3. w \in Nat /\ w <= SndWnd
  BY <1>1, WindowFact
<1> HIDE DEF w
<1>4. SndWnd \in Nat /\ Word \in Nat /\ 2 * SndWnd < Word /\ w \in SeqNums
  BY <1>3, Sizes DEF Signed
<1>5. x \in SeqNums /\ Gap(x, k.snd_una) = w
  BY <1>1, <1>4, PlusIs, GapPlus
<1> HIDE DEF x
<1>6. d = w - u
  <2>1. 2 * Gap(x, k.snd_una) < Word /\ 2 * Gap(k.snd_nxt, k.snd_una) < Word
    BY <1>1, <1>3, <1>4, <1>5
  <2>2. d = Gap(x, k.snd_una) - Gap(k.snd_nxt, k.snd_una)
    BY <1>1, <1>5, <2>1, DiffAhead
  <2> QED BY <1>5, <2>2
<1> HIDE DEF d, u, l
<1>7. m = IF 0 <= d THEN d ELSE 0
  <2>1. 0 \in Int /\ d \in Int
    BY <1>1, <1>3, <1>6
  <2> QED BY <2>1, OfTwo
<1> HIDE DEF m
<1>8. n = IF l <= m THEN l ELSE m
  <2>1. l \in Int /\ m \in Int
    BY <1>1, <1>2, <1>3, <1>6, <1>7
  <2> QED BY <2>1, OfTwo
<1>9. Admitted(k) = n
  BY DEF Admitted, n, m, l, d, x, w
<1> HIDE DEF n
<1>10. n \in 0 .. l /\ u + n <= SndWnd
  BY <1>1, <1>2, <1>3, <1>4, <1>6, <1>7, <1>8
<1> QED BY <1>9, <1>10 DEF u, l

\* What flush and send_ex move is next, and in order.
LEMMA MoveToBufFact ==
    ASSUME Signed, NEW k, Fine(k)
    PROVE  LET k2 == MoveToBuf(k)
               n == Admitted(k)
               old == Len(k.snd_buf) IN
           /\ Fine(k2) /\ SameReceiver(k, k2) /\ k2.acklist = k.acklist
           /\ n \in Nat /\ n <= SndWnd /\ k2.snd_nxt = Plus(k.snd_nxt, n)
           /\ Len(k2.snd_buf) = old + n
           /\ \A x \in SeqNums : Has(k.snd_buf, x) => Has(k2.snd_buf, x)
           /\ \A x \in SeqNums : 0 < Gap(k2.snd_nxt, x) /\ Gap(k2.snd_nxt, x) <= n => Has(k2.snd_buf, x)
           /\ \A x : Has(k2.snd_buf, x) =>
                 Has(k.snd_buf, x) \/ (x \in SeqNums /\ 0 < Gap(k2.snd_nxt, x) /\ Gap(k2.snd_nxt, x) <= n)
           /\ Len(k2.snd_queue) + n = Len(k.snd_queue)
<1> DEFINE n == Admitted(k)
           nxt == k.snd_nxt
           nxt2 == Plus(nxt, n)
           queue == SubSeq(k.snd_queue, n + 1, Len(k.snd_queue))
           seg(i) == [sn |-> Plus(nxt, i - 1), frg |-> k.snd_queue[i].frg,
                      data |-> k.snd_queue[i].data, xmit |-> 0, fastack |-> 0, dups |-> 0]
           new == [i \in 1 .. n |-> seg(i)]
           buf == k.snd_buf \o new
           k2 == [k EXCEPT !.snd_queue = queue, !.snd_nxt = nxt2, !.snd_buf = buf]
           old == Len(k.snd_buf)
           u == Gap(nxt, k.snd_una)
<1>1. /\ k \in Blocks /\ nxt \in SeqNums /\ k.snd_una \in SeqNums
      /\ k.snd_buf \in Seq(Held) /\ old \in Nat /\ SendSide(nxt, k.snd_una, k.snd_buf)
  BY BlockIs DEF Fine
<1>2. k.snd_queue \in Seq(Queued)
  BY <1>1 DEF Blocks
<1>3. /\ n \in 0 .. Len(k.snd_queue) /\ n \in Nat /\ u \in Nat /\ u + n <= SndWnd
      /\ SndWnd \in Nat /\ Word \in Nat /\ 2 * SndWnd < Word /\ SeqNums = 0 .. Word - 1
  <2>1. n \in 0 .. Len(k.snd_queue) /\ u + n <= SndWnd
    BY AdmittedFact
  <2>2. u \in Nat
    BY <1>1, GapNat
  <2> HIDE DEF n, u
  <2> QED BY <1>2, <2>1, <2>2, Sizes DEF Signed
<1>4. MoveToBuf(k) = k2
  BY Zenon DEF MoveToBuf
<1> HIDE DEF n
<1>5. n \in SeqNums /\ nxt2 \in SeqNums
  <2>1. n \in SeqNums
    <3> HIDE DEF u
    <3> QED BY <1>3
  <2> QED BY <1>1, <2>1, PlusIs
<1>6. queue \in Seq(Queued) /\ Len(queue) = Len(k.snd_queue) - n
  BY <1>2, <1>3, CutFact
<1>21. Len(k.snd_queue) \in Nat
  BY <1>2
<1>7. ASSUME NEW i \in 1 .. n
      PROVE  seg(i) \in Held /\ seg(i).sn = Plus(nxt, i - 1) /\ i - 1 \in SeqNums
  <2>1. k.snd_queue[i] \in Queued
    BY <1>2, <1>3
  <2>2. k.snd_queue[i].frg \in Frgs /\ k.snd_queue[i].data \in Chunk
    BY <2>1 DEF Queued
  <2>3. i - 1 \in SeqNums
    <3> HIDE DEF u
    <3> QED BY <1>3
  <2>4. Plus(nxt, i - 1) \in SeqNums
    BY <1>1, <2>3, PlusIs
  <2> QED BY <2>2, <2>3, <2>4 DEF Held
<1> HIDE DEF seg, queue
<1>8. new \in Seq(Held) /\ Len(new) = n /\ \A i \in 1 .. n : new[i].sn = Plus(nxt, i - 1)
  BY <1>3, <1>7
<1> HIDE DEF new
<1>9. /\ buf \in Seq(Held) /\ Len(buf) = old + n
      /\ \A i \in 1 .. old + n : buf[i] = IF i <= old THEN k.snd_buf[i] ELSE new[i - old]
  BY <1>1, <1>8, ConcatProperties
<1> HIDE DEF buf, nxt2
<1>10. /\ k2 \in Blocks /\ SameReceiver(k, k2) /\ k2.acklist = k.acklist
       /\ k2.snd_nxt = nxt2 /\ k2.snd_una = k.snd_una /\ k2.snd_buf = buf /\ k2.snd_queue = queue
  BY <1>1, <1>5, <1>6, <1>9 DEF Blocks, SameReceiver
<1> HIDE DEF k2
\* The ages of the segments: the old ones have grown by n, the new ones follow.
<1>11. ASSUME NEW x \in SeqNums, Gap(nxt, x) <= u
       PROVE  Gap(nxt2, x) = Gap(nxt, x) + n
  <2>1. Gap(nxt, x) \in Nat
    BY <1>1, GapNat
  <2> DEFINE g == Gap(nxt, x)
  <2>2. g \in Nat /\ g <= u
    BY <1>11, <2>1
  <2> HIDE DEF g, u
  <2>3. g + n < Word
    BY <1>3, <2>2
  <2> QED BY <1>1, <1>5, <2>3, GapPlus DEF g, nxt2
<1>12. ASSUME NEW i \in 1 .. n
       PROVE  Gap(nxt2, Plus(nxt, i - 1)) = n - (i - 1)
  <2>1. i - 1 \in SeqNums /\ i - 1 <= n
    BY <1>3, <1>7
  <2>2. Gap(nxt2, nxt) = n
    BY <1>1, <1>5, GapPlus DEF nxt2
  <2> QED BY <1>1, <1>5, <2>1, <2>2, GapPlus
<1>13. ASSUME NEW i \in 1 .. old
       PROVE  /\ i \in 1 .. old + n /\ buf[i].sn = k.snd_buf[i].sn /\ buf[i].sn \in SeqNums
              /\ Gap(nxt, buf[i].sn) \in Nat /\ 0 < Gap(nxt, buf[i].sn) /\ Gap(nxt, buf[i].sn) <= u
              /\ Gap(nxt2, buf[i].sn) = Gap(nxt, buf[i].sn) + n
  <2>1. i \in 1 .. old + n /\ buf[i].sn = k.snd_buf[i].sn
    BY <1>1, <1>3, <1>9
  <2>2. /\ k.snd_buf[i].sn \in SeqNums /\ Gap(nxt, k.snd_buf[i].sn) \in Nat
        /\ 0 < Gap(nxt, k.snd_buf[i].sn) /\ Gap(nxt, k.snd_buf[i].sn) <= u
    BY <1>1, SideNats DEF SendSide
  <2> QED BY <1>11, <2>1, <2>2
<1>14. ASSUME NEW i \in old + 1 .. old + n
       PROVE  /\ i \in 1 .. old + n /\ i - old \in 1 .. n /\ buf[i].sn = Plus(nxt, i - old - 1)
              /\ Gap(nxt2, buf[i].sn) = n - (i - old - 1)
  <2>1. i \in 1 .. old + n /\ i - old \in 1 .. n /\ ~ (i <= old)
    BY <1>1, <1>3
  <2>2. buf[i].sn = Plus(nxt, i - old - 1)
    BY <1>8, <1>9, <2>1
  <2> QED BY <1>12, <2>1, <2>2
<1>15. Gap(nxt2, k.snd_una) = u + n
  BY <1>1, <1>3, <1>11
<1>16. SendSide(nxt2, k.snd_una, buf)
  <2>1. ASSUME NEW i \in 1 .. Len(buf)
        PROVE  0 < Gap(nxt2, buf[i].sn) /\ Gap(nxt2, buf[i].sn) <= u + n
    <3>1. CASE i \in 1 .. old
      <4> DEFINE g == Gap(nxt, buf[i].sn)
      <4>1. g \in Nat /\ 0 < g /\ g <= u /\ Gap(nxt2, buf[i].sn) = g + n
        BY <1>13, <3>1
      <4> HIDE DEF g, u
      <4> QED BY <1>3, <4>1
    <3>2. CASE i \in old + 1 .. old + n
      <4>1. Gap(nxt2, buf[i].sn) = n - (i - old - 1) /\ i - old \in 1 .. n
        BY <1>14, <3>2
      <4> DEFINE j == i - old
                 g == Gap(nxt2, buf[i].sn)
      <4>2. j \in 1 .. n /\ g = n - (j - 1)
        BY <4>1
      <4> HIDE DEF u, j, g
      <4>3. 0 < g /\ g <= u + n
        BY <1>3, <4>2
      <4> QED BY <4>3 DEF g
    <3> QED BY <1>1, <1>3, <1>9, <3>1, <3>2
  <2>2. ASSUME NEW i \in 1 .. Len(buf), NEW j \in 1 .. Len(buf), i < j
        PROVE  Gap(nxt2, buf[j].sn) < Gap(nxt2, buf[i].sn)
    <3>1. CASE j \in 1 .. old
      <4>1. i \in 1 .. old
        BY <2>2, <3>1
      <4>2. Gap(nxt, k.snd_buf[j].sn) < Gap(nxt, k.snd_buf[i].sn)
        BY <1>1, <2>2, <3>1, <4>1 DEF SendSide
      <4> DEFINE a == Gap(nxt, buf[i].sn)
                 b == Gap(nxt, buf[j].sn)
      <4>3. a \in Nat /\ Gap(nxt2, buf[i].sn) = a + n
        BY <1>13, <4>1
      <4>4. b \in Nat /\ Gap(nxt2, buf[j].sn) = b + n
        BY <1>13, <3>1
      <4>5. b < a
        BY <1>13, <3>1, <4>1, <4>2
      <4> HIDE DEF a, b
      <4> QED BY <1>3, <4>3, <4>4, <4>5
    <3>2. CASE j \in old + 1 .. old + n /\ i \in 1 .. old
      <4> DEFINE a == Gap(nxt, buf[i].sn)
      <4>1. a \in Nat /\ 0 < a /\ Gap(nxt2, buf[i].sn) = a + n
        BY <1>13, <3>2
      <4>2. Gap(nxt2, buf[j].sn) = n - (j - old - 1) /\ j - old \in 1 .. n
        BY <1>14, <3>2
      <4> DEFINE l == j - old
                 h == Gap(nxt2, buf[i].sn)
                 g == Gap(nxt2, buf[j].sn)
      <4>3. l \in 1 .. n /\ g = n - (l - 1) /\ h = a + n
        BY <4>1, <4>2
      <4> HIDE DEF a, g, h, l
      <4>4. g < h
        BY <1>3, <4>1, <4>3
      <4> QED BY <4>4 DEF g, h
    <3>3. CASE j \in old + 1 .. old + n /\ i \in old + 1 .. old + n
      <4>1. Gap(nxt2, buf[i].sn) = n - (i - old - 1)
        BY <1>14, <3>3
      <4>2. Gap(nxt2, buf[j].sn) = n - (j - old - 1)
        BY <1>14, <3>3
      <4> DEFINE o == old
                 h == Gap(nxt2, buf[i].sn)
                 g == Gap(nxt2, buf[j].sn)
      <4>3. o \in Nat /\ h = n - (i - o - 1) /\ g = n - (j - o - 1) /\ i \in Int /\ j \in Int /\ i < j
        BY <1>1, <2>2, <4>1, <4>2
      <4> HIDE DEF o, g, h
      <4>4. g < h
        BY <1>3, <4>3
      <4> QED BY <4>4 DEF g, h
    <3>4. (i \in 1 .. old \/ i \in old + 1 .. old + n) /\ (j \in 1 .. old \/ j \in old + 1 .. old + n)
      BY <1>1, <1>3, <1>9
    <3>5. i \in old + 1 .. old + n => j \in old + 1 .. old + n
      BY <1>1, <1>3, <1>9, <2>2
    <3> QED BY <3>1, <3>2, <3>3, <3>4, <3>5
  <2> QED BY <1>3, <1>15, <2>1, <2>2 DEF SendSide
<1>17. Fine(k2)
  BY <1>10, <1>16 DEF Fine, SameReceiver
<1>18. ASSUME NEW x \in SeqNums, Has(k.snd_buf, x) PROVE Has(buf, x)
  <2>1. PICK i \in 1 .. old : k.snd_buf[i].sn = x
    BY <1>18 DEF Has
  <2> QED BY <1>9, <1>13, <2>1 DEF Has
<1>19. ASSUME NEW x \in SeqNums, 0 < Gap(nxt2, x), Gap(nxt2, x) <= n PROVE Has(buf, x)
  <2> DEFINE g == Gap(nxt2, x)
             i == old + (n - g) + 1
  <2>1. g \in Nat /\ 0 < g /\ g <= n
    BY <1>5, <1>19, GapNat
  <2> HIDE DEF g
  <2>2. i \in old + 1 .. old + n /\ n - (i - old - 1) = g
    <3> DEFINE o == old
               j == o + (n - g) + 1
    <3>1. o \in Nat
      BY <1>1
    <3> HIDE DEF o
    <3>2. j \in o + 1 .. o + n /\ n - (j - o - 1) = g
      BY <1>3, <2>1, <3>1
    <3> QED BY <3>2 DEF o
  <2> HIDE DEF i
  <2>3. i \in 1 .. old + n /\ i - old \in 1 .. n /\ buf[i].sn = Plus(nxt, i - old - 1) /\ Gap(nxt2, buf[i].sn) = g
    BY <1>14, <2>2
  <2>4. buf[i].sn \in SeqNums
    <3>1. i - old - 1 \in SeqNums
      BY <1>7, <2>3
    <3> QED BY <1>1, <2>3, <3>1, PlusIs
  <2>5. buf[i].sn = x
    BY <1>5, <2>3, <2>4, GapSame DEF g
  <2> QED BY <1>9, <2>3, <2>5 DEF Has
<1>20. n <= SndWnd /\ Len(k2.snd_queue) + n = Len(k.snd_queue)
  <2> HIDE DEF u
  <2> QED BY <1>3, <1>6, <1>10, <1>21
<1>22. ASSUME NEW x, Has(buf, x)
       PROVE  Has(k.snd_buf, x) \/ (x \in SeqNums /\ 0 < Gap(nxt2, x) /\ Gap(nxt2, x) <= n)
  <2>1. PICK i \in 1 .. old + n : buf[i].sn = x
    BY <1>9, <1>22 DEF Has
  <2>2. CASE i \in 1 .. old
    BY <1>13, <2>1, <2>2 DEF Has
  <2>3. CASE i \in old + 1 .. old + n
    <3> DEFINE j == i - old
    <3>1. j \in 1 .. n /\ x = Plus(nxt, j - 1) /\ Gap(nxt2, x) = n - (j - 1)
      BY <1>14, <2>1, <2>3
    <3> HIDE DEF j
    <3>2. x \in SeqNums
      BY <1>1, <1>7, <3>1, PlusIs
    <3>3. 0 < n - (j - 1) /\ n - (j - 1) <= n
      <4> HIDE DEF u
      <4> QED BY <1>3, <3>1
    <3> QED BY <3>1, <3>2, <3>3
  <2> QED BY <1>1, <1>3, <2>1, <2>2, <2>3
<1> QED BY <1>3, <1>4, <1>9, <1>10, <1>17, <1>18, <1>19, <1>20, <1>22 DEF n, nxt2

-----------------------------------------------------------------------------
(* The fragments of a message                                              *)

\* The number of fragments of l bytes.
LEMMA CountFact ==
    ASSUME NEW l \in Nat
    PROVE  LET c == (l + Mss - 1) \div Mss IN
           c \in Nat /\ \A i \in 1 .. c : (i - 1) * Mss \in Nat /\ (i - 1) * Mss < l
<1> DEFINE M == Mss
           x == l + M - 1
           c == x \div M
           r == x % M
<1>1. M \in Nat \ {0}
  BY Sizes
<1> HIDE DEF M
<1>2. x \in Nat
  BY <1>1
<1>3. c \in Int /\ r \in 0 .. M - 1 /\ x = M * c + r
  <2> HIDE DEF x
  <2> QED BY <1>1, <1>2, DivMod
<1>4. x = l + M - 1
  OBVIOUS
<1> HIDE DEF c, r, x
<1>5. c \in Nat
  <2> SUFFICES ASSUME c <= -1 PROVE FALSE
    BY <1>3
  <2>1. M * c <= M * (-1)
    BY <1>1, <1>3
  <2> QED BY <1>1, <1>2, <1>3, <2>1
<1>6. ASSUME NEW i \in 1 .. c PROVE (i - 1) * M \in Nat /\ (i - 1) * M < l
  <2> DEFINE j == i - 1
  <2>1. j \in Nat /\ j <= c - 1
    BY <1>5
  <2> HIDE DEF j
  <2>2. j * M \in Nat
    BY <1>1, <2>1
  <2>3. j * M <= (c - 1) * M
    BY <1>1, <1>5, <2>1
  <2>4. (c - 1) * M = M * c - M
    BY <1>1, <1>5
  <2> DEFINE jm == j * M
             mc == M * c
  <2>5. jm \in Nat /\ mc \in Int /\ jm <= mc - M
    BY <1>1, <1>5, <2>2, <2>3, <2>4
  <2>6. l + M - 1 = mc + r
    BY <1>3, <1>4
  <2> HIDE DEF jm, mc
  <2>7. jm < l
    BY <1>1, <1>3, <2>5, <2>6
  <2> QED BY <2>2, <2>7 DEF j, jm
<1> QED BY <1>5, <1>6 DEF c, x, M

\* pvp_ikcp_send: the fragments of a message.
LEMMA FragmentsFact ==
    ASSUME NEW data \in Seq(Bytes), MessagesFit => (Len(data) + Mss - 1) \div Mss <= RcvWnd
    PROVE  Fragments(data) \in Seq(Queued)
<1> DEFINE l == Len(data)
           M == Mss
           c == (l + M - 1) \div M
           from(i) == (i - 1) * M
           to(i) == Min({i * M, l})
           d(i) == SubSeq(data, from(i) + 1, to(i))
           f == [i \in 1 .. c |-> [frg |-> c - i, data |-> d(i)]]
<1>1. M \in Nat \ {0} /\ RcvWnd \in Nat
  BY Sizes
<1>2. l \in Nat
  OBVIOUS
<1> HIDE DEF l
<1>3. c \in Nat /\ \A i \in 1 .. c : from(i) \in Nat /\ from(i) < l
  BY <1>2, CountFact
<1>4. Fragments(data) = f
  BY DEF Fragments, l
<1>5. MessagesFit => c <= RcvWnd
  BY DEF l
<1> HIDE DEF c
<1>6. ASSUME NEW i \in 1 .. c PROVE d(i) \in Chunk
  <2> DEFINE a == from(i)
             b == to(i)
             m == i * M
  <2>1. a \in Nat /\ a < l
    BY <1>3
  <2>2. m \in Int /\ m = a + M
    BY <1>1, <1>3
  <2>3. b = IF m <= l THEN m ELSE l
    <3> HIDE DEF m
    <3>1. m \in Int /\ l \in Int
      BY <1>2, <2>2
    <3>2. Min({m, l}) = IF m <= l THEN m ELSE l
      BY <3>1, OfTwo
    <3> QED BY <3>2 DEF m
  <2> HIDE DEF a, b, m
  <2>4. b \in Int /\ a < b /\ b <= l /\ b <= a + M
    BY <1>1, <1>2, <2>1, <2>2, <2>3
  <2>5. \A j \in a + 1 .. b : data[j] \in Bytes
    <3> TAKE j \in a + 1 .. b
    <3>1. j \in 1 .. l
      BY <1>2, <2>1, <2>4
    <3> QED BY <3>1 DEF l
  <2>6. /\ SubSeq(data, a + 1, b) \in Seq(Bytes)
        /\ Len(SubSeq(data, a + 1, b)) = IF a + 1 <= b THEN b - (a + 1) + 1 ELSE 0
    <3> DEFINE u == a + 1
    <3>1. u \in Int /\ b \in Int
      BY <2>1, <2>4
    <3>2. \A j \in u .. b : data[j] \in Bytes
      BY <2>5
    <3> HIDE DEF u
    <3>3. SubSeq(data, u, b) \in Seq(Bytes) /\ Len(SubSeq(data, u, b)) = IF u <= b THEN b - u + 1 ELSE 0
      BY ONLY <3>1, <3>2, SubSeqProperties
    <3> QED BY <3>3 DEF u
  <2>7. Len(SubSeq(data, a + 1, b)) <= M
    BY <1>1, <2>1, <2>4, <2>6
  <2> QED BY <2>6, <2>7 DEF Chunk, a, b
<1> HIDE DEF d
<1>7. ASSUME NEW i \in 1 .. c PROVE c - i \in Frgs
  <2>1. c - i \in Nat
    BY <1>3
  <2>2. MessagesFit => c - i < RcvWnd
    BY <1>1, <1>3, <1>5
  <2> QED BY <2>1, <2>2 DEF Frgs
<1>8. \A i \in 1 .. c : [frg |-> c - i, data |-> d(i)] \in Queued
  BY <1>6, <1>7 DEF Queued
<1>9. f \in Seq(Queued)
  BY <1>3, <1>8
<1> QED BY <1>4, <1>9

\* The messages of the session are cut so.
LEMMA MessageFact ==
    ASSUME NEW e \in Ends, NEW i \in 1 .. Len(Lengths[e])
    PROVE  Fragments(Message(e, i)) \in Seq(Queued)
<1> DEFINE l == Lengths[e][i]
           data == Message(e, i)
<1>1. i \in Nat /\ l \in Nat
  <2>1. Lengths[e] \in Seq(Nat \ {0})
    BY LengthsAssumption
  <2>2. Len(Lengths[e]) \in Nat
    BY <2>1
  <2>3. l \in Nat \ {0}
    BY <2>1
  <2> QED BY <2>2, <2>3
<1>2. data = [b \in 1 .. l |-> <<i, b>>]
  BY DEF Message
<1>3. MessagesFit => (l + Mss - 1) \div Mss <= RcvWnd
  BY DEF MessagesFit
<1> HIDE DEF l, data
<1>4. data \in Seq(Bytes) /\ Len(data) = l
  BY <1>1, <1>2 DEF Bytes
<1>5. Fragments(data) \in Seq(Queued)
  BY <1>3, <1>4, FragmentsFact
<1> QED BY <1>5 DEF data

-----------------------------------------------------------------------------
(* What an end writes                                                      *)

\* A segment that k writes.
LEMMA WireFact ==
    ASSUME NEW k, Fine(k), NEW cmd \in {"PUSH", "DUPS", "ACK", "WASK", "WINS"}, NEW sn \in SeqNums,
           NEW frg \in Frgs, NEW data \in Chunk
    PROVE  /\ Wire(k, cmd, sn, frg, data) \in Segs
           /\ Wire(k, cmd, sn, frg, data).cmd = cmd /\ Wire(k, cmd, sn, frg, data).sn = sn
           /\ Wire(k, cmd, sn, frg, data).una = k.rcv_nxt
<1> DEFINE w == Short(WndUnused(k))
<1>1. w \in Nat
  <2>1. k.rcv_queue \in Seq(Kept)
    BY BlockIs DEF Blocks
  <2>2. WndUnused(k) \in Int
    BY <2>1, Sizes DEF WndUnused
  <2> DEFINE u == WndUnused(k)
             M == 2 * Half
  <2>3. u \in Int /\ M \in Nat \ {0}
    BY <2>2, Sizes
  <2> HIDE DEF u, M
  <2>4. u % M \in 0 .. M - 1
    BY <2>3, DivMod
  <2>5. w = u % M
    BY DEF Short, u, M
  <2> QED BY <2>3, <2>4, <2>5
<1>2. k.rcv_nxt \in SeqNums
  BY BlockIs
<1>3. Wire(k, cmd, sn, frg, data) = [cmd |-> cmd, frg |-> frg, wnd |-> w, sn |-> sn, una |-> k.rcv_nxt, data |-> data]
  BY DEF Wire
<1> HIDE DEF w
<1> QED BY <1>1, <1>2, <1>3 DEF Segs

\* What k may send when its segments in flight are those of k2.
Leaving(k, k2) ==
    {seg \in Segs : /\ seg.una = k.rcv_nxt
                    /\ seg.cmd = "ACK" => seg.sn \in Due(k)
                    /\ seg.cmd \in {"PUSH", "DUPS"} => Has(k2.snd_buf, seg.sn)}

\* A segment in flight, written.
LEMMA DataFact ==
    ASSUME NEW k, Fine(k), NEW k2, NEW seg \in Held, Has(k2.snd_buf, seg.sn)
    PROVE  Data(k, "PUSH", seg) \in Leaving(k, k2) /\ Data(k, "DUPS", seg) \in Leaving(k, k2)
<1>1. seg.sn \in SeqNums /\ seg.frg \in Frgs /\ seg.data \in Chunk
  BY DEF Held
<1>2. ASSUME NEW cmd \in {"PUSH", "DUPS"} PROVE Data(k, cmd, seg) \in Leaving(k, k2)
  <2> DEFINE w == Wire(k, cmd, seg.sn, seg.frg, seg.data)
  <2>1. w \in Segs /\ w.cmd = cmd /\ w.sn = seg.sn /\ w.una = k.rcv_nxt
    BY <1>1, WireFact
  <2>2. Data(k, cmd, seg) = w
    BY DEF Data
  <2> HIDE DEF w
  <2> QED BY <1>2, <2>1, <2>2 DEF Leaving
<1> QED BY <1>2

\* A segment without data.
LEMMA FrgZero == 0 \in Frgs /\ <<>> \in Chunk
<1>1. 0 \in Frgs
  BY Sizes DEF Frgs
<1>2. <<>> \in Chunk
  BY Sizes DEF Chunk
<1> QED BY <1>1, <1>2

\* The acknowledgements, written.
LEMMA AcksFact ==
    ASSUME NEW k, Fine(k), NEW k2
    PROVE  Acks(k) \in Seq(Leaving(k, k2))
<1> DEFINE w(i) == Wire(k, "ACK", k.acklist[i], 0, <<>>)
           S == Leaving(k, k2)
<1>1. k.acklist \in Seq(SeqNums) /\ DOMAIN k.acklist = 1 .. Len(k.acklist) /\ Len(k.acklist) \in Nat
  BY BlockIs
<1>2. ASSUME NEW i \in 1 .. Len(k.acklist) PROVE w(i) \in S
  <2>1. k.acklist[i] \in SeqNums /\ k.acklist[i] \in Due(k)
    BY <1>1 DEF Due
  <2>2. w(i) \in Segs /\ w(i).cmd = "ACK" /\ w(i).sn = k.acklist[i] /\ w(i).una = k.rcv_nxt
    BY <2>1, WireFact, FrgZero
  <2> HIDE DEF w
  <2> QED BY <2>1, <2>2 DEF Leaving
<1>3. Acks(k) = [i \in 1 .. Len(k.acklist) |-> w(i)]
  BY <1>1 DEF Acks
<1> HIDE DEF w, S
<1>4. [i \in 1 .. Len(k.acklist) |-> w(i)] \in Seq(S)
  BY <1>1, <1>2
<1> QED BY <1>3, <1>4 DEF S

\* A probe says no more than any segment.
LEMMA ProbesFact ==
    ASSUME NEW k, Fine(k), NEW k1, Fine(k1), k1.rcv_nxt = k.rcv_nxt, NEW k2
    PROVE  Probes(k1) \in Seq(Leaving(k, k2))
<1> DEFINE ask == Wire(k1, "WASK", 0, 0, <<>>)
           tell == Wire(k1, "WINS", 0, 0, <<>>)
           S == Leaving(k, k2)
<1>1. 0 \in SeqNums
  BY Sizes
<1>2. ask \in Segs /\ ask.cmd = "WASK" /\ ask.una = k.rcv_nxt
  BY <1>1, WireFact, FrgZero
<1>3. tell \in Segs /\ tell.cmd = "WINS" /\ tell.una = k.rcv_nxt
  BY <1>1, WireFact, FrgZero
<1> DEFINE a == IF "SEND" \in k1.probe THEN <<ask>> ELSE <<>>
           b == IF "TELL" \in k1.probe THEN <<tell>> ELSE <<>>
<1>4. Probes(k1) = a \o b
  BY DEF Probes
<1> HIDE DEF ask, tell
<1>5. ask \in S /\ tell \in S
  BY <1>2, <1>3 DEF Leaving
<1> HIDE DEF S
<1>6. a \in Seq(S) /\ b \in Seq(S)
  BY <1>5
<1> HIDE DEF a, b
<1>7. a \o b \in Seq(S)
  BY <1>6, ConcatProperties
<1> QED BY <1>4, <1>7 DEF S

\* What Written adds are segments of the buffer.
LEMMA WrittenFact ==
    ASSUME NEW k, NEW cmd, NEW buf \in Seq(Held), NEW places, NEW S \in SUBSET Segs,
           NEW packets \in Seq(Small(S)), \A i \in 1 .. Len(buf) : Data(k, cmd, buf[i]) \in S
    PROVE  Written(k, cmd, buf, places, packets) \in Seq(Small(S))
<1> DEFINE n == Len(buf)
           s == [i \in DOMAIN buf |-> i]
           T == Seq(Small(S))
           base == packets
           op(x, y) == IF y \in places THEN AddToPackets(x, Data(k, cmd, buf[y])) ELSE x
           e(g, A) == IF A = {} THEN base ELSE op(g[A \ {Max(A)}], s[Max(A)])
           step == [x \in T \X (1 .. n) |-> op(x[1], s[x[2]])]
           h == CHOOSE g : g = [A \in SUBSET (DOMAIN s) |-> e(g, A)]
<1>0. base \in T
  OBVIOUS
<1>1. n \in Nat /\ DOMAIN s = 1 .. n
  OBVIOUS
<1>2. ASSUME NEW x \in T, NEW i \in 1 .. n PROVE op(x, s[i]) \in T
  <2>1. i \in 1 .. Len(buf) /\ s[i] = i
    OBVIOUS
  <2>2. Data(k, cmd, buf[i]) \in S
    BY <2>1
  <2>3. AddToPackets(x, Data(k, cmd, buf[i])) \in Seq(Small(S))
    BY <2>2, AddFact
  <2> QED BY <2>1, <2>3
<1>3. Written(k, cmd, buf, places, packets) = h[DOMAIN s]
  BY Zenon DEF Written, FoldLeftDomain, FoldLeft, MapThenFoldSet
<1> HIDE DEF n, T, base, op
<1>4. step \in [T \X (1 .. n) -> T]
  BY <1>2
<1>5. PICK g \in [SUBSET (1 .. n) -> T] : Iterates(g, n, base, step)
  <2> HIDE DEF step
  <2> QED BY <1>0, <1>1, <1>4, IteratesExist
<1>6. ASSUME NEW A \in SUBSET (1 .. n), A # {}
      PROVE  step[<<g[A \ {Max(A)}], Max(A)>>] = op(g[A \ {Max(A)}], s[Max(A)])
  <2>1. Max(A) \in 1 .. n /\ A \ {Max(A)} \in SUBSET (1 .. n)
    BY <1>1, <1>6, Before
  <2> QED BY <2>1
<1>7. g = [A \in SUBSET (DOMAIN s) |-> e(g, A)]
  <2>1. \A A \in SUBSET (1 .. n) : A # {} =>
            step[<<g[A \ {Max(A)}], Max(A)>>] = op(g[A \ {Max(A)}], s[Max(A)])
    BY <1>6
  <2> HIDE DEF step
  <2> QED BY <1>1, <1>5, <2>1 DEF Iterates
<1>8. h = [A \in SUBSET (DOMAIN s) |-> e(h, A)]
  <2> HIDE DEF e
  <2> QED BY <1>7, Zenon
<1> HIDE DEF h
<1>9. \A A \in SUBSET (1 .. n) : h[A] = e(h, A)
  <2>1. SUBSET (DOMAIN s) = SUBSET (1 .. n)
    BY <1>1
  <2> HIDE DEF e
  <2> QED BY <1>8, <2>1
<1>10. h[{}] = base
  <2>1. {} \in SUBSET (1 .. n)
    OBVIOUS
  <2> QED BY <1>9, <2>1
<1>11. ASSUME NEW i \in 1 .. n PROVE h[1 .. i] = op(h[1 .. (i - 1)], s[i])
  <2>1. 1 .. i \in SUBSET (1 .. n) /\ i \in Nat /\ i > 0
    BY <1>1
  <2>2. Max(1 .. i) = i /\ (1 .. i) \ {i} = 1 .. (i - 1) /\ 1 .. i # {}
    BY <2>1, UpTo
  <2> QED BY <1>9, <2>1, <2>2
<1>12. h[1 .. n] \in T
  <2>1. \A i \in 1 .. n : h[1 .. (i - 1)] \in T => h[1 .. i] \in T
    BY <1>2, <1>11
  <2>2. n \in 0 .. n
    BY <1>1
  <2> QED BY <1>0, <1>1, <1>10, <2>1, <2>2, FoldIn
<1> QED BY <1>1, <1>3, <1>12 DEF T

-----------------------------------------------------------------------------
(* Flush                                                                   *)

\* k, sending, has become k2: n numbers have been used, more fragments queued.
Advanced(k, k2, more) ==
    /\ Fine(k2) /\ SameReceiver(k, k2) /\ k2.acklist = <<>>
    /\ \E n \in Nat :
         /\ n <= SndWnd /\ k2.snd_nxt = Plus(k.snd_nxt, n)
         /\ \A x \in SeqNums : Has(k.snd_buf, x) => Has(k2.snd_buf, x)
         /\ \A x \in SeqNums : 0 < Gap(k2.snd_nxt, x) /\ Gap(k2.snd_nxt, x) <= n => Has(k2.snd_buf, x)
         /\ \A x : Has(k2.snd_buf, x) =>
               Has(k.snd_buf, x) \/ (x \in SeqNums /\ 0 < Gap(k2.snd_nxt, x) /\ Gap(k2.snd_nxt, x) <= n)
         /\ Len(k2.snd_queue) + n = Len(k.snd_queue) + more

\* c is k with its acknowledgements written.
Quiet(k, c) ==
    /\ c \in Blocks /\ SameReceiver(k, c) /\ c.acklist = <<>>
    /\ c.snd_nxt = k.snd_nxt /\ c.snd_una = k.snd_una /\ c.snd_buf = k.snd_buf

\* Segments moved into flight after the acknowledgements have been written.
LEMMA MovedFact ==
    ASSUME Signed, NEW k, Fine(k), NEW c, Quiet(k, c), NEW k2, Alike(MoveToBuf(c), k2),
           NEW more, Len(c.snd_queue) = Len(k.snd_queue) + more
    PROVE  /\ Advanced(k, k2, more)
           /\ \A x \in SeqNums : Has(MoveToBuf(c).snd_buf, x) => Has(k2.snd_buf, x)
           /\ \A x \in SeqNums : Has(k.snd_buf, x) => Has(k2.snd_buf, x)
<1> DEFINE m == MoveToBuf(c)
           n == Admitted(c)
<1>1. Fine(c)
  BY DEF Quiet, Fine, SameReceiver
<1>2. /\ Fine(m) /\ SameReceiver(c, m) /\ m.acklist = c.acklist
      /\ n \in Nat /\ n <= SndWnd /\ m.snd_nxt = Plus(c.snd_nxt, n)
      /\ \A x \in SeqNums : Has(c.snd_buf, x) => Has(m.snd_buf, x)
      /\ \A x \in SeqNums : 0 < Gap(m.snd_nxt, x) /\ Gap(m.snd_nxt, x) <= n => Has(m.snd_buf, x)
      /\ \A x : Has(m.snd_buf, x) =>
            Has(c.snd_buf, x) \/ (x \in SeqNums /\ 0 < Gap(m.snd_nxt, x) /\ Gap(m.snd_nxt, x) <= n)
      /\ Len(m.snd_queue) + n = Len(c.snd_queue)
  BY <1>1, MoveToBufFact
<1> HIDE DEF m, n
<1>3. Alike(m, k2)
  BY DEF m
<1>4. Fine(k2) /\ \A x : Has(k2.snd_buf, x) <=> Has(m.snd_buf, x)
  BY <1>2, <1>3, AlikeFine
<1>5. SameReceiver(k, k2) /\ k2.acklist = <<>> /\ k2.snd_nxt = m.snd_nxt /\ k2.snd_queue = m.snd_queue
  BY <1>2, <1>3 DEF Quiet, SameReceiver, Alike
<1>6. m.snd_nxt = Plus(k.snd_nxt, n) /\ c.snd_buf = k.snd_buf
  BY <1>2 DEF Quiet
<1>7. \A x \in SeqNums : Has(k.snd_buf, x) => Has(k2.snd_buf, x)
  BY <1>2, <1>4, <1>6
<1>8. \A x \in SeqNums : 0 < Gap(k2.snd_nxt, x) /\ Gap(k2.snd_nxt, x) <= n => Has(k2.snd_buf, x)
  BY <1>2, <1>4, <1>5
<1>10. \A x : Has(k2.snd_buf, x) =>
          Has(k.snd_buf, x) \/ (x \in SeqNums /\ 0 < Gap(k2.snd_nxt, x) /\ Gap(k2.snd_nxt, x) <= n)
  BY <1>2, <1>4, <1>5, <1>6
<1>11. Len(k2.snd_queue) + n = Len(k.snd_queue) + more
  BY <1>2, <1>5
<1>9. Advanced(k, k2, more)
  BY <1>2, <1>4, <1>5, <1>6, <1>7, <1>8, <1>10, <1>11 DEF Advanced
<1> QED BY <1>4, <1>7, <1>9 DEF m

\* A transmission leaves a segment its number.
LEMMA SentOnceFact ==
    ASSUME NEW seg \in Held
    PROVE  SentOnce(seg) \in Held /\ SentOnce(seg).sn = seg.sn
<1> DEFINE m == Min({seg.xmit + 1, DeadLink})
<1>1. m \in Nat
  <2>1. seg.xmit \in Nat /\ DeadLink \in Nat
    BY Sizes DEF Held
  <2>2. m = IF seg.xmit + 1 <= DeadLink THEN seg.xmit + 1 ELSE DeadLink
    BY <2>1, OfTwo
  <2> HIDE DEF m
  <2> QED BY <2>1, <2>2
<1>2. SentOnce(seg) = [seg EXCEPT !.xmit = m]
  BY DEF SentOnce
<1> HIDE DEF m
<1> QED BY <1>1, <1>2 DEF Held

\* The threshold of ikcp_flush.
LEMMA AtLeastMin ==
    ASSUME NEW x \in Int
    PROVE  Max({x, ThreshMin}) \in Nat
<1> DEFINE m == Max({x, ThreshMin})
<1>1. ThreshMin \in Nat
  BY Sizes
<1>2. m = IF x <= ThreshMin THEN ThreshMin ELSE x
  BY <1>1, OfTwo
<1> HIDE DEF m
<1>3. m \in Nat
  BY <1>1, <1>2
<1> QED BY <1>3 DEF m

\* ikcp_flush: the congestion window shrinks.
LEMMA ShrinkFact ==
    ASSUME NEW k, Fine(k), NEW window \in Nat, NEW changed, NEW lost
    PROVE  Alike(k, Shrink(k, window, changed, lost))
<1> DEFINE half == Diff(k.snd_nxt, k.snd_una) \div 2
           thresh == Max({half, ThreshMin})
           w == thresh + FastResend
           b == w * Mss
           k1 == IF changed THEN [k EXCEPT !.ssthresh = thresh, !.cwnd = w, !.incr = b] ELSE k
           lower == Max({window \div 2, ThreshMin})
           k2 == IF lost THEN [k1 EXCEPT !.ssthresh = lower, !.cwnd = 1, !.incr = Mss] ELSE k1
           k3 == IF k2.cwnd < 1 THEN [k2 EXCEPT !.cwnd = 1, !.incr = Mss] ELSE k2
<1>1. Shrink(k, window, changed, lost) = k3
  BY DEF Shrink
<1>2. ASSUME NEW x \in Int PROVE Max({x, ThreshMin}) \in Nat
  BY AtLeastMin
<1>3. thresh \in Nat /\ lower \in Nat
  <2>1. half \in Int
    <3>1. Diff(k.snd_nxt, k.snd_una) \in Int
      BY BlockIs, DiffTurns
    <3> QED BY <3>1
  <2>2. window \div 2 \in Int
    OBVIOUS
  <2> HIDE DEF half
  <2> QED BY <1>2, <2>1, <2>2
<1> HIDE DEF thresh, lower
<1>4. w \in Nat /\ b \in Nat /\ Mss \in Nat
  BY <1>3, Sizes
<1> HIDE DEF w, b
<1>5. ASSUME NEW j, Fine(j), NEW t \in Nat, NEW u \in Nat, NEW v \in Nat
      PROVE  Alike(j, [j EXCEPT !.ssthresh = t, !.cwnd = u, !.incr = v])
  <2> DEFINE j2 == [j EXCEPT !.ssthresh = t, !.cwnd = u, !.incr = v]
  <2>0. j \in Blocks
    BY <1>5 DEF Fine
  <2>1. /\ j2 \in Blocks /\ SameReceiver(j, j2) /\ j2.acklist = j.acklist /\ j2.snd_nxt = j.snd_nxt
        /\ j2.snd_una = j.snd_una /\ j2.snd_buf = j.snd_buf /\ j2.snd_queue = j.snd_queue
    BY <2>0 DEF Blocks, SameReceiver
  <2> HIDE DEF j2
  <2>2. Alike(j, j2)
    BY <2>1 DEF Alike
  <2> QED BY <2>2 DEF j2
<1>6. ASSUME NEW j, Fine(j) PROVE Alike(j, j)
  BY <1>6 DEF Alike, SameReceiver, Fine
<1>7. ASSUME NEW i, NEW j, NEW l, Alike(i, j), Alike(j, l) PROVE Alike(i, l)
  <2>1. Len(j.snd_buf) = Len(i.snd_buf)
    BY <1>7 DEF Alike
  <2> QED BY <1>7, <2>1 DEF Alike, SameReceiver
<1>8. Alike(k, k1)
  <2>1. Alike(k, k)
    BY <1>6
  <2>2. Alike(k, [k EXCEPT !.ssthresh = thresh, !.cwnd = w, !.incr = b])
    BY <1>3, <1>4, <1>5
  <2> QED BY <2>1, <2>2
<1> HIDE DEF k1
<1>9. Fine(k1)
  BY <1>8, AlikeFine
<1>10. Alike(k1, k2)
  <2>1. Alike(k1, k1)
    BY <1>6, <1>9
  <2>2. Alike(k1, [k1 EXCEPT !.ssthresh = lower, !.cwnd = 1, !.incr = Mss])
    <3> DEFINE one == 1
    <3>1. one \in Nat
      OBVIOUS
    <3> HIDE DEF one
    <3>2. Alike(k1, [k1 EXCEPT !.ssthresh = lower, !.cwnd = one, !.incr = Mss])
      BY <1>3, <1>4, <1>5, <1>9, <3>1
    <3> QED BY <3>2 DEF one
  <2> QED BY <2>1, <2>2
<1> HIDE DEF k2
<1>11. Fine(k2) /\ k2 \in Blocks
  BY <1>9, <1>10, AlikeFine DEF Alike
<1>12. Alike(k2, k3)
  <2>1. Alike(k2, k2)
    BY <1>6, <1>11
  <2>2. Alike(k2, [k2 EXCEPT !.cwnd = 1, !.incr = Mss])
    <3> DEFINE one == 1
    <3>1. one \in Nat
      OBVIOUS
    <3> HIDE DEF one
    <3>2. Alike(k2, [k2 EXCEPT !.cwnd = one, !.incr = Mss])
      BY <1>4, <1>11, <3>1, NewWindow
    <3> QED BY <3>2 DEF one
  <2> QED BY <2>1, <2>2
<1> HIDE DEF k3
<1>13. Alike(k, k3)
  BY <1>7, <1>8, <1>10, <1>12
<1> QED BY <1>1, <1>13

\* ikcp_flush: the window probe.
LEMMA ProbeFact ==
    ASSUME NEW k, Fine(k), NEW probeDue
    PROVE  Alike(k, Probe(k, probeDue))
<1> DEFINE ask == IF k.probing /\ probeDue THEN k.probe \cup {"SEND"} ELSE k.probe
           k1 == [k EXCEPT !.probing = FALSE]
           k2 == [k EXCEPT !.probing = TRUE, !.probe = ask]
<1>1. k \in Blocks
  BY DEF Fine
<1>2. ask \in SUBSET {"SEND", "TELL"}
  BY <1>1 DEF Blocks
<1>3. Probe(k, probeDue) = IF k.rmt_wnd # 0 THEN k1 ELSE k2
  BY DEF Probe
<1> HIDE DEF ask
<1>4. /\ k1 \in Blocks /\ SameReceiver(k, k1) /\ k1.acklist = k.acklist /\ k1.snd_nxt = k.snd_nxt
      /\ k1.snd_una = k.snd_una /\ k1.snd_buf = k.snd_buf /\ k1.snd_queue = k.snd_queue
  BY <1>1 DEF Blocks, SameReceiver
<1>5. /\ k2 \in Blocks /\ SameReceiver(k, k2) /\ k2.acklist = k.acklist /\ k2.snd_nxt = k.snd_nxt
      /\ k2.snd_una = k.snd_una /\ k2.snd_buf = k.snd_buf /\ k2.snd_queue = k.snd_queue
  BY <1>1, <1>2 DEF Blocks, SameReceiver
<1> HIDE DEF k1, k2
<1>6. Alike(k, k1) /\ Alike(k, k2)
  BY <1>4, <1>5 DEF Alike
<1> QED BY <1>3, <1>6

\* ikcp_flush: what goes out are acknowledgements due, probes and segments in flight.
LEMMA FlushFact ==
    ASSUME Signed, NEW k, Fine(k), NEW due, NEW aged, NEW probeDue
    PROVE  LET r == Flush(k, due, aged, probeDue) IN
           Advanced(k, r.k, 0) /\ r.out \in Seq(Small(Leaving(k, r.k)))
<1> DEFINE probed == Probe(k, probeDue)
           cleared == Cleared(probed)
           moved == MoveToBuf(cleared)
           buf == moved.snd_buf
           timedOut(seg) == seg.xmit > 0 /\ seg.sn \in due
           overtaken(seg) == /\ seg.xmit > 0 /\ seg.sn \notin due
                             /\ FastResend > 0 /\ seg.fastack >= FastResend
           needsend(seg) == seg.xmit = 0 \/ timedOut(seg) \/ overtaken(seg)
           dup(seg) == /\ DupsendOn(k) /\ ~needsend(seg)
                       /\ seg.dups < DupCount /\ seg.sn \in aged
           after(seg) ==
               IF needsend(seg)
               THEN [SentOnce(seg) EXCEPT !.fastack = IF overtaken(seg) THEN 0 ELSE @]
               ELSE IF dup(seg) THEN [SentOnce(seg) EXCEPT !.dups = @ + 1]
               ELSE seg
           changed == \E i \in DOMAIN buf : overtaken(buf[i])
           lost == \E i \in DOMAIN buf : timedOut(buf[i])
           pushes == {i \in DOMAIN buf : needsend(buf[i])}
           dups == {i \in DOMAIN buf : dup(buf[i])}
           buf2 == [i \in DOMAIN buf |-> after(buf[i])]
           dead == moved.dead \/ \E i \in pushes : SentOnce(buf[i]).xmit >= DeadLink
           k1 == [moved EXCEPT !.snd_buf = buf2, !.dead = dead]
           k2 == Shrink(k1, Window(k), changed, lost)
           out == Written(k, "DUPS", buf, dups, Written(k, "PUSH", buf, pushes, Packets(Acks(k) \o Probes(probed))))
<1>1. Flush(k, due, aged, probeDue) = [k |-> k2, out |-> out]
  BY Zenon DEF Flush
<1>2. /\ Fine(cleared) /\ Quiet(k, cleared) /\ Fine(probed) /\ probed.rcv_nxt = k.rcv_nxt
      /\ Len(cleared.snd_queue) = Len(k.snd_queue) + 0
  <2>1. Alike(k, probed)
    BY ProbeFact
  <2>2. Fine(probed) /\ probed \in Blocks
    BY <2>1, AlikeFine DEF Fine
  <2>3. probed.snd_buf = k.snd_buf /\ probed.snd_nxt = k.snd_nxt /\ probed.snd_una = k.snd_una /\ SameReceiver(k, probed)
    <3>1. k \in Blocks
      BY DEF Fine
    <3> QED BY <3>1 DEF Probe, SameReceiver, Blocks
  <2> HIDE DEF probed
  <2>4. cleared = [probed EXCEPT !.acklist = <<>>, !.probe = {}]
    BY DEF Cleared
  <2> HIDE DEF cleared
  <2>5. cleared \in Blocks
    <3>1. <<>> \in Seq(SeqNums) /\ {} \in SUBSET {"SEND", "TELL"}
      OBVIOUS
    <3> QED BY <2>2, <2>4, <3>1 DEF Blocks
  <2>6. Quiet(k, cleared)
    BY <2>2, <2>3, <2>4, <2>5 DEF Quiet, SameReceiver, Blocks
  <2>7. Fine(cleared)
    BY <2>5, <2>6 DEF Quiet, Fine, SameReceiver
  <2>8. Len(cleared.snd_queue) = Len(k.snd_queue) + 0
    <3>1. cleared.snd_queue = probed.snd_queue
      BY <2>2, <2>4 DEF Blocks
    <3>2. cleared.snd_queue = k.snd_queue
      BY <2>1, <3>1 DEF Alike
    <3>3. k.snd_queue \in Seq(Queued)
      BY DEF Fine, Blocks
    <3>4. Len(k.snd_queue) \in Nat
      BY <3>3
    <3> QED BY <3>2, <3>4
  <2> QED BY <2>2, <2>3, <2>6, <2>7, <2>8 DEF SameReceiver
<1> HIDE DEF cleared, probed
<1>3. Fine(moved) /\ buf \in Seq(Held) /\ moved \in Blocks
  BY <1>2, MoveToBufFact, BlockIs
<1>4. ASSUME NEW i \in 1 .. Len(buf) PROVE after(buf[i]) \in Held /\ after(buf[i]).sn = buf[i].sn
  <2> DEFINE seg == buf[i]
             once == SentOnce(seg)
             fast == IF overtaken(seg) THEN 0 ELSE once.fastack
  <2>1. seg \in Held
    BY <1>3, <1>4
  <2> HIDE DEF seg
  <2>2. once \in Held /\ once.sn = seg.sn
    BY <2>1, SentOnceFact
  <2> HIDE DEF once
  <2>3. fast \in Nat /\ once.dups + 1 \in Nat
    BY <2>2 DEF Held
  <2> DEFINE more == once.dups + 1
  <2>4. after(seg) = IF needsend(seg) THEN [once EXCEPT !.fastack = fast]
                     ELSE IF dup(seg) THEN [once EXCEPT !.dups = more] ELSE seg
    BY DEF once
  <2>5. more \in Nat
    BY <2>3
  <2> HIDE DEF fast, more, after, needsend, dup
  <2>6. /\ [once EXCEPT !.fastack = fast] \in Held /\ [once EXCEPT !.dups = more] \in Held
        /\ [once EXCEPT !.fastack = fast].sn = seg.sn /\ [once EXCEPT !.dups = more].sn = seg.sn
    BY <2>2, <2>3, <2>5 DEF Held
  <2>7. after(seg) \in Held /\ after(seg).sn = seg.sn
    BY <2>1, <2>4, <2>6
  <2> QED BY <2>7 DEF seg
<1> HIDE DEF after
<1>5. Fine(k1) /\ Alike(moved, k1)
  <2>1. DOMAIN buf = 1 .. Len(buf) /\ Len(buf) \in Nat
    BY <1>3
  <2>2. buf2 \in [1 .. Len(buf) -> Held] /\ \A i \in 1 .. Len(buf) : buf2[i].sn = buf[i].sn
    BY <1>4, <2>1
  <2> HIDE DEF buf2, dead
  <2>3. buf2 \in Seq(Held) /\ Len(buf2) = Len(buf)
    BY <2>1, <2>2
  <2>4. dead \in BOOLEAN
    BY <1>3 DEF dead, Blocks
  <2>5. k1 \in Blocks /\ SameReceiver(moved, k1) /\ k1.acklist = moved.acklist /\ k1.snd_nxt = moved.snd_nxt
        /\ k1.snd_una = moved.snd_una /\ k1.snd_buf = buf2 /\ k1.snd_queue = moved.snd_queue
    BY <1>3, <2>3, <2>4 DEF Blocks, SameReceiver
  <2>6. Alike(moved, k1)
    <3> HIDE DEF k1, moved
    <3> QED BY <2>2, <2>3, <2>5 DEF Alike
  <2> QED BY <1>3, <2>6, AlikeFine
<1> HIDE DEF k1
<1>6. Alike(k1, k2)
  <2>1. Window(k) \in Nat
    BY WindowFact DEF Fine
  <2> QED BY <1>5, <2>1, ShrinkFact
<1> HIDE DEF k2
<1>7. Alike(moved, k2)
  <2>1. Len(k1.snd_buf) = Len(moved.snd_buf)
    BY <1>5 DEF Alike
  <2> QED BY <1>5, <1>6, <2>1 DEF Alike, SameReceiver
<1>8. /\ Advanced(k, k2, 0)
      /\ \A x \in SeqNums : Has(buf, x) => Has(k2.snd_buf, x)
  BY <1>2, <1>7, MovedFact
<1> HIDE DEF moved
<1>9. out \in Seq(Small(Leaving(k, k2)))
  <2> DEFINE S == Leaving(k, k2)
             first == Packets(Acks(k) \o Probes(probed))
             second == Written(k, "PUSH", buf, pushes, first)
  <2>1. S \in SUBSET Segs
    BY DEF Leaving
  <2>2. Acks(k) \in Seq(S) /\ Probes(probed) \in Seq(S)
    BY <1>2, AcksFact, ProbesFact
  <2>3. \A i \in 1 .. Len(buf) : Data(k, "PUSH", buf[i]) \in S /\ Data(k, "DUPS", buf[i]) \in S
    <3> TAKE i \in 1 .. Len(buf)
    <3>1. buf[i] \in Held
      BY <1>3
    <3>2. Has(buf, buf[i].sn) /\ buf[i].sn \in SeqNums
      BY <3>1 DEF Has, Held
    <3>3. Has(k2.snd_buf, buf[i].sn)
      BY <1>8, <3>2
    <3> QED BY <3>1, <3>3, DataFact
  <2> HIDE DEF S, first, second, buf, pushes, dups
  <2>4. Acks(k) \o Probes(probed) \in Seq(S)
    BY <2>2
  <2>5. first \in Seq(Small(S))
    BY <2>1, <2>4, PacketsFact DEF first
  <2>6. second \in Seq(Small(S))
    BY <1>3, <2>1, <2>3, <2>5, WrittenFact DEF second
  <2>7. Written(k, "DUPS", buf, dups, second) \in Seq(Small(S))
    BY <1>3, <2>1, <2>3, <2>6, WrittenFact
  <2> QED BY <2>7 DEF S, second, first
<1> HIDE DEF out
<1> QED BY <1>1, <1>8, <1>9

-----------------------------------------------------------------------------
(* Send                                                                    *)

\* pvp_ikcp_send_ex: what goes out at once is what has just been moved, and
\* duplicates of segments in flight.
LEMMA SendExFact ==
    ASSUME Signed, NEW k, Fine(k), NEW data, Fragments(data) \in Seq(Queued)
    PROVE  LET r == SendEx(k, data) IN
           Advanced(k, r.k, Len(Fragments(data))) /\ r.out \in Seq(Small(Leaving(k, r.k)))
<1> DEFINE queued == [k EXCEPT !.snd_queue = @ \o Fragments(data)]
           n      == Admitted(queued)
           silent == [queued EXCEPT !.acklist = <<>>]
           moved  == MoveToBuf(silent)
           buf    == moved.snd_buf
           old    == Len(k.snd_buf)
           fresh  == SubSeq(buf, old + 1, old + n)
           pushes == [i \in 1 .. n |-> Data(k, "PUSH", fresh[i])]
           packets == Packets(Acks(k) \o pushes)
           r == IF n = 0 THEN [packets |-> packets, count |-> 0]
                ELSE WithDuplicates(k, packets, k.snd_buf)
           after(i, seg) == IF i > old - r.count THEN SentOnce(seg) ELSE seg
           buf2 == [i \in DOMAIN buf |-> after(i, buf[i])]
           k2 == [moved EXCEPT !.snd_buf = buf2]
<1>1. SendEx(k, data) = [k |-> k2, out |-> r.packets]
  BY Zenon DEF SendEx
<1>2. k \in Blocks
  BY DEF Fine
<1>3. /\ queued \in Blocks /\ silent \in Blocks /\ Quiet(k, silent)
      /\ Fine(queued) /\ n = Admitted(silent)
      /\ Len(silent.snd_queue) = Len(k.snd_queue) + Len(Fragments(data))
  <2> DEFINE q == k.snd_queue \o Fragments(data)
  <2>1. /\ q \in Seq(Queued) /\ <<>> \in Seq(SeqNums)
        /\ Len(q) = Len(k.snd_queue) + Len(Fragments(data))
    <3>1. k.snd_queue \in Seq(Queued)
      BY <1>2 DEF Blocks
    <3> QED BY <3>1
  <2>2. queued = [k EXCEPT !.snd_queue = q]
    OBVIOUS
  <2> HIDE DEF q, queued
  <2>3. queued \in Blocks /\ SameReceiver(k, queued) /\ queued.snd_nxt = k.snd_nxt
        /\ queued.snd_una = k.snd_una /\ queued.snd_buf = k.snd_buf /\ queued.snd_queue = q
    BY <1>2, <2>1, <2>2 DEF Blocks, SameReceiver
  <2>4. silent \in Blocks /\ SameReceiver(queued, silent) /\ silent.acklist = <<>> /\ silent.snd_nxt = queued.snd_nxt
        /\ silent.snd_una = queued.snd_una /\ silent.snd_buf = queued.snd_buf
        /\ silent.snd_queue = queued.snd_queue /\ silent.rmt_wnd = queued.rmt_wnd
        /\ silent.cwnd = queued.cwnd
    BY <2>1, <2>3 DEF Blocks, SameReceiver
  <2> HIDE DEF silent, n
  <2>5. Quiet(k, silent)
    BY <2>3, <2>4 DEF Quiet, SameReceiver
  <2>6. Fine(queued)
    BY <2>3 DEF Fine, SameReceiver
  <2>7. n = Admitted(silent)
    <3>1. Window(silent) = Window(queued)
      BY <2>4 DEF Window
    <3> QED BY <2>4, <3>1 DEF Admitted, n
  <2> QED BY <2>1, <2>3, <2>4, <2>5, <2>6, <2>7
<1> HIDE DEF queued, silent
<1>4. Fine(silent) /\ Len(silent.snd_buf) = old
  BY <1>3 DEF Quiet, Fine, SameReceiver
<1>5. /\ Fine(moved) /\ buf \in Seq(Held) /\ moved \in Blocks
      /\ n \in Nat /\ Len(buf) = old + n /\ old \in Nat
  <2>1. Fine(moved) /\ n \in Nat /\ Len(buf) = Len(silent.snd_buf) + n
    BY <1>3, <1>4, MoveToBufFact
  <2>2. k.snd_buf \in Seq(Held)
    BY BlockIs
  <2> QED BY <1>4, <2>1, <2>2, BlockIs
<1> HIDE DEF n
<1>6. ASSUME NEW i \in 1 .. Len(buf) PROVE after(i, buf[i]) \in Held /\ after(i, buf[i]).sn = buf[i].sn
  <2> DEFINE seg == buf[i]
  <2>1. seg \in Held
    BY <1>5
  <2> HIDE DEF seg
  <2>2. SentOnce(seg) \in Held /\ SentOnce(seg).sn = seg.sn
    BY <2>1, SentOnceFact
  <2> HIDE DEF r
  <2>3. after(i, seg) \in Held /\ after(i, seg).sn = seg.sn
    BY <2>1, <2>2
  <2> QED BY <2>3 DEF seg
<1> HIDE DEF after
<1>7. Alike(moved, k2)
  <2>1. DOMAIN buf = 1 .. Len(buf) /\ Len(buf) \in Nat
    BY <1>5
  <2>2. buf2 \in [1 .. Len(buf) -> Held] /\ \A i \in 1 .. Len(buf) : buf2[i].sn = buf[i].sn
    BY <1>6, <2>1
  <2> HIDE DEF buf2
  <2>3. buf2 \in Seq(Held) /\ Len(buf2) = Len(buf)
    BY <2>1, <2>2
  <2>4. k2 \in Blocks /\ SameReceiver(moved, k2) /\ k2.acklist = moved.acklist /\ k2.snd_nxt = moved.snd_nxt
        /\ k2.snd_una = moved.snd_una /\ k2.snd_buf = buf2 /\ k2.snd_queue = moved.snd_queue
    BY <1>5, <2>3 DEF Blocks, SameReceiver
  <2> HIDE DEF k2, moved
  <2> QED BY <2>2, <2>3, <2>4 DEF Alike
<1> HIDE DEF k2
<1>8. /\ Advanced(k, k2, Len(Fragments(data)))
      /\ \A x \in SeqNums : Has(buf, x) => Has(k2.snd_buf, x)
      /\ \A x \in SeqNums : Has(k.snd_buf, x) => Has(k2.snd_buf, x)
  BY <1>3, <1>7, MovedFact
<1> HIDE DEF moved
<1>9. r.packets \in Seq(Small(Leaving(k, k2)))
  <2> DEFINE S == Leaving(k, k2)
  <2>1. S \in SUBSET Segs
    BY DEF Leaving
  <2>2. Acks(k) \in Seq(S)
    BY AcksFact
  <2>3. fresh \in Seq(Held) /\ Len(fresh) = n /\ \A i \in 1 .. n : fresh[i] = buf[old + i]
    <3> HIDE DEF buf, old
    <3> QED BY <1>5
  <2>4. \A i \in 1 .. n : Data(k, "PUSH", fresh[i]) \in S
    <3> TAKE i \in 1 .. n
    <3>1. fresh[i] \in Held /\ old + i \in 1 .. Len(buf) /\ fresh[i] = buf[old + i]
      <4> HIDE DEF fresh, buf, old
      <4> QED BY <1>5, <2>3
    <3> DEFINE seg == fresh[i]
    <3>2. Has(buf, seg.sn) /\ seg.sn \in SeqNums
      <4> HIDE DEF fresh, buf, old
      <4> QED BY <3>1 DEF Has, Held
    <3> HIDE DEF seg
    <3>3. Has(k2.snd_buf, seg.sn)
      BY <1>8, <3>2
    <3>4. seg \in Held
      BY <3>1 DEF seg
    <3>5. Data(k, "PUSH", seg) \in S
      BY <3>3, <3>4, DataFact
    <3> QED BY <3>5 DEF seg
  <2>5. \A i \in 1 .. Len(k.snd_buf) : Data(k, "DUPS", k.snd_buf[i]) \in S
    <3> TAKE i \in 1 .. Len(k.snd_buf)
    <3> DEFINE seg == k.snd_buf[i]
    <3>1. seg \in Held
      BY BlockIs
    <3>2. Has(k.snd_buf, seg.sn) /\ seg.sn \in SeqNums
      BY <3>1 DEF Has, Held
    <3> HIDE DEF seg
    <3>3. Has(k2.snd_buf, seg.sn)
      BY <1>8, <3>2
    <3>4. Data(k, "DUPS", seg) \in S
      BY <3>1, <3>3, DataFact
    <3> QED BY <3>4 DEF seg
  <2> HIDE DEF S, fresh
  <2>6. pushes \in Seq(S)
    BY <1>5, <2>4
  <2> HIDE DEF pushes
  <2>7. Acks(k) \o pushes \in Seq(S)
    BY <2>2, <2>6
  <2>8. packets \in Seq(Small(S))
    BY <2>1, <2>7, PacketsFact
  <2> HIDE DEF packets
  <2>9. k.snd_buf \in Seq(Held)
    BY BlockIs
  <2>10. WithDuplicates(k, packets, k.snd_buf).packets \in Seq(Small(S))
    BY <2>1, <2>5, <2>8, <2>9, DuplicatesFact
  <2>11. r.packets \in Seq(Small(S))
    BY <2>8, <2>10
  <2> QED BY <2>11 DEF S
<1> HIDE DEF r
<1> QED BY <1>1, <1>8, <1>9

-----------------------------------------------------------------------------
(* A step of one end, seen from both                                       *)

\* Messages taken after a packet.
LEMMA DrainedFact ==
    ASSUME Signed, NEW k, NEW p, NEW k1, NEW k2, Fine(k), Fine(p), Heard(k, p, k1), Received(k1, k2)
    PROVE  Heard(k, p, k2)
<1> DEFINE nxt == p.snd_nxt
<1>1. k \in Blocks /\ k1 \in Blocks /\ k2 \in Blocks /\ nxt \in SeqNums /\ Fine(k2)
  BY BlockIs DEF Heard, Received
<1>2. Keeps(nxt, k, k1) /\ Below(nxt, k1)
  BY DEF Heard, Keeps
<1>3. Keeps(nxt, k1, k2)
  BY <1>1, <1>2 DEF Received
<1>4. Keeps(nxt, k, k2)
  BY <1>1, <1>2, <1>3, KeepsTrans
<1>5. k2.snd_nxt = k.snd_nxt /\ Covers(k2, p)
  BY DEF Heard, Received, SameSender, Covers
<1>6. Honest(p, k2)
  <2> SUFFICES ASSUME NEW x \in Due(k2) PROVE Settled(p, k2, x)
    BY DEF Honest
  <2>1. x \in Due(k1)
    BY DEF Received, Due
  <2>2. x \in SeqNums
    <3>1. k1.acklist \in Seq(SeqNums)
      BY <1>1 DEF Blocks
    <3> QED BY <2>1, <3>1 DEF Due
  <2>3. Settled(p, k1, x)
    BY <2>1 DEF Heard, Honest
  <2> QED BY <1>3, <2>2, <2>3 DEF Settled, Keeps
<1> QED BY <1>1, <1>4, <1>5, <1>6 DEF Heard

\* What holds of two ends holds after one has heard from the other.
LEMMA HearStep ==
    ASSUME NEW k, NEW p, NEW k2, Fine(k), Fine(p), Joined(k, p), Joined(p, k), Honest(k, p),
           Heard(k, p, k2)
    PROVE  /\ Joined(k2, p) /\ Joined(p, k2) /\ Honest(k2, p) /\ Honest(p, k2)
           /\ \A seg \in Segs : Comes(k, p, seg) => Comes(k2, p, seg)
           /\ \A seg \in Segs : Comes(p, k, seg) => Comes(p, k2, seg)
<1> DEFINE nxt == p.snd_nxt
<1>1. nxt \in SeqNums /\ k.rcv_nxt \in SeqNums /\ k2.rcv_nxt \in SeqNums
  BY BlockIs DEF Heard
<1>2. k2.snd_nxt = k.snd_nxt /\ Keeps(nxt, k, k2)
  BY DEF Heard
<1>3. Joined(k2, p)
  BY <1>2 DEF Heard, Joined, Below
<1>4. Joined(p, k2)
  <2>1. Below(nxt, k2)
    BY <1>2 DEF Keeps
  <2>2. Covers(p, k2)
    <3> SUFFICES ASSUME NEW x \in SeqNums, 0 < Gap(nxt, x), Gap(nxt, x) <= Gap(nxt, k2.rcv_nxt)
                 PROVE  Has(p.snd_buf, x) \/ Has(k2.rcv_buf, x)
      BY DEF Covers
    <3>1. Gap(nxt, x) \in Nat /\ Gap(nxt, k.rcv_nxt) \in Nat /\ Gap(nxt, k2.rcv_nxt) \in Nat
      BY <1>1, GapNat
    <3>2. Gap(nxt, k2.rcv_nxt) <= Gap(nxt, k.rcv_nxt)
      BY <1>2 DEF Keeps
    <3>3. Gap(nxt, x) <= Gap(nxt, k.rcv_nxt)
      BY <3>1, <3>2
    <3>4. Has(p.snd_buf, x) \/ Has(k.rcv_buf, x)
      BY <3>3 DEF Joined, Covers
    <3>5. Has(k.rcv_buf, x) => Got(nxt, k2, x)
      BY <1>2 DEF Keeps, Got
    <3>6. ~(Gap(nxt, x) > Gap(nxt, k2.rcv_nxt))
      BY <3>1
    <3> QED BY <3>4, <3>5, <3>6 DEF Got
  <2> QED BY <2>1, <2>2 DEF Joined
<1>5. Honest(k2, p) /\ Honest(p, k2)
  BY <1>2 DEF Heard, Honest, Settled
<1>6. \A seg \in Segs : Comes(k, p, seg) => Comes(k2, p, seg)
  BY <1>2 DEF Comes, Settled
<1>7. ASSUME NEW seg \in Segs, Comes(p, k, seg) PROVE Comes(p, k2, seg)
  <2>1. seg.una \in SeqNums /\ seg.sn \in SeqNums
    BY SegIs
  <2>2. Gap(nxt, k2.rcv_nxt) <= Gap(nxt, seg.una)
    <3>1. Gap(nxt, k2.rcv_nxt) <= Gap(nxt, k.rcv_nxt) /\ Gap(nxt, k.rcv_nxt) <= Gap(nxt, seg.una)
      BY <1>2, <1>7 DEF Keeps, Comes
    <3>2. Gap(nxt, seg.una) \in Nat /\ Gap(nxt, k.rcv_nxt) \in Nat /\ Gap(nxt, k2.rcv_nxt) \in Nat
      BY <1>1, <2>1, GapNat
    <3> QED BY <3>1, <3>2
  <2>3. seg.cmd = "ACK" => Settled(p, k2, seg.sn)
    BY <1>2, <1>7, <2>1 DEF Comes, Settled, Keeps
  <2> QED BY <1>2, <1>7, <2>2, <2>3 DEF Comes
<1> QED BY <1>3, <1>4, <1>5, <1>6, <1>7

\* A number that is not too old when the sender advances.
LEMMA Grown ==
    ASSUME Wide, NEW b \in SeqNums, NEW n \in Nat, n <= SndWnd, NEW x \in SeqNums,
           2 * Gap(b, x) < Word, Diff(b, x) < Half
    PROVE  Gap(Plus(b, n), x) = Gap(b, x) + n /\ 2 * Gap(Plus(b, n), x) < Word
<1> DEFINE g == Gap(b, x)
<1>1. g \in Nat /\ g < Half /\ n \in SeqNums
  <2>1. g \in Nat /\ g < Half
    BY GapIs, GapNat
  <2>2. n \in SeqNums
    BY Sizes, WideFact
  <2> QED BY <2>1, <2>2
<1>2. Gap(b, x) + n < Word => Gap(Plus(b, n), x) = Gap(b, x) + n
  BY <1>1, GapPlus
<1> HIDE DEF g
<1>3. 2 * (g + n) < Word /\ g + n < Word
  BY <1>1, WideFact, Sizes
<1> QED BY <1>2, <1>3 DEF g

\* What holds of two ends holds after one has sent.
LEMMA SendStep ==
    ASSUME Wide, NEW k, NEW p, NEW k2, Fine(k), Fine(p), Joined(k, p), Joined(p, k),
           Honest(k, p), Honest(p, k), NEW more, Advanced(k, k2, more),
           \A x \in Due(p) : Diff(k.snd_nxt, x) < Half
    PROVE  /\ Joined(k2, p) /\ Joined(p, k2) /\ Honest(k2, p) /\ Honest(p, k2)
           /\ \A seg \in Segs : Comes(k, p, seg) /\ Young(k, p, seg) => Comes(k2, p, seg)
           /\ \A seg \in Segs : Comes(p, k, seg) /\ Young(p, k, seg) => Comes(p, k2, seg)
           /\ \A seg \in Leaving(k, k2) : Comes(p, k2, seg)
<1>1. PICK n \in Nat :
         /\ n <= SndWnd /\ k2.snd_nxt = Plus(k.snd_nxt, n)
         /\ \A x \in SeqNums : Has(k.snd_buf, x) => Has(k2.snd_buf, x)
         /\ \A x \in SeqNums : 0 < Gap(k2.snd_nxt, x) /\ Gap(k2.snd_nxt, x) <= n => Has(k2.snd_buf, x)
  BY DEF Advanced
<1>2. Fine(k2) /\ SameReceiver(k, k2) /\ k2.acklist = <<>>
  BY DEF Advanced
<1> DEFINE old == k.snd_nxt
           new == k2.snd_nxt
           G == Gap(old, p.rcv_nxt)
<1>3. /\ old \in SeqNums /\ new \in SeqNums /\ p.rcv_nxt \in SeqNums /\ k.rcv_nxt \in SeqNums
      /\ p.snd_nxt \in SeqNums /\ n \in SeqNums /\ Signed /\ p.rcv_buf \in Seq(Kept) /\ p.acklist \in Seq(SeqNums)
  <2>1. n \in SeqNums
    BY <1>1, Sizes, WideFact
  <2> QED BY <1>2, <2>1, BlockIs, WideFact
<1>0. ASSUME NEW b \in SeqNums, NEW m \in SeqNums, NEW x \in SeqNums
      PROVE  /\ Gap(b, x) + m < Word => Gap(Plus(b, m), x) = Gap(b, x) + m
             /\ Gap(Plus(b, m), b) = m
             /\ m = Gap(x, b) => \A y \in SeqNums : m <= Gap(x, y) => Gap(b, y) = Gap(x, y) - m
  BY GapPlus, GapVia
<1>4. G \in Nat /\ Gap(new, p.rcv_nxt) = G + n
  <2>1. G \in Nat /\ G <= SndWnd + RcvWnd
    BY <1>3, CloseFact
  <2>2. Gap(old, p.rcv_nxt) + n < Word => Gap(Plus(old, n), p.rcv_nxt) = Gap(old, p.rcv_nxt) + n
    <3> DEFINE z == p.rcv_nxt
    <3>1. old \in SeqNums /\ z \in SeqNums /\ n \in SeqNums
      BY <1>3
    <3> HIDE DEF old, z
    <3>2. Gap(old, z) + n < Word => Gap(Plus(old, n), z) = Gap(old, z) + n
      BY <1>0, <3>1
    <3> QED BY <3>2 DEF z
  <2>3. Gap(old, p.rcv_nxt) + n < Word
    <3> HIDE DEF G
    <3>1. G + n < Word
      BY <1>1, <2>1, Sizes, WideFact DEF Wide
    <3> QED BY <3>1 DEF G
  <2> QED BY <1>1, <2>1, <2>2, <2>3
<1>5. ASSUME NEW x \in SeqNums, 2 * Gap(old, x) < Word, Diff(old, x) < Half
      PROVE  /\ Gap(new, x) = Gap(old, x) + n /\ 2 * Gap(new, x) < Word /\ Gap(old, x) \in Nat
  BY <1>1, <1>3, <1>5, Grown, GapNat
<1>6. Joined(k2, p)
  <2>1. Below(new, p)
    <3> SUFFICES ASSUME NEW i \in 1 .. Len(p.rcv_buf)
                 PROVE  Gap(p.rcv_buf[i].sn, p.rcv_nxt) < Gap(new, p.rcv_nxt)
      BY DEF Below
    <3> DEFINE g == Gap(p.rcv_buf[i].sn, p.rcv_nxt)
    <3>1. g < G
      BY DEF Joined, Below
    <3>2. g \in Nat
      <4>1. p.rcv_buf[i] \in Kept
        BY <1>3
      <4>2. p.rcv_buf[i].sn \in SeqNums
        BY <4>1 DEF Kept
      <4> QED BY <1>3, <4>2, GapNat
    <3> HIDE DEF g, G
    <3>3. g < G + n
      BY <1>4, <3>1, <3>2
    <3> QED BY <1>4, <3>3 DEF g
  <2>2. Covers(k2, p)
    <3> SUFFICES ASSUME NEW x \in SeqNums, 0 < Gap(new, x), Gap(new, x) <= Gap(new, p.rcv_nxt)
                 PROVE  Has(k2.snd_buf, x) \/ Has(p.rcv_buf, x)
      BY DEF Covers
    <3>1. CASE Gap(new, x) <= n
      BY <1>1, <3>1
    <3>2. CASE n < Gap(new, x)
      <4>1. Gap(new, old) = n
        <5> HIDE DEF old
        <5>1. Gap(Plus(old, n), old) = n
          BY <1>0, <1>3
        <5> QED BY <1>1, <5>1 DEF old
      <4>2. Gap(new, x) \in Nat
        BY <1>3, GapNat
      <4>3. Gap(new, old) <= Gap(new, x)
        BY <3>2, <4>1, <4>2
      <4>4. Gap(old, x) = Gap(new, x) - n
        <5> HIDE DEF old, new
        <5>1. n <= Gap(new, x)
          BY <3>2, <4>2
        <5> QED BY <1>0, <1>3, <4>1, <5>1
      <4>5. 0 < Gap(old, x) /\ Gap(old, x) <= G
        <5> DEFINE h == Gap(new, x)
        <5>1. h \in Nat /\ h <= G + n /\ n < h
          BY <1>4, <3>2, <4>2
        <5> HIDE DEF h, G
        <5>2. 0 < h - n /\ h - n <= G
          BY <1>4, <5>1
        <5> QED BY <4>4, <5>2 DEF h
      <4>6. Has(k.snd_buf, x) \/ Has(p.rcv_buf, x)
        BY <4>5 DEF Joined, Covers
      <4> QED BY <1>1, <4>6
    <3>3. Gap(new, x) \in Nat
      BY <1>3, GapNat
    <3> QED BY <3>1, <3>2, <3>3
  <2> QED BY <2>1, <2>2 DEF Joined
<1>7. Joined(p, k2)
  BY <1>2 DEF Joined, Below, Covers, SameReceiver
<1>8. ASSUME NEW x \in SeqNums, Settled(k, p, x), Diff(old, x) < Half PROVE Settled(k2, p, x)
  <2>1. 2 * Gap(old, x) < Word /\ Got(old, p, x)
    BY <1>8 DEF Settled
  <2>2. Gap(new, x) = Gap(old, x) + n /\ 2 * Gap(new, x) < Word /\ Gap(old, x) \in Nat
    BY <1>5, <1>8, <2>1
  <2>3. Gap(old, x) > G => Gap(new, x) > Gap(new, p.rcv_nxt)
    <3> DEFINE h == Gap(old, x)
    <3>1. h \in Nat
      BY <2>2
    <3> HIDE DEF h, G
    <3>2. h > G => h + n > G + n
      BY <1>4, <3>1
    <3> QED BY <1>4, <2>2, <3>2 DEF h
  <2>4. Got(new, p, x)
    BY <2>1, <2>3 DEF Got
  <2> QED BY <2>2, <2>4 DEF Settled
<1>9. Honest(k2, p)
  <2> SUFFICES ASSUME NEW x \in Due(p) PROVE Settled(k2, p, x)
    BY DEF Honest
  <2>1. x \in SeqNums
    BY <1>3 DEF Due
  <2>2. Settled(k, p, x) /\ Diff(old, x) < Half
    BY DEF Honest
  <2> QED BY <1>8, <2>1, <2>2
<1>10. Honest(p, k2)
  BY <1>2 DEF Honest, Due
<1>11. \A x : Settled(p, k, x) => Settled(p, k2, x)
  BY <1>2 DEF Settled, Got, SameReceiver
<1>12. ASSUME NEW seg \in Segs, Comes(k, p, seg), Young(k, p, seg) PROVE Comes(k2, p, seg)
  <2>1. seg.una \in SeqNums /\ seg.sn \in SeqNums
    BY SegIs
  <2>2. /\ Gap(new, seg.una) = Gap(old, seg.una) + n /\ 2 * Gap(new, seg.una) < Word
        /\ Gap(old, seg.una) \in Nat
    BY <1>5, <1>12, <2>1 DEF Comes, Young
  <2>3. Gap(new, p.rcv_nxt) <= Gap(new, seg.una)
    <3> DEFINE h == Gap(old, seg.una)
    <3>1. h \in Nat /\ G <= h
      BY <1>12, <2>2 DEF Comes
    <3> HIDE DEF h, G
    <3>2. G + n <= h + n
      BY <1>4, <3>1
    <3> QED BY <1>4, <2>2, <3>2 DEF h
  <2>4. seg.cmd = "ACK" => Settled(k2, p, seg.sn)
    BY <1>8, <1>12, <2>1 DEF Comes, Young
  <2> QED BY <1>12, <2>2, <2>3, <2>4 DEF Comes
<1>13. ASSUME NEW seg \in Segs, Comes(p, k, seg), Young(p, k, seg) PROVE Comes(p, k2, seg)
  <2>1. seg.sn \in SeqNums
    BY SegIs
  <2>2. k2.rcv_nxt = k.rcv_nxt
    BY <1>2 DEF SameReceiver
  <2>3. seg.cmd \in {"PUSH", "DUPS"} => 0 < Gap(new, seg.sn) /\ 2 * Gap(new, seg.sn) < Word
    <3> SUFFICES ASSUME seg.cmd \in {"PUSH", "DUPS"} PROVE 0 < Gap(new, seg.sn) /\ 2 * Gap(new, seg.sn) < Word
      OBVIOUS
    <3>1. 0 < Gap(old, seg.sn) /\ 2 * Gap(old, seg.sn) < Word /\ Diff(old, seg.sn) < Half
      BY <1>13 DEF Comes, Young
    <3>2. Gap(new, seg.sn) = Gap(old, seg.sn) + n /\ 2 * Gap(new, seg.sn) < Word /\ Gap(old, seg.sn) \in Nat
      BY <1>5, <2>1, <3>1
    <3> DEFINE h == Gap(old, seg.sn)
    <3>3. h \in Nat /\ 0 < h
      BY <3>1, <3>2
    <3> HIDE DEF h
    <3>4. 0 < h + n
      BY <3>3
    <3> QED BY <3>2, <3>4 DEF h
  <2> QED BY <1>11, <1>13, <2>2, <2>3 DEF Comes
<1>14. ASSUME NEW seg \in Leaving(k, k2) PROVE Comes(p, k2, seg)
  <2>1. seg \in Segs /\ seg.una = k2.rcv_nxt /\ seg.una = k.rcv_nxt
    BY <1>2 DEF Leaving, SameReceiver
  <2>2. Gap(p.snd_nxt, k.rcv_nxt) \in Nat /\ 2 * Gap(p.snd_nxt, k.rcv_nxt) < Word
    <3> DEFINE h == Gap(p.snd_nxt, k.rcv_nxt)
    <3>1. h \in Nat /\ h <= SndWnd + RcvWnd
      BY <1>3, CloseFact
    <3> HIDE DEF h
    <3>2. 2 * h < Word
      BY <3>1, Sizes, WideFact DEF Wide
    <3> QED BY <3>1, <3>2 DEF h
  <2>3. seg.cmd = "ACK" => Settled(p, k2, seg.sn)
    BY <1>11 DEF Leaving, Honest
  <2>4. seg.cmd \in {"PUSH", "DUPS"} => 0 < Gap(new, seg.sn) /\ 2 * Gap(new, seg.sn) < Word
    <3> SUFFICES ASSUME seg.cmd \in {"PUSH", "DUPS"} PROVE 0 < Gap(new, seg.sn) /\ 2 * Gap(new, seg.sn) < Word
      OBVIOUS
    <3>1. PICK i \in 1 .. Len(k2.snd_buf) : k2.snd_buf[i].sn = seg.sn
      BY DEF Leaving, Has
    <3>2. /\ k2.snd_una \in SeqNums /\ k2.snd_buf \in Seq(Held)
          /\ SendSide(new, k2.snd_una, k2.snd_buf)
      BY <1>2, BlockIs DEF Fine
    <3> HIDE DEF new
    <3>3. Gap(new, k2.snd_buf[i].sn) \in Nat \ {0} /\ 2 * Gap(new, k2.snd_buf[i].sn) < Word
      BY <1>3, <3>2, SideNats
    <3> DEFINE h == Gap(new, seg.sn)
    <3>4. h \in Nat \ {0} /\ 2 * h < Word
      BY <3>1, <3>3
    <3> HIDE DEF h
    <3>5. 0 < h
      BY <3>4
    <3> QED BY <3>4, <3>5 DEF h
  <2>5. Gap(p.snd_nxt, k2.rcv_nxt) <= Gap(p.snd_nxt, seg.una)
    BY <2>1, <2>2
  <2> QED BY <2>1, <2>2, <2>3, <2>4, <2>5 DEF Comes
<1> QED BY <1>6, <1>7, <1>9, <1>10, <1>12, <1>13, <1>14

-----------------------------------------------------------------------------
(* Each end by itself: the invariant of the session                        *)

\* The two ends.
LEMMA PeerFact ==
    ASSUME NEW e \in Ends
    PROVE  Peer(e) \in Ends /\ Peer(e) # e /\ Peer(Peer(e)) = e /\ \A f \in Ends : f = e \/ f = Peer(e)
<1>1. PICK a \in Ends, b \in Ends : a # b /\ Ends = {a, b}
  BY EndsAssumption
<1>2. ASSUME NEW c \in Ends PROVE Peer(c) \in Ends /\ Peer(c) # c
  <2>1. \E p \in Ends : p # c
    BY <1>1
  <2> QED BY <2>1 DEF Peer
<1>3. Peer(e) \in Ends /\ Peer(e) # e /\ Peer(Peer(e)) \in Ends /\ Peer(Peer(e)) # Peer(e)
  BY <1>2
<1> QED BY <1>1, <1>3

\* What each end keeps by itself.
Local ==
    /\ kcp \in [Ends -> Blocks] /\ \A e \in Ends : Fine(kcp[e])
    /\ net \in [Ends -> Seq(Small(Segs))]
    /\ sent \in [Ends -> Seq(Seq(Bytes))]

\* Packets of some segments are packets of segments.
LEMMA SmallMono ==
    ASSUME NEW S \in SUBSET Segs, NEW out \in Seq(Small(S))
    PROVE  out \in Seq(Small(Segs))
<1>1. Small(S) \subseteq Small(Segs)
  <2> SUFFICES ASSUME NEW p \in Small(S) PROVE p \in Small(Segs)
    OBVIOUS
  <2>1. p \in Seq(S) /\ Size(p) <= Mtu
    BY DEF Small
  <2>2. p \in Seq(Segs)
    BY <2>1
  <2> QED BY <2>1, <2>2 DEF Small
<1> QED BY <1>1

\* A new control block.
LEMMA NewFine ==
    Fine(NewKcp) /\ NewKcp.acklist = <<>> /\ NewKcp.snd_nxt = 0 /\ NewKcp.rcv_nxt = 0
    /\ NewKcp.snd_buf = <<>> /\ NewKcp.rcv_buf = <<>>
<1>1. /\ NewKcp.acklist = <<>> /\ NewKcp.snd_nxt = 0 /\ NewKcp.rcv_nxt = 0 /\ NewKcp.snd_una = 0
      /\ NewKcp.snd_buf = <<>> /\ NewKcp.rcv_buf = <<>> /\ NewKcp.rcv_queue = <<>>
  BY DEF NewKcp
<1>2. 0 \in SeqNums /\ Gap(0, 0) = 0
  BY Sizes DEF Gap
<1>3. NewKcp \in Blocks
  <2>1. /\ <<>> \in Seq(Queued) /\ <<>> \in Seq(Held) /\ <<>> \in Seq(Kept) /\ <<>> \in Seq(SeqNums)
        /\ {} \in SUBSET {"SEND", "TELL"} /\ FALSE \in BOOLEAN /\ 0 \in Nat
    OBVIOUS
  <2>2. WndSnd \in Nat /\ WndRcv \in Nat /\ ThreshMin \in Nat
    BY Sizes
  <2> HIDE DEF Queued, Held, Kept
  <2> QED BY <1>2, <2>1, <2>2 DEF NewKcp, Blocks
<1>4. SendSide(0, 0, <<>>) /\ RecvSide(0, <<>>) /\ Len(<<>>) <= RcvWnd
  BY <1>2, Sizes DEF SendSide, RecvSide
<1> QED BY <1>1, <1>3, <1>4 DEF Fine

\* The session starts so.
LEMMA LocalInit == Init => Local
<1> SUFFICES ASSUME Init PROVE Local
  OBVIOUS
<1>1. NewKcp \in Blocks /\ Fine(NewKcp)
  BY NewFine DEF Fine
<1>2. <<>> \in Seq(Small(Segs)) /\ <<>> \in Seq(Seq(Bytes))
  OBVIOUS
<1> QED BY <1>1, <1>2 DEF Init, Local

\* Send and Update of e.
Sending(e) == Send(e) \/ \E due, aged, probeDue : Update(e, due, aged, probeDue)

\* e sends its next message, of so many fragments, or none.
Queues(e, more) ==
    LET i == Len(sent[e]) + 1
    IN  \/ sent' = sent /\ more = 0
        \/ /\ i \in 1 .. Len(Lengths[e]) /\ sent' = [sent EXCEPT ![e] = Append(@, Message(e, i))]
           /\ more = Len(Fragments(Message(e, i)))

\* What Send and Update do.
LEMMA SendingFact ==
    ASSUME Signed, Local, NEW e \in Ends, Sending(e)
    PROVE  \E k2, out, more :
             /\ kcp' = [kcp EXCEPT ![e] = k2] /\ net' = [net EXCEPT ![Peer(e)] = @ \o out]
             /\ Advanced(kcp[e], k2, more) /\ Queues(e, more) /\ out \in Seq(Small(Leaving(kcp[e], k2)))
             /\ sent' \in [Ends -> Seq(Seq(Bytes))]
<1>1. Fine(kcp[e]) /\ sent \in [Ends -> Seq(Seq(Bytes))]
  BY DEF Local
<1>2. CASE Send(e)
  <2> DEFINE i == Len(sent[e]) + 1
             r == SendEx(kcp[e], Message(e, i))
  <2>1. /\ i <= Len(Lengths[e]) /\ kcp' = [kcp EXCEPT ![e] = r.k]
        /\ net' = [net EXCEPT ![Peer(e)] = @ \o r.out]
        /\ sent' = [sent EXCEPT ![e] = Append(@, Message(e, i))]
    BY <1>2 DEF Send, Output
  <2>2. i \in 1 .. Len(Lengths[e])
    <3>1. Len(sent[e]) \in Nat /\ Len(Lengths[e]) \in Nat
      BY <1>1, LengthsAssumption
    <3> QED BY <2>1, <3>1
  <2>3. Fragments(Message(e, i)) \in Seq(Queued)
    BY <2>2, MessageFact
  <2>4. Message(e, i) \in Seq(Bytes)
    <3>1. Lengths[e][i] \in Nat /\ i \in Nat
      BY <2>2, LengthsAssumption
    <3> HIDE DEF i
    <3> QED BY <3>1 DEF Message, Bytes
  <2>7. Queues(e, Len(Fragments(Message(e, i))))
    BY <2>1, <2>2 DEF Queues
  <2> HIDE DEF i
  <2>5. Advanced(kcp[e], r.k, Len(Fragments(Message(e, i)))) /\ r.out \in Seq(Small(Leaving(kcp[e], r.k)))
    BY <1>1, <2>3, SendExFact
  <2>6. sent' \in [Ends -> Seq(Seq(Bytes))]
    BY <1>1, <2>1, <2>4
  <2> QED BY <2>1, <2>5, <2>6, <2>7
<1>3. CASE \E due, aged, probeDue : Update(e, due, aged, probeDue)
  <2>1. PICK due, aged, probeDue : Update(e, due, aged, probeDue)
    BY <1>3
  <2> DEFINE r == Flush(kcp[e], due, aged, probeDue)
  <2>2. /\ kcp' = [kcp EXCEPT ![e] = r.k] /\ net' = [net EXCEPT ![Peer(e)] = @ \o r.out]
        /\ sent' = sent
    BY <2>1 DEF Update, Output
  <2>3. Advanced(kcp[e], r.k, 0) /\ r.out \in Seq(Small(Leaving(kcp[e], r.k)))
    BY <1>1, FlushFact
  <2>4. Queues(e, 0)
    BY <2>2 DEF Queues
  <2> QED BY <1>1, <2>2, <2>3, <2>4
<1> QED BY <1>2, <1>3 DEF Sending

\* Arrive of e.
LEMMA ArriveFact ==
    ASSUME Signed, Local, NEW e \in Ends, NEW i \in DOMAIN net[e], NEW again, Arrive(e, i, again)
    PROVE  \E k2 :
             /\ kcp' = [kcp EXCEPT ![e] = k2] /\ sent' = sent
             /\ net' = net \/ net' = [net EXCEPT ![e] = RemoveAt(@, i)]
             /\ Fine(k2)
             /\ \A p : /\ Wide /\ Fine(p) /\ Joined(kcp[e], p) /\ Joined(p, kcp[e]) /\ Honest(p, kcp[e])
                       /\ \A j \in 1 .. Len(net[e][i]) :
                            Comes(kcp[e], p, net[e][i][j]) /\ Young(kcp[e], p, net[e][i][j])
                       => Heard(kcp[e], p, k2)
<1> DEFINE k == kcp[e]
           packet == net[e][i]
           k1 == Input(k, packet)
           k2 == IF e \in Eager THEN Drain(k1).k ELSE k1
<1>1. Fine(k) /\ packet \in Seq(Segs)
  <2>1. net[e] \in Seq(Small(Segs))
    BY DEF Local
  <2>2. packet \in Small(Segs)
    BY <2>1
  <2> QED BY <2>2 DEF Local, Small
<1>2. /\ kcp' = [kcp EXCEPT ![e] = k2] /\ sent' = sent
      /\ net' = net \/ net' = [net EXCEPT ![e] = RemoveAt(@, i)]
  <2> DEFINE taken == IF e \in Eager THEN Drain(k1) ELSE [k |-> k1, out |-> <<>>]
  <2>1. /\ kcp' = [kcp EXCEPT ![e] = taken.k] /\ sent' = sent
        /\ net' = IF again THEN net ELSE [net EXCEPT ![e] = RemoveAt(@, i)]
    BY Zenon DEF Arrive
  <2>2. taken.k = k2
    OBVIOUS
  <2> HIDE DEF taken, k2
  <2> QED BY <2>1, <2>2
<1>3. /\ Fine(k1)
      /\ \A p : /\ Wide /\ Fine(p) /\ Joined(k, p) /\ Joined(p, k) /\ Honest(p, k)
                /\ \A j \in 1 .. Len(packet) : Comes(k, p, packet[j]) /\ Young(k, p, packet[j])
                => Heard(k, p, k1)
  <2> HIDE DEF k, packet
  <2> QED BY <1>1, InputFact
<1> HIDE DEF k1
<1>4. Received(k1, Drain(k1).k)
  BY <1>3, DrainFact
<1>5. Fine(k2)
  BY <1>3, <1>4 DEF Received
<1>6. ASSUME NEW p, Fine(p), Heard(k, p, k1) PROVE Heard(k, p, k2)
  <2> HIDE DEF k
  <2>1. Heard(k, p, Drain(k1).k)
    BY <1>1, <1>4, <1>6, DrainedFact
  <2> QED BY <1>6, <2>1
<1> HIDE DEF k2
<1>7. \A p : /\ Wide /\ Fine(p) /\ Joined(k, p) /\ Joined(p, k) /\ Honest(p, k)
             /\ \A j \in 1 .. Len(packet) : Comes(k, p, packet[j]) /\ Young(k, p, packet[j])
             => Heard(k, p, k2)
  BY <1>3, <1>6
<1> QED BY <1>2, <1>5, <1>7

\* The actions of a step.
LEMMA StepCases ==
    ASSUME Next
    PROVE  \E e \in Ends :
             \/ Sending(e) \/ Receive(e)
             \/ \E i \in DOMAIN net[e], again \in BOOLEAN : Arrive(e, i, again)
             \/ \E i \in DOMAIN net[e] : Lose(e, i)
BY DEF Next, Sending

\* The packets on their way after one has been taken out.
LEMMA LessNet ==
    ASSUME NEW T, NEW s \in Seq(T), NEW i \in DOMAIN s
    PROVE  /\ RemoveAt(s, i) \in Seq(T)
           /\ \A j \in DOMAIN RemoveAt(s, i) : \E l \in DOMAIN s : RemoveAt(s, i)[j] = s[l]
<1>1. i \in 1 .. Len(s)
  OBVIOUS
<1>2. RemoveAt(s, i) \in Seq(T) /\ Len(RemoveAt(s, i)) = Len(s) - 1
      /\ \A j \in 1 .. Len(s) - 1 : RemoveAt(s, i)[j] = IF j < i THEN s[j] ELSE s[j + 1]
  BY <1>1, RemoveAtFact
<1> DEFINE r == RemoveAt(s, i)
<1> HIDE DEF r
<1>3. ASSUME NEW j \in DOMAIN r PROVE \E l \in DOMAIN s : r[j] = s[l]
  <2>1. j \in 1 .. Len(s) - 1 /\ r[j] = IF j < i THEN s[j] ELSE s[j + 1]
    BY <1>2 DEF r
  <2>2. j \in DOMAIN s /\ j + 1 \in DOMAIN s
    BY <2>1
  <2> QED BY <2>1, <2>2
<1> QED BY <1>2, <1>3 DEF r

\* Every step keeps it.
LEMMA LocalStep ==
    ASSUME Signed, Local, [Next]_vars
    PROVE  Local'
<1> USE DEF Local
<1>1. CASE UNCHANGED vars
  BY <1>1 DEF vars
<1>2. CASE Next
  <2>1. PICK e \in Ends :
             \/ Sending(e) \/ Receive(e)
             \/ \E i \in DOMAIN net[e], again \in BOOLEAN : Arrive(e, i, again)
             \/ \E i \in DOMAIN net[e] : Lose(e, i)
    BY <1>2, StepCases
  <2>2. ASSUME NEW k2, Fine(k2), kcp' = [kcp EXCEPT ![e] = k2]
        PROVE  kcp' \in [Ends -> Blocks] /\ \A f \in Ends : Fine(kcp'[f])
    <3>1. k2 \in Blocks
      BY <2>2 DEF Fine
    <3> QED BY <2>2, <3>1
  <2>3. Fine(kcp[e]) /\ net[e] \in Seq(Small(Segs))
    OBVIOUS
  <2>4. CASE Sending(e)
    <3>1. PICK k2, out, more :
             /\ kcp' = [kcp EXCEPT ![e] = k2] /\ net' = [net EXCEPT ![Peer(e)] = @ \o out]
             /\ Advanced(kcp[e], k2, more) /\ out \in Seq(Small(Leaving(kcp[e], k2)))
             /\ sent' \in [Ends -> Seq(Seq(Bytes))]
      BY <2>4, SendingFact
    <3>2. out \in Seq(Small(Segs))
      <4>1. Leaving(kcp[e], k2) \in SUBSET Segs
        BY DEF Leaving
      <4> QED BY <3>1, <4>1, SmallMono
    <3>3. net' \in [Ends -> Seq(Small(Segs))]
      <4>1. Peer(e) \in Ends
        BY PeerFact
      <4>2. net[Peer(e)] \o out \in Seq(Small(Segs))
        BY <3>2, <4>1
      <4> QED BY <3>1, <4>1, <4>2
    <3>4. Fine(k2)
      BY <3>1 DEF Advanced
    <3> QED BY <2>2, <3>1, <3>3, <3>4
  <2>5. CASE Receive(e)
    <3>1. kcp' = [kcp EXCEPT ![e] = Recv(kcp[e])] /\ net' = net /\ sent' = sent
      BY <2>5 DEF Receive
    <3>2. Fine(Recv(kcp[e]))
      BY <2>3, RecvFact
    <3> QED BY <2>2, <3>1, <3>2
  <2>6. CASE \E i \in DOMAIN net[e], again \in BOOLEAN : Arrive(e, i, again)
    <3>1. PICK i \in DOMAIN net[e], again \in BOOLEAN : Arrive(e, i, again)
      BY <2>6
    <3>2. PICK k2 : /\ kcp' = [kcp EXCEPT ![e] = k2] /\ sent' = sent /\ Fine(k2)
                    /\ net' = net \/ net' = [net EXCEPT ![e] = RemoveAt(@, i)]
      BY <3>1, ArriveFact
    <3>3. RemoveAt(net[e], i) \in Seq(Small(Segs))
      BY <2>3, LessNet
    <3>4. net' \in [Ends -> Seq(Small(Segs))]
      BY <3>2, <3>3
    <3> QED BY <2>2, <3>2, <3>4
  <2>7. CASE \E i \in DOMAIN net[e] : Lose(e, i)
    <3>1. PICK i \in DOMAIN net[e] : Lose(e, i)
      BY <2>7
    <3>2. net' = [net EXCEPT ![e] = RemoveAt(@, i)] /\ kcp' = kcp /\ sent' = sent
      BY <3>1 DEF Lose
    <3>3. RemoveAt(net[e], i) \in Seq(Small(Segs))
      BY <2>3, LessNet
    <3> QED BY <3>2, <3>3
  <2> QED BY <2>1, <2>4, <2>5, <2>6, <2>7
<1> QED BY <1>1, <1>2

\* It always holds, whatever the network does.
LEMMA LocalAlways ==
    ASSUME Signed
    PROVE  Spec => []Local
<1>1. Init => Local
  BY LocalInit
<1>2. Local /\ [Next]_vars => Local'
  BY LocalStep
<1> QED BY <1>1, <1>2, PTL DEF Spec

\* The windows of ikcp_flush (ikcp.cpp, cwnd test), pvp_ikcp_send_ex and
\* ikcp_parse_data, whatever the network does to the packets: never more than
\* snd_wnd numbers in flight, the received early in the window and in order, and
\* rcv_queue no longer than rcv_wnd.
THEOREM WindowsAlways ==
    ASSUME Signed
    PROVE  Spec => []WindowsHold
<1>1. Local => WindowsHold
  <2> SUFFICES ASSUME Local, NEW e \in Ends
               PROVE  LET k == kcp[e] IN
                      /\ Diff(k.snd_nxt, k.snd_una) <= SndWnd
                      /\ Len(k.rcv_queue) <= RcvWnd /\ Len(k.rcv_buf) <= RcvWnd
                      /\ \A i \in DOMAIN net[e] : Size(net[e][i]) <= Mtu
    BY DEF WindowsHold
  <2> DEFINE k == kcp[e]
  <2>1. Fine(k) /\ net[e] \in Seq(Small(Segs))
    BY DEF Local
  <2> HIDE DEF k
  <2>2. /\ k.snd_nxt \in SeqNums /\ k.snd_una \in SeqNums /\ k.rcv_nxt \in SeqNums
        /\ k.rcv_buf \in Seq(Kept) /\ RecvSide(k.rcv_nxt, k.rcv_buf) /\ Len(k.rcv_queue) <= RcvWnd
        /\ Gap(k.snd_nxt, k.snd_una) <= SndWnd
    BY <2>1, BlockIs DEF Fine, SendSide
  <2>3. Len(k.rcv_buf) <= RcvWnd
    BY <2>2, PlacesClimb
  <2>4. Diff(k.snd_nxt, k.snd_una) <= SndWnd
    <3> DEFINE g == Gap(k.snd_nxt, k.snd_una)
    <3>1. g \in Nat /\ Diff(k.snd_nxt, k.snd_una) = IF 2 * g < Word THEN g ELSE g - Word
      BY <2>2, GapIs, GapNat
    <3>2. g <= SndWnd
      BY <2>2
    <3> HIDE DEF g
    <3> QED BY <3>1, <3>2, Sizes DEF Signed
  <2>5. \A i \in DOMAIN net[e] : Size(net[e][i]) <= Mtu
    <3> TAKE i \in DOMAIN net[e]
    <3>1. net[e][i] \in Small(Segs)
      BY <2>1
    <3> QED BY <3>1 DEF Small
  <2> QED BY <2>2, <2>3, <2>4, <2>5 DEF k
<1> QED BY <1>1, LocalAlways, PTL

\* pvp_ikcp_peek_size and pvp_ikcp_recv: if every message has at most rcv_wnd
\* fragments, a full receive queue always holds a whole message, so that the user
\* can make room, whatever the network does.
THEOREM NeverWedged ==
    ASSUME Signed, MessagesFit
    PROVE  Spec => []NoWedge
<1>1. Local => NoWedge
  <2> SUFFICES ASSUME Local, NEW e \in Ends,
                      Len(kcp[e].rcv_queue) >= RcvWnd, PeekCount(kcp[e]) = 0
               PROVE  FALSE
    BY DEF NoWedge
  <2> DEFINE k == kcp[e]
             q == k.rcv_queue
             l == Len(q)
  <2>1. k \in Blocks
    BY DEF Local
  <2>2. q \in Seq(Kept) /\ l \in Nat /\ l >= RcvWnd /\ RcvWnd \in Nat \ {0}
    BY <2>1, Sizes DEF Blocks
  <2>3. q # <<>> /\ Head(q) \in Kept
    BY <2>2
  <2>4. Head(q).frg \in Nat /\ Head(q).frg < RcvWnd
    BY <2>3 DEF Kept, Frgs
  <2>5. l <= Head(q).frg
    BY <2>1, <2>3, PeekFact
  <2> HIDE DEF q, l
  <2> QED BY <2>2, <2>4, <2>5
<1> QED BY <1>1, LocalAlways, PTL

-----------------------------------------------------------------------------
(* Both ends: the invariant of what is between them                        *)

\* What holds between the ends.
Joint == \A e \in Ends :
    /\ Joined(kcp[e], kcp[Peer(e)]) /\ Honest(kcp[e], kcp[Peer(e)])
    /\ \A seg \in Within(net[e]) : Comes(kcp[e], kcp[Peer(e)], seg)

\* A segment of some packets is in one of them.
LEMMA WithinIs ==
    ASSUME NEW packets
    PROVE  /\ \A i \in DOMAIN packets : \A j \in DOMAIN packets[i] : packets[i][j] \in Within(packets)
           /\ \A seg \in Within(packets) : \E i \in DOMAIN packets : \E j \in DOMAIN packets[i] : seg = packets[i][j]
BY DEF Within, Range

\* Packets made of S.
LEMMA WithinSet ==
    ASSUME NEW S, NEW packets \in Seq(Small(S))
    PROVE  Within(packets) \subseteq S
<1> SUFFICES ASSUME NEW i \in DOMAIN packets, NEW j \in DOMAIN packets[i] PROVE packets[i][j] \in S
  BY WithinIs
<1>1. packets[i] \in Seq(S)
  <2>1. packets[i] \in Small(S)
    OBVIOUS
  <2> QED BY <2>1 DEF Small
<1> QED BY <1>1

\* One packet taken out.
LEMMA WithinLess ==
    ASSUME NEW T, NEW packets \in Seq(T), NEW i \in DOMAIN packets
    PROVE  Within(RemoveAt(packets, i)) \subseteq Within(packets)
<1> DEFINE r == RemoveAt(packets, i)
<1>1. \A j \in DOMAIN r : \E l \in DOMAIN packets : r[j] = packets[l]
  BY LessNet
<1> HIDE DEF r
<1>2. Within(r) \subseteq Within(packets)
  BY <1>1, WithinIs
<1> QED BY <1>2 DEF r

\* Packets added.
LEMMA WithinMore ==
    ASSUME NEW T, NEW packets \in Seq(T), NEW out \in Seq(T)
    PROVE  Within(packets \o out) \subseteq Within(packets) \cup Within(out)
<1> DEFINE r == packets \o out
<1>1. \A j \in DOMAIN r : (\E l \in DOMAIN packets : r[j] = packets[l]) \/ (\E l \in DOMAIN out : r[j] = out[l])
  <2> TAKE j \in DOMAIN r
  <2> DEFINE m == Len(packets)
             o == Len(out)
  <2>1. m \in Nat /\ o \in Nat /\ DOMAIN packets = 1 .. m /\ DOMAIN out = 1 .. o
    OBVIOUS
  <2>2. j \in 1 .. m + o /\ r[j] = IF j <= m THEN packets[j] ELSE out[j - m]
    OBVIOUS
  <2> HIDE DEF m, o, r
  <2>3. CASE j <= m
    <3>1. j \in DOMAIN packets
      BY <2>1, <2>2, <2>3
    <3> QED BY <2>2, <2>3, <3>1
  <2>4. CASE ~(j <= m)
    <3>1. j - m \in DOMAIN out
      BY <2>1, <2>2, <2>4
    <3> QED BY <2>2, <2>4, <3>1
  <2> QED BY <2>3, <2>4
<1> HIDE DEF r
<1>2. Within(r) \subseteq Within(packets) \cup Within(out)
  BY <1>1, WithinIs
<1> QED BY <1>2 DEF r

\* The session starts so.
LEMMA JointInit == Init => Joint
<1> SUFFICES ASSUME Init, NEW e \in Ends
             PROVE  /\ Joined(kcp[e], kcp[Peer(e)]) /\ Honest(kcp[e], kcp[Peer(e)])
                    /\ \A seg \in Within(net[e]) : Comes(kcp[e], kcp[Peer(e)], seg)
  BY DEF Joint
<1>1. kcp[e] = NewKcp /\ kcp[Peer(e)] = NewKcp /\ net[e] = <<>>
  BY PeerFact DEF Init
<1>2. Within(<<>>) = {}
  BY DEF Within
<1>3. 0 \in SeqNums /\ Gap(0, 0) = 0
  BY Sizes DEF Gap
<1>4. Joined(NewKcp, NewKcp) /\ Honest(NewKcp, NewKcp)
  BY <1>3, NewFine, GapNat DEF Joined, Below, Covers, Honest, Due
<1> QED BY <1>1, <1>2, <1>4

\* A step of one end.
LEMMA StepOf ==
    ASSUME Local, NEW e \in Ends, NEW k2, kcp' = [kcp EXCEPT ![e] = k2],
           Joined(k2, kcp[Peer(e)]), Joined(kcp[Peer(e)], k2),
           Honest(k2, kcp[Peer(e)]), Honest(kcp[Peer(e)], k2),
           \A seg \in Within(net'[e]) : Comes(k2, kcp[Peer(e)], seg),
           \A seg \in Within(net'[Peer(e)]) : Comes(kcp[Peer(e)], k2, seg)
    PROVE  Joint'
<1>1. Peer(e) \in Ends /\ Peer(e) # e /\ Peer(Peer(e)) = e /\ \A f \in Ends : f = e \/ f = Peer(e)
  BY PeerFact
<1>2. kcp'[e] = k2 /\ kcp'[Peer(e)] = kcp[Peer(e)]
  BY <1>1 DEF Local
<1>3. \A f \in Ends :
        /\ Joined(kcp'[f], kcp'[Peer(f)]) /\ Honest(kcp'[f], kcp'[Peer(f)])
        /\ \A seg \in Within(net'[f]) : Comes(kcp'[f], kcp'[Peer(f)], seg)
  <2> TAKE f \in Ends
  <2>1. CASE f = e
    BY <1>2, <2>1
  <2>2. CASE f = Peer(e)
    BY <1>1, <1>2, <2>2
  <2> QED BY <1>1, <2>1, <2>2
<1> QED BY <1>3 DEF Joint

\* Every step keeps it while nothing is too old.
LEMMA JointStep ==
    ASSUME Wide, Local, Timely, Joint, [Next]_vars
    PROVE  Joint'
<1>1. CASE UNCHANGED vars
  BY <1>1 DEF vars, Joint
<1>2. CASE Next
  <2>1. PICK e \in Ends :
             \/ Sending(e) \/ Receive(e)
             \/ \E i \in DOMAIN net[e], again \in BOOLEAN : Arrive(e, i, again)
             \/ \E i \in DOMAIN net[e] : Lose(e, i)
    BY <1>2, StepCases
  <2> DEFINE q == Peer(e)
             k == kcp[e]
             p == kcp[q]
  <2>2. q \in Ends /\ q # e /\ Peer(q) = e
    BY PeerFact
  <2>3. /\ Fine(k) /\ Fine(p) /\ Signed
        /\ Joined(k, p) /\ Joined(p, k) /\ Honest(k, p) /\ Honest(p, k)
        /\ net[e] \in Seq(Small(Segs)) /\ net[q] \in Seq(Small(Segs))
        /\ Within(net[e]) \subseteq Segs /\ Within(net[q]) \subseteq Segs
    BY <2>2, WithinSet, WideFact DEF Local, Joint
  <2>4. /\ \A seg \in Within(net[e]) : Comes(k, p, seg) /\ Young(k, p, seg)
        /\ \A seg \in Within(net[q]) : Comes(p, k, seg) /\ Young(p, k, seg)
        /\ \A x \in Due(p) : Diff(k.snd_nxt, x) < Half
    BY <2>2 DEF Joint, Timely
  \* After something heard.
  <2>5. ASSUME NEW k2, Heard(k, p, k2), kcp' = [kcp EXCEPT ![e] = k2],
               Within(net'[e]) \subseteq Within(net[e]), net'[q] = net[q]
        PROVE  Joint'
    <3> HIDE DEF k, p
    <3>1. /\ Joined(k2, p) /\ Joined(p, k2) /\ Honest(k2, p) /\ Honest(p, k2)
          /\ \A seg \in Segs : Comes(k, p, seg) => Comes(k2, p, seg)
          /\ \A seg \in Segs : Comes(p, k, seg) => Comes(p, k2, seg)
      BY <2>3, <2>5, HearStep
    <3>2. /\ \A seg \in Within(net'[e]) : Comes(k2, p, seg)
          /\ \A seg \in Within(net'[q]) : Comes(p, k2, seg)
      BY <2>3, <2>4, <2>5, <3>1
    <3> QED BY <2>5, <3>1, <3>2, StepOf DEF p
  <2>6. Heard(k, p, k)
    <3> HIDE DEF k, p
    <3>1. k \in Blocks /\ p.snd_nxt \in SeqNums /\ Below(p.snd_nxt, k)
      BY <2>3, BlockIs DEF Joined
    <3>2. Keeps(p.snd_nxt, k, k)
      BY <3>1, KeepsSame
    <3> QED BY <2>3, <3>2 DEF Heard, Joined
  <2>7. CASE Sending(e)
    <3>1. PICK k2, out, more :
             /\ kcp' = [kcp EXCEPT ![e] = k2] /\ net' = [net EXCEPT ![q] = @ \o out]
             /\ Advanced(k, k2, more) /\ out \in Seq(Small(Leaving(k, k2)))
      BY <2>3, <2>7, SendingFact
    <3>2. net'[e] = net[e] /\ net'[q] = net[q] \o out
      BY <2>2, <3>1 DEF Local
    <3> HIDE DEF k, p, q
    <3>3. /\ Joined(k2, p) /\ Joined(p, k2) /\ Honest(k2, p) /\ Honest(p, k2)
          /\ \A seg \in Segs : Comes(k, p, seg) /\ Young(k, p, seg) => Comes(k2, p, seg)
          /\ \A seg \in Segs : Comes(p, k, seg) /\ Young(p, k, seg) => Comes(p, k2, seg)
          /\ \A seg \in Leaving(k, k2) : Comes(p, k2, seg)
      BY <2>3, <2>4, <3>1, SendStep
    <3>4. Leaving(k, k2) \in SUBSET Segs /\ Within(out) \subseteq Leaving(k, k2)
      BY <3>1, WithinSet DEF Leaving
    <3>5. Within(net'[q]) \subseteq Within(net[q]) \cup Within(out)
      <4>1. out \in Seq(Small(Segs))
        BY <3>1, <3>4, SmallMono
      <4> QED BY <2>3, <3>2, <4>1, WithinMore
    <3>6. /\ \A seg \in Within(net'[e]) : Comes(k2, p, seg)
          /\ \A seg \in Within(net'[q]) : Comes(p, k2, seg)
      BY <2>3, <2>4, <3>2, <3>3, <3>4, <3>5
    <3> QED BY <3>1, <3>3, <3>6, StepOf DEF p, q
  <2>8. CASE Receive(e)
    <3>1. kcp' = [kcp EXCEPT ![e] = Recv(k)] /\ net' = net
      BY <2>8 DEF Receive
    <3> HIDE DEF k, p
    <3>2. Received(k, Recv(k))
      BY <2>3, RecvFact DEF Received
    <3>3. Heard(k, p, Recv(k))
      BY <2>3, <2>6, <3>2, DrainedFact
    <3> QED BY <2>5, <3>1, <3>3
  <2>9. CASE \E i \in DOMAIN net[e], again \in BOOLEAN : Arrive(e, i, again)
    <3>1. PICK i \in DOMAIN net[e], again \in BOOLEAN : Arrive(e, i, again)
      BY <2>9
    <3>2. PICK k2 :
             /\ kcp' = [kcp EXCEPT ![e] = k2]
             /\ net' = net \/ net' = [net EXCEPT ![e] = RemoveAt(@, i)]
             /\ /\ Wide /\ Fine(p) /\ Joined(k, p) /\ Joined(p, k) /\ Honest(p, k)
                /\ \A j \in 1 .. Len(net[e][i]) : Comes(k, p, net[e][i][j]) /\ Young(k, p, net[e][i][j])
                => Heard(k, p, k2)
      BY <2>3, <3>1, ArriveFact
    <3>3. \A j \in 1 .. Len(net[e][i]) : net[e][i][j] \in Within(net[e])
      <4>1. net[e][i] \in Seq(Segs)
        BY <2>3 DEF Small
      <4>2. DOMAIN net[e][i] = 1 .. Len(net[e][i])
        BY <4>1
      <4> QED BY <4>2, WithinIs
    <3>4. Heard(k, p, k2)
      BY <2>3, <2>4, <3>2, <3>3
    <3>5. Within(net'[e]) \subseteq Within(net[e]) /\ net'[q] = net[q]
      <4>1. Within(RemoveAt(net[e], i)) \subseteq Within(net[e])
        BY <2>3, WithinLess
      <4> QED BY <2>2, <3>2, <4>1 DEF Local
    <3> QED BY <2>5, <3>2, <3>4, <3>5
  <2>10. CASE \E i \in DOMAIN net[e] : Lose(e, i)
    <3>1. PICK i \in DOMAIN net[e] : Lose(e, i)
      BY <2>10
    <3>2. net' = [net EXCEPT ![e] = RemoveAt(@, i)] /\ kcp' = kcp
      BY <3>1 DEF Lose
    <3>3. kcp' = [kcp EXCEPT ![e] = k]
      BY <3>2 DEF Local
    <3>4. Within(net'[e]) \subseteq Within(net[e]) /\ net'[q] = net[q]
      <4>1. Within(RemoveAt(net[e], i)) \subseteq Within(net[e])
        BY <2>3, WithinLess
      <4> QED BY <2>2, <3>2, <4>1 DEF Local
    <3> QED BY <2>5, <2>6, <3>3, <3>4
  <2> QED BY <2>1, <2>7, <2>8, <2>9, <2>10
<1> QED BY <1>1, <1>2

\* It always holds if nothing ever becomes too old.
LEMMA JointAlways ==
    ASSUME Wide
    PROVE  Spec /\ []Timely => [](Local /\ Joint)
<1>1. Init => Local /\ Joint
  BY LocalInit, JointInit
<1>2. Local /\ Joint /\ Timely /\ [Next]_vars => (Local /\ Joint)'
  <2>1. Signed
    BY WideFact
  <2> QED BY <2>1, LocalStep, JointStep
<1> QED BY <1>1, <1>2, PTL DEF Spec

-----------------------------------------------------------------------------
(* What follows                                                            *)

\* The numbers that are not passed yet and have been used.
LEMMA BetweenFact ==
    ASSUME NEW nxt \in SeqNums, NEW rcv \in SeqNums, 2 * Gap(nxt, rcv) < Word, NEW x \in SeqNums,
           Diff(x, rcv) >= 0, Diff(x, nxt) < 0
    PROVE  0 < Gap(nxt, x) /\ Gap(nxt, x) <= Gap(nxt, rcv)
<1> DEFINE G == Gap(nxt, rcv)
           a == Gap(x, rcv)
           b == Gap(x, nxt)
           h == Gap(nxt, x)
<1>1. G \in Nat /\ a \in Nat /\ b \in Nat /\ h \in Nat /\ a < Word /\ b < Word /\ h < Word /\ Word \in Nat
  BY GapNat, Sizes
<1>2. 2 * a < Word
  BY <1>1, GapIs
<1>3. 2 * b >= Word
  BY <1>1, GapIs
<1>4. x # nxt /\ h = Word - b
  <2>1. x # nxt
    BY <1>1, <1>3, GapIs, Sizes
  <2> QED BY <2>1, GapBack
<1>5. 0 < h
  <2> HIDE DEF b, h
  <2> QED BY <1>1, <1>4
<1>6. h <= G
  <2> SUFFICES ASSUME G < h PROVE FALSE
    <3> HIDE DEF G, h
    <3> QED BY <1>1
  <2>1. Gap(rcv, x) = h - G
    <3>1. Gap(nxt, rcv) <= Gap(nxt, x)
      <4> HIDE DEF G, h
      <4>1. G <= h
        BY <1>1
      <4> QED BY <4>1 DEF G, h
    <3> QED BY <3>1, GapVia
  <2>2. rcv # x
    <3>1. h - G # 0
      <4> HIDE DEF G, h
      <4> QED BY <1>1
    <3>2. Gap(rcv, x) = 0 <=> rcv = x
      BY GapIs
    <3>3. rcv = x => Gap(rcv, x) = 0
      BY <3>2
    <3> QED BY <2>1, <3>1, <3>3
  <2>3. a = Word - (h - G)
    BY <2>1, <2>2, GapBack
  <2> HIDE DEF G, a, b, h
  <2> QED BY <1>1, <1>2, <1>3, <1>4, <2>3
<1> QED BY <1>5, <1>6

\* parse_una, parse_ack and the window tests of pvp_ikcp_input: the sender lets a
\* segment go only when the receiver has it, and the receiver acknowledges only
\* what it keeps.  The numbers are compared on their low 16 bits, so this rests on
\* Timely.
THEOREM NothingLost ==
    ASSUME Wide
    PROVE  Spec /\ []Timely => []NothingForgotten
<1>1. Local /\ Joint => NothingForgotten
  <2> SUFFICES ASSUME Local, Joint, NEW e \in Ends
               PROVE  LET k == kcp[e]
                          p == kcp[Peer(e)]
                      IN  /\ Diff(p.rcv_nxt, k.snd_nxt) <= 0
                          /\ \A sn \in SeqNums :
                               Diff(sn, p.rcv_nxt) >= 0 /\ Diff(sn, k.snd_nxt) < 0
                                   => sn \in Numbers(k.snd_buf) \cup Numbers(p.rcv_buf)
    BY DEF NothingForgotten
  <2> DEFINE k == kcp[e]
             p == kcp[Peer(e)]
             nxt == k.snd_nxt
             rcv == p.rcv_nxt
             G == Gap(nxt, rcv)
  <2>1. Fine(k) /\ Fine(p) /\ Joined(k, p)
    BY PeerFact DEF Local, Joint
  <2> HIDE DEF k, p
  <2>2. nxt \in SeqNums /\ rcv \in SeqNums /\ k.snd_buf \in Seq(Held) /\ p.rcv_buf \in Seq(Kept)
    BY <2>1, BlockIs
  <2>3. G \in Nat /\ 2 * G < Word
    <3>1. G \in Nat /\ G <= SndWnd + RcvWnd
      BY <2>1, CloseFact, WideFact
    <3> HIDE DEF G
    <3> QED BY <3>1, Sizes, WideFact DEF Wide
  <2>4. Diff(rcv, nxt) <= 0
    <3> HIDE DEF nxt, rcv
    <3>1. Gap(nxt, nxt) = 0 /\ 2 * Gap(nxt, nxt) < Word
      <4>1. Gap(nxt, nxt) = 0
        BY <2>2, GapIs
      <4>2. 2 * 0 < Word
        BY Sizes
      <4> QED BY <4>1, <4>2
    <3>2. Diff(rcv, nxt) = Gap(nxt, nxt) - Gap(nxt, rcv)
      BY <2>2, <2>3, <3>1, DiffBehind
    <3> HIDE DEF G
    <3>3. 0 - G <= 0
      BY <2>3
    <3> QED BY <3>1, <3>2, <3>3 DEF G
  <2>5. ASSUME NEW sn \in SeqNums, Diff(sn, rcv) >= 0, Diff(sn, nxt) < 0
        PROVE  sn \in Numbers(k.snd_buf) \cup Numbers(p.rcv_buf)
    <3>1. 0 < Gap(nxt, sn) /\ Gap(nxt, sn) <= Gap(nxt, rcv)
      <4> HIDE DEF nxt, rcv
      <4> QED BY <2>2, <2>3, <2>5, BetweenFact
    <3>2. Has(k.snd_buf, sn) \/ Has(p.rcv_buf, sn)
      BY <2>1, <3>1 DEF Joined, Covers
    <3> QED BY <2>2, <3>2 DEF Has, Numbers
  <2> QED BY <2>4, <2>5 DEF k, p
<1> QED BY <1>1, JointAlways, PTL

\* get_id (ikcp.cpp:829-838) rebuilds every number of every segment that arrives,
\* also where the low half or the word wraps.
THEOREM AlwaysDecoded ==
    ASSUME Wide
    PROVE  Spec /\ []Timely => []DecodesRight
<1>1. Local /\ Joint /\ Timely => DecodesRight
  <2> SUFFICES ASSUME Local, Joint, Timely, NEW e \in Ends, NEW i \in DOMAIN net[e], NEW j \in DOMAIN net[e][i]
               PROVE  LET seg == net[e][i][j]
                          k == kcp[e]
                      IN  /\ GetId(k.snd_nxt, Short(seg.una)) = seg.una
                          /\ seg.cmd = "ACK" => GetId(k.snd_nxt, Short(seg.sn)) = seg.sn
                          /\ seg.cmd \in {"PUSH", "DUPS"} => GetId(k.rcv_nxt, Short(seg.sn)) = seg.sn
    BY DEF DecodesRight
  <2> DEFINE k == kcp[e]
             p == kcp[Peer(e)]
             seg == net[e][i][j]
  <2>1. seg \in Within(net[e]) /\ Within(net[e]) \subseteq Segs
    BY WithinIs, WithinSet DEF Local
  <2>2. Fine(k) /\ Fine(p) /\ Joined(p, k) /\ Comes(k, p, seg) /\ Young(k, p, seg)
    BY <2>1, PeerFact DEF Local, Joint, Timely
  <2> HIDE DEF k, p, seg
  <2>3. /\ GetId(k.snd_nxt, Short(seg.una)) = seg.una
        /\ seg.cmd = "ACK" => GetId(k.snd_nxt, Short(seg.sn)) = seg.sn
        /\ seg.cmd \in {"PUSH", "DUPS"} => GetId(k.rcv_nxt, Short(seg.sn)) = seg.sn
    BY <2>1, <2>2, SegDecodes
  <2> QED BY <2>3 DEF k, seg
<1> QED BY <1>1, JointAlways, PTL

-----------------------------------------------------------------------------
(* Sessions of fewer than Half numbers                                     *)

\* k2 comes from k by hearing: what is in flight was in flight, what waits waited.
Shed(k, k2) ==
    /\ k2.snd_nxt = k.snd_nxt /\ k2.snd_queue = k.snd_queue
    /\ \A x : Has(k2.snd_buf, x) => Has(k.snd_buf, x)

\* One hearing after another.
LEMMA ShedTrans ==
    ASSUME NEW k, NEW k2, NEW k3, Shed(k, k2), Shed(k2, k3)
    PROVE  Shed(k, k3)
BY DEF Shed

\* What una tells is let go.
LEMMA HeadSheds ==
    ASSUME NEW k, Fine(k), NEW seg
    PROVE  Shed(k, InputHead(k, seg))
<1> DEFINE una == GetId(k.snd_nxt, Short(seg.una))
           k0 == [k EXCEPT !.rmt_wnd = seg.wnd]
           T == {m \in 0 .. Len(k0.snd_buf) : \A i \in 1 .. m : Diff(una, k0.snd_buf[i].sn) > 0}
           n == Max(T)
           buf == SubSeq(k0.snd_buf, n + 1, Len(k0.snd_buf))
           k1 == [k0 EXCEPT !.snd_buf = buf]
           first == IF k1.snd_buf = <<>> THEN k1.snd_nxt ELSE Head(k1.snd_buf).sn
           k2 == [k1 EXCEPT !.snd_una = first]
<1>1. k \in Blocks /\ k.snd_buf \in Seq(Held) /\ Len(k.snd_buf) \in Nat
  <2>1. k \in Blocks /\ k.snd_buf \in Seq(Held)
    BY BlockIs
  <2> QED BY <2>1
<1>2. InputHead(k, seg) = k2
  BY DEF InputHead, ParseUna, ShrinkBuf
<1> HIDE DEF una
<1>3. k0.snd_buf = k.snd_buf /\ k0.snd_nxt = k.snd_nxt /\ k0.snd_queue = k.snd_queue
  BY <1>1 DEF Blocks
<1>4. n \in 0 .. Len(k.snd_buf)
  <2>1. 0 \in T /\ T \subseteq 0 .. Len(k.snd_buf)
    BY <1>1, <1>3
  <2> HIDE DEF T
  <2> QED BY <1>1, <2>1, MaxFact
<1> HIDE DEF n, T
<1>5. Len(buf) = Len(k.snd_buf) - n /\ \A i \in 1 .. Len(k.snd_buf) - n : buf[i] = k.snd_buf[n + i]
  BY <1>1, <1>3, <1>4, CutFact
<1>6. k2.snd_buf = buf /\ k2.snd_nxt = k.snd_nxt /\ k2.snd_queue = k.snd_queue
  <2> HIDE DEF buf, first
  <2> QED BY <1>1 DEF Blocks
<1> HIDE DEF buf, k2
<1>7. ASSUME NEW x, Has(buf, x) PROVE Has(k.snd_buf, x)
  <2>1. PICK i \in 1 .. Len(buf) : buf[i].sn = x
    BY <1>7 DEF Has
  <2>2. n + i \in 1 .. Len(k.snd_buf) /\ buf[i] = k.snd_buf[n + i]
    BY <1>1, <1>4, <1>5
  <2> QED BY <2>1, <2>2 DEF Has
<1> QED BY <1>2, <1>6, <1>7 DEF Shed

\* What is acknowledged is let go.
LEMMA AckSheds ==
    ASSUME NEW k, Fine(k), NEW seg
    PROVE  Shed(k, InputAck(k, seg))
<1> DEFINE sn == GetId(k.snd_nxt, Short(seg.sn))
           at == CHOOSE i \in DOMAIN k.snd_buf : k.snd_buf[i].sn = sn
           buf == RemoveAt(k.snd_buf, at)
           cut == [k EXCEPT !.snd_buf = buf]
           found == InFlight(k, sn) /\ \E i \in DOMAIN k.snd_buf : k.snd_buf[i].sn = sn
           k1 == IF found THEN cut ELSE k
           first == IF k1.snd_buf = <<>> THEN k1.snd_nxt ELSE Head(k1.snd_buf).sn
           k2 == [k1 EXCEPT !.snd_una = first]
<1>1. k \in Blocks /\ k.snd_buf \in Seq(Held) /\ Len(k.snd_buf) \in Nat /\ DOMAIN k.snd_buf = 1 .. Len(k.snd_buf)
  <2>1. k \in Blocks /\ k.snd_buf \in Seq(Held)
    BY BlockIs
  <2> QED BY <2>1
<1>2. InputAck(k, seg) = k2
  BY Zenon DEF InputAck, ParseAck, ShrinkBuf
<1> HIDE DEF sn
<1>3. Shed(k, k1)
  <2>1. CASE ~found
    BY <2>1 DEF Shed
  <2>2. CASE found
    <3>1. at \in 1 .. Len(k.snd_buf)
      BY <1>1, <2>2
    <3> HIDE DEF at
    <3>2. Len(buf) = Len(k.snd_buf) - 1
          /\ \A i \in 1 .. Len(k.snd_buf) - 1 : buf[i] = IF i < at THEN k.snd_buf[i] ELSE k.snd_buf[i + 1]
      BY <1>1, <3>1, RemoveAtFact
    <3> HIDE DEF buf
    <3>3. ASSUME NEW x, Has(buf, x) PROVE Has(k.snd_buf, x)
      <4>1. PICK i \in 1 .. Len(buf) : buf[i].sn = x
        BY <3>3 DEF Has
      <4>2. i \in 1 .. Len(k.snd_buf) /\ i + 1 \in 1 .. Len(k.snd_buf)
        BY <1>1, <3>2
      <4> QED BY <3>2, <4>1, <4>2 DEF Has
    <3>4. cut.snd_buf = buf /\ cut.snd_nxt = k.snd_nxt /\ cut.snd_queue = k.snd_queue
      BY <1>1 DEF Blocks
    <3>5. k1 = cut
      BY <2>2
    <3> QED BY <3>3, <3>4, <3>5 DEF Shed
  <2> QED BY <2>1, <2>2
<1>4. k1 \in [DOMAIN k -> {k1[f] : f \in DOMAIN k}] /\ "snd_una" \in DOMAIN k
  <2>1. DOMAIN k = {"snd_una", "snd_nxt", "rcv_nxt", "snd_queue", "snd_buf", "rcv_buf", "rcv_queue", "acklist",
                    "rmt_wnd", "cwnd", "incr", "ssthresh", "probe", "probing", "dead"}
    BY <1>1 DEF Blocks
  <2> HIDE DEF found, buf
  <2> QED BY <1>1, <2>1 DEF Blocks
<1> HIDE DEF k1
<1>5. Shed(k1, k2)
  <2>1. k2.snd_buf = k1.snd_buf /\ k2.snd_nxt = k1.snd_nxt /\ k2.snd_queue = k1.snd_queue
    <3> HIDE DEF first
    <3> QED BY <1>4
  <2> QED BY <2>1 DEF Shed
<1> QED BY <1>2, <1>3, <1>5, ShedTrans

\* Every segment only lets go.
LEMMA SegSheds ==
    ASSUME Signed, NEW r \in Reading, NEW seg \in Segs
    PROVE  Shed(r.k, InputSeg(r, seg).k)
<1> DEFINE k == InputHead(r.k, seg)
           told == k.probe \cup {"TELL"}
           kt == [k EXCEPT !.probe = told]
<1>1. Fine(r.k) /\ r \in [k : Blocks, acked : SUBSET SeqNums]
  BY DEF Reading
<1>2. Fine(k) /\ Shed(r.k, k)
  BY <1>1, HeadFact, HeadSheds
<1> HIDE DEF k
<1>3. seg.cmd \in {"PUSH", "DUPS", "ACK", "WASK", "WINS"}
  BY SegIs
<1>4. CASE seg.cmd = "ACK"
  <2>1. InputSeg(r, seg).k = InputAck(k, seg)
    BY <1>4, InputSegCases DEF k
  <2> QED BY <1>2, <2>1, AckSheds, ShedTrans
<1>5. CASE seg.cmd \in {"PUSH", "DUPS"}
  <2>1. InputSeg(r, seg).k = InputPush(k, seg)
    BY <1>1, <1>5, InputSegCases DEF k
  <2>2. Shed(k, InputPush(k, seg))
    BY <1>2, PushFact DEF Shed, SameSender
  <2> QED BY <1>2, <2>1, <2>2, ShedTrans
<1>6. CASE seg.cmd = "WASK"
  <2>0. InputSeg(r, seg) = [r EXCEPT !.k = kt]
    BY <1>6, InputSegCases DEF k
  <2>1. InputSeg(r, seg).k = kt
    <3> HIDE DEF kt
    <3> QED BY <1>1, <2>0
  <2> HIDE DEF told
  <2>2. k \in Blocks
    BY <1>2, BlockIs
  <2>3. Shed(k, kt)
    BY <2>2 DEF Shed, Blocks
  <2> QED BY <1>2, <2>1, <2>3, ShedTrans
<1>7. CASE seg.cmd = "WINS"
  <2>1. InputSeg(r, seg).k = k
    BY <1>1, <1>7, InputSegCases DEF k
  <2> QED BY <1>2, <2>1
<1> QED BY <1>3, <1>4, <1>5, <1>6, <1>7

\* What follows the segments of a packet.
LEMMA RestSheds ==
    ASSUME NEW k, Fine(k), NEW sn, NEW k2 \in {ParseFastack(k, sn), Grow(k)}
    PROVE  Shed(k, k2) /\ Due(k2) = Due(k)
<1>1. k \in Blocks /\ k.snd_buf \in Seq(Held)
  BY BlockIs
<1>2. Alike(k, k2)
  BY <1>1, FastackFact, GrowFact
<1>3. Fine(k2) /\ \A x : Has(k2.snd_buf, x) <=> Has(k.snd_buf, x)
  BY <1>2, AlikeFine
<1>4. k2.snd_queue = k.snd_queue
  BY <1>2 DEF Alike
<1>5. k2.acklist = k.acklist /\ k2.snd_nxt = k.snd_nxt
  BY <1>2 DEF Alike
<1> QED BY <1>3, <1>4, <1>5 DEF Shed, Due

\* A segment makes at most its own number due.
LEMMA SegDue ==
    ASSUME Wide, NEW k0, NEW p, Fine(k0), Fine(p), Joined(p, k0),
           NEW r \in Reading, Heard(k0, p, r.k), NEW seg \in Segs, Comes(k0, p, seg), Young(k0, p, seg)
    PROVE  \A x \in Due(InputSeg(r, seg).k) : x \in Due(r.k) \/ (seg.cmd \in {"PUSH", "DUPS"} /\ x = seg.sn)
<1> DEFINE k == InputHead(r.k, seg)
           told == k.probe \cup {"TELL"}
           kt == [k EXCEPT !.probe = told]
           pn == p.snd_nxt
<1>1. Fine(r.k) /\ r \in [k : Blocks, acked : SUBSET SeqNums] /\ Signed
  BY WideFact DEF Reading
<1>2. Fine(k) /\ SameReceiver(r.k, k) /\ Due(k) = Due(r.k)
  <2>1. Fine(k) /\ SameReceiver(r.k, k) /\ k.acklist = r.k.acklist
    BY <1>1, HeadFact
  <2> HIDE DEF k
  <2> QED BY <2>1 DEF Due
<1> HIDE DEF k
<1>3. seg.cmd \in {"PUSH", "DUPS", "ACK", "WASK", "WINS"} /\ seg.sn \in SeqNums
  BY SegIs
<1>8. ASSUME NEW k2, k2.acklist = k.acklist, InputSeg(r, seg).k = k2
      PROVE  \A x \in Due(InputSeg(r, seg).k) : x \in Due(r.k) \/ (seg.cmd \in {"PUSH", "DUPS"} /\ x = seg.sn)
  <2>1. Due(k2) = Due(k)
    BY <1>8 DEF Due
  <2> QED BY <1>2, <1>8, <2>1
<1>4. CASE seg.cmd = "ACK"
  <2>1. InputSeg(r, seg).k = InputAck(k, seg)
    BY <1>4, InputSegCases DEF k
  <2>2. InputAck(k, seg).acklist = k.acklist
    BY <1>1, <1>2, AckFact
  <2> QED BY <1>2, <1>8, <2>1, <2>2
<1>5. CASE seg.cmd \in {"PUSH", "DUPS"}
  <2> DEFINE g == Gap(pn, k.rcv_nxt)
             g0 == Gap(pn, k0.rcv_nxt)
             s == Gap(pn, seg.sn)
  <2>1. Keeps(pn, k0, r.k)
    BY DEF Heard
  <2>2. Below(pn, k) /\ k.rcv_nxt = r.k.rcv_nxt /\ k.rcv_nxt \in SeqNums
        /\ pn \in SeqNums /\ k0.rcv_nxt \in SeqNums
    BY <1>2, <2>1, BlockIs DEF Keeps, Below, SameReceiver
  <2>3. /\ g \in Nat /\ g0 \in Nat /\ s \in Nat /\ g <= g0 /\ g0 <= Half /\ 0 < s /\ s < Half
    BY <1>3, <1>5, <2>1, <2>2, GapNat, SegDecodes DEF Keeps, Comes
  <2>4. g <= Half /\ 2 * g < Word /\ 2 * s < Word
    <3> HIDE DEF g, g0, s
    <3> QED BY <2>3, Sizes
  <2>5. GetId(k.rcv_nxt, Short(seg.sn)) = seg.sn
    BY <1>3, <2>2, <2>3, <2>4, DecodeData
  <2>6. TakenIn(pn, k, InputPush(k, seg), seg.sn)
    BY <1>1, <1>2, <2>2, <2>3, <2>4, <2>5, PushFact
  <2>7. InputSeg(r, seg).k = InputPush(k, seg)
    BY <1>1, <1>5, InputSegCases DEF k
  <2> DEFINE k2 == InputPush(k, seg)
  <2>8. \A x \in Due(k2) : x \in Due(k) \/ x = seg.sn
    BY <2>6 DEF TakenIn
  <2> HIDE DEF k2
  <2> QED BY <1>2, <1>5, <2>7, <2>8 DEF k2
<1>6. CASE seg.cmd = "WASK"
  <2>0. InputSeg(r, seg) = [r EXCEPT !.k = kt]
    BY <1>6, InputSegCases DEF k
  <2>1. InputSeg(r, seg).k = kt
    <3> HIDE DEF kt
    <3> QED BY <1>1, <2>0
  <2> HIDE DEF told
  <2>2. k \in Blocks
    BY <1>2, BlockIs
  <2>3. kt.acklist = k.acklist
    BY <2>2 DEF Blocks
  <2> HIDE DEF kt
  <2> QED BY <1>8, <2>1, <2>3
<1>7. CASE seg.cmd = "WINS"
  <2>1. InputSeg(r, seg).k = k
    BY <1>1, <1>7, InputSegCases DEF k
  <2> QED BY <1>8, <2>1
<1> QED BY <1>3, <1>4, <1>5, <1>6, <1>7

\* A packet only lets go, and makes at most the numbers of its segments due.
LEMMA PacketSheds ==
    ASSUME Wide, NEW k, NEW p, Fine(k), Fine(p), Joined(k, p), Joined(p, k), Honest(p, k),
           NEW packet \in Seq(Segs),
           \A i \in 1 .. Len(packet) : Comes(k, p, packet[i]) /\ Young(k, p, packet[i]),
           NEW D, Due(k) \subseteq D,
           \A i \in 1 .. Len(packet) : packet[i].cmd \in {"PUSH", "DUPS"} => packet[i].sn \in D
    PROVE  Shed(k, Input(k, packet)) /\ Due(Input(k, packet)) \subseteq D
<1> DEFINE k0 == [k EXCEPT !.dead = FALSE]
           base == [k |-> k0, acked |-> {}]
           r == FoldLeft(InputSeg, base, packet)
           latest == CHOOSE sn \in r.acked : \A other \in r.acked : Diff(sn, other) >= 0
           k1 == IF r.acked = {} THEN r.k ELSE ParseFastack(r.k, latest)
           k2 == IF Diff(k1.snd_una, k.snd_una) > 0 THEN Grow(k1) ELSE k1
           S == {seg \in Segs : /\ Comes(k, p, seg) /\ Young(k, p, seg)
                                /\ seg.cmd \in {"PUSH", "DUPS"} => seg.sn \in D}
           T == {x \in Reading : Heard(k, p, x.k) /\ Shed(k, x.k) /\ Due(x.k) \subseteq D}
<1>1. k \in Blocks /\ Signed
  BY BlockIs, WideFact
<1>2. Alike(k, k0) /\ Shed(k, k0) /\ Due(k0) = Due(k)
  <2>1. /\ k0 \in Blocks /\ SameReceiver(k, k0) /\ k0.acklist = k.acklist /\ k0.snd_nxt = k.snd_nxt
        /\ k0.snd_una = k.snd_una /\ k0.snd_buf = k.snd_buf /\ k0.snd_queue = k.snd_queue
    BY <1>1 DEF Blocks, SameReceiver
  <2> HIDE DEF k0
  <2> QED BY <2>1 DEF Alike, Shed, Due
<1>3. Input(k, packet) = k2
  BY DEF Input
<1> HIDE DEF k0
<1>4. Heard(k, p, k0) /\ Fine(k0) /\ k0 \in Blocks
  <2>1. Keeps(p.snd_nxt, k, k)
    BY <1>1, KeepsSame, BlockIs DEF Joined
  <2>2. Heard(k, p, k)
    BY <2>1 DEF Heard, Joined
  <2> QED BY <1>2, <2>2, AlikeHeard, AlikeFine DEF Alike
<1>5. base \in T
  <2>1. base \in [k : Blocks, acked : SUBSET SeqNums] /\ base.k = k0
    BY <1>4
  <2> HIDE DEF base
  <2> QED BY <1>2, <1>4, <2>1 DEF Reading
<1>6. packet \in Seq(S)
  <2>1. Len(packet) \in Nat /\ \A i \in 1 .. Len(packet) : packet[i] \in Segs
    OBVIOUS
  <2>2. \A i \in 1 .. Len(packet) : packet[i] \in S
    BY <2>1
  <2> HIDE DEF S
  <2> QED BY <2>1, <2>2
<1>7. ASSUME NEW x \in T, NEW seg \in S PROVE InputSeg(x, seg) \in T
  <2>1. InputSeg(x, seg) \in Reading
    BY <1>1, ReadingFact
  <2>2. Heard(k, p, InputSeg(x, seg).k)
    BY HeardSegFact
  <2>3. Shed(k, InputSeg(x, seg).k)
    BY <1>1, SegSheds, ShedTrans
  <2>4. \A y \in Due(InputSeg(x, seg).k) : y \in Due(x.k) \/ (seg.cmd \in {"PUSH", "DUPS"} /\ y = seg.sn)
    BY SegDue
  <2>5. Due(InputSeg(x, seg).k) \subseteq D
    BY <2>4
  <2> QED BY <2>1, <2>2, <2>3, <2>5
<1>8. \A x \in T : Fine(x.k) /\ Shed(k, x.k) /\ Due(x.k) \subseteq D
  BY DEF Reading
<1> HIDE DEF S, T
<1>9. r \in T
  BY <1>5, <1>6, <1>7, InputFold
<1>10. Fine(r.k) /\ Shed(k, r.k) /\ Due(r.k) \subseteq D
  BY <1>8, <1>9
<1> HIDE DEF r
<1>11. Fine(k1) /\ Shed(k, k1) /\ Due(k1) \subseteq D
  <2> DEFINE kf == ParseFastack(r.k, latest)
  <2>1. Fine(kf)
    BY <1>10, FastackFact, AlikeFine
  <2>2. Shed(r.k, kf) /\ Due(kf) = Due(r.k)
    BY <1>10, RestSheds
  <2>3. k1 = r.k \/ k1 = kf
    OBVIOUS
  <2> HIDE DEF kf, k1
  <2>4. Shed(k, kf)
    BY <1>10, <2>2, ShedTrans
  <2> QED BY <1>10, <2>1, <2>2, <2>3, <2>4
<1> HIDE DEF k1
<1>12. Shed(k, k2) /\ Due(k2) \subseteq D
  <2>1. Shed(k1, Grow(k1)) /\ Due(Grow(k1)) = Due(k1)
    BY <1>11, RestSheds
  <2>2. Shed(k, Grow(k1))
    BY <1>11, <2>1, ShedTrans
  <2> QED BY <1>11, <2>1, <2>2
<1> QED BY <1>3, <1>12

\* Messages taken afterwards.
LEMMA DrainSheds ==
    ASSUME NEW k, NEW k1, NEW k2, Shed(k, k1), Received(k1, k2)
    PROVE  Shed(k, k2) /\ Due(k2) = Due(k1)
BY DEF Shed, Received, SameSender, Due

\* Arrive of e.
LEMMA ArriveSheds ==
    ASSUME Wide, Local, NEW e \in Ends, NEW i \in DOMAIN net[e], NEW again, Arrive(e, i, again),
           NEW p, Fine(p), Joined(kcp[e], p), Joined(p, kcp[e]), Honest(p, kcp[e]),
           \A seg \in Within(net[e]) : Comes(kcp[e], p, seg) /\ Young(kcp[e], p, seg),
           NEW D, Due(kcp[e]) \subseteq D,
           \A seg \in Within(net[e]) : seg.cmd \in {"PUSH", "DUPS"} => seg.sn \in D
    PROVE  Shed(kcp[e], kcp'[e]) /\ Due(kcp'[e]) \subseteq D
<1> DEFINE k == kcp[e]
           packet == net[e][i]
           k1 == Input(k, packet)
           taken == IF e \in Eager THEN Drain(k1) ELSE [k |-> k1, out |-> <<>>]
           k2 == IF e \in Eager THEN Drain(k1).k ELSE k1
<1>1. Fine(k) /\ packet \in Seq(Segs) /\ Signed
  <2>1. net[e] \in Seq(Small(Segs))
    BY DEF Local
  <2>2. packet \in Small(Segs)
    BY <2>1
  <2> QED BY <2>2, WideFact DEF Local, Small
<1>2. kcp'[e] = k2
  <2>1. kcp' = [kcp EXCEPT ![e] = taken.k]
    BY Zenon DEF Arrive
  <2>2. taken.k = k2
    OBVIOUS
  <2> HIDE DEF taken, k2
  <2> QED BY <2>1, <2>2 DEF Local
<1>3. \A j \in 1 .. Len(packet) : packet[j] \in Within(net[e])
  <2>1. DOMAIN packet = 1 .. Len(packet)
    BY <1>1
  <2> QED BY <2>1, WithinIs
<1>4. Shed(k, k1) /\ Due(k1) \subseteq D /\ Fine(k1)
  <2> HIDE DEF k, packet
  <2>1. /\ \A j \in 1 .. Len(packet) : Comes(k, p, packet[j]) /\ Young(k, p, packet[j])
        /\ \A j \in 1 .. Len(packet) : packet[j].cmd \in {"PUSH", "DUPS"} => packet[j].sn \in D
    BY <1>3 DEF k
  <2>2. Joined(k, p) /\ Joined(p, k) /\ Honest(p, k) /\ Due(k) \subseteq D
    BY DEF k
  <2>3. Fine(k1)
    BY <1>1, InputFact
  <2> QED BY <1>1, <2>1, <2>2, <2>3, PacketSheds
<1> HIDE DEF k1, k
<1>5. Received(k1, Drain(k1).k)
  BY <1>1, <1>4, DrainFact
<1>6. Shed(k, k2) /\ Due(k2) \subseteq D
  BY <1>4, <1>5, DrainSheds
<1> HIDE DEF k2
<1> QED BY <1>2, <1>6 DEF k

\* The fragments of message i of e.
Pieces(e, i) == (Lengths[e][i] + Mss - 1) \div Mss

\* t counts the fragments of the first messages of e.
Totals(e, t) == t[0] = 0 /\ \A i \in 1 .. Len(Lengths[e]) : t[i] = t[i - 1] + Pieces(e, i)

\* Each end has fewer than Half fragments to send.
Brief == \A e \in Ends : \E t \in [0 .. Len(Lengths[e]) -> 0 .. Half - 1] : Totals(e, t)
Total(e) == CHOOSE t \in [0 .. Len(Lengths[e]) -> 0 .. Half - 1] : Totals(e, t)

\* Every number is used for one fragment, and none twice.
Counted == \A e \in Ends :
    /\ Len(sent[e]) <= Len(Lengths[e])
    /\ kcp[e].snd_nxt + Len(kcp[e].snd_queue) = Total(e)[Len(sent[e])]

\* k has used every number that p has heard of, and every number it holds.
Begun(k, p) ==
    /\ p.rcv_nxt <= k.snd_nxt
    /\ \A x \in Due(p) : x <= k.snd_nxt
    /\ \A x : Has(k.snd_buf, x) => x <= k.snd_nxt

\* The numbers of a segment on its way to k from p have been used.
Dated(k, p, seg) ==
    /\ seg.una <= k.snd_nxt
    /\ seg.cmd = "ACK" => seg.sn <= k.snd_nxt
    /\ seg.cmd \in {"PUSH", "DUPS"} => seg.sn <= p.snd_nxt

\* No number has been used a second time.
First == \A e \in Ends :
    /\ Begun(kcp[e], kcp[Peer(e)])
    /\ \A seg \in Within(net[e]) : Dated(kcp[e], kcp[Peer(e)], seg)

\* The counts are there.
LEMMA TotalIs ==
    ASSUME Brief, NEW e \in Ends
    PROVE  Total(e) \in [0 .. Len(Lengths[e]) -> 0 .. Half - 1] /\ Totals(e, Total(e))
BY DEF Brief, Total

\* As many fragments as counted.
LEMMA PiecesIs ==
    ASSUME NEW e \in Ends, NEW i \in 1 .. Len(Lengths[e])
    PROVE  Len(Fragments(Message(e, i))) = Pieces(e, i) /\ Pieces(e, i) \in Nat
<1> DEFINE l == Lengths[e][i]
           data == Message(e, i)
           c == (l + Mss - 1) \div Mss
           d(j) == [frg |-> c - j,
                    data |-> SubSeq(data, (j - 1) * Mss + 1, Min({j * Mss, l}))]
<1>1. l \in Nat
  <2>1. Lengths[e] \in Seq(Nat \ {0})
    BY LengthsAssumption
  <2> QED BY <2>1
<1>2. Len(data) = l
  <2>1. data = [b \in 1 .. l |-> <<i, b>>]
    BY DEF Message
  <2> HIDE DEF l, data
  <2> QED BY <1>1, <2>1
<1>3. Fragments(data) = [j \in 1 .. c |-> d(j)]
  <2> HIDE DEF data, l
  <2> QED BY <1>2 DEF Fragments
<1>4. c \in Nat
  <2> HIDE DEF l
  <2> QED BY <1>1, CountFact
<1>5. c = Pieces(e, i)
  BY DEF Pieces
<1> HIDE DEF c, d
<1>6. Len(Fragments(data)) = c
  <2> HIDE DEF data
  <2> QED BY <1>3, <1>4
<1> QED BY <1>4, <1>5, <1>6

\* Numbers below Half are not too old.
LEMMA FirstYoung ==
    ASSUME NEW b \in SeqNums, b < Half, NEW x \in SeqNums, x <= b
    PROVE  Diff(b, x) < Half
<1>1. Gap(b, x) = b - x
  BY Sizes DEF Gap
<1>2. Diff(b, x) = IF 2 * Gap(b, x) < Word THEN Gap(b, x) ELSE Gap(b, x) - Word
  BY GapIs
<1> QED BY <1>1, <1>2, Sizes

\* The numbers used so far are below Half.
LEMMA BelowHalf ==
    ASSUME Brief, Local, Counted, NEW e \in Ends
    PROVE  /\ kcp[e].snd_nxt + Len(kcp[e].snd_queue) < Half
           /\ Len(kcp[e].snd_queue) \in Nat /\ Len(sent[e]) \in 0 .. Len(Lengths[e])
           /\ kcp[e].snd_nxt \in SeqNums /\ kcp[e].snd_nxt < Half
<1>1. kcp[e].snd_queue \in Seq(Queued) /\ kcp[e].snd_nxt \in SeqNums
  BY DEF Local, Blocks
<1>2. Len(kcp[e].snd_queue) \in Nat
  BY <1>1
<1>3. Len(sent[e]) \in 0 .. Len(Lengths[e])
  <2>1. Len(sent[e]) \in Nat /\ Len(Lengths[e]) \in Nat
    BY LengthsAssumption DEF Local
  <2> QED BY <2>1 DEF Counted
<1>4. Total(e)[Len(sent[e])] \in 0 .. Half - 1
  BY <1>3, TotalIs
<1>5. kcp[e].snd_nxt + Len(kcp[e].snd_queue) < Half
  BY <1>4, Sizes DEF Counted
<1> QED BY <1>1, <1>2, <1>3, <1>5, Sizes

\* So nothing is too old.
LEMMA FirstTimely ==
    ASSUME Brief, Local, Counted, First
    PROVE  Timely
<1> SUFFICES ASSUME NEW e \in Ends
             PROVE  /\ \A x \in Due(kcp[Peer(e)]) : Diff(kcp[e].snd_nxt, x) < Half
                    /\ \A seg \in Within(net[e]) : Young(kcp[e], kcp[Peer(e)], seg)
  BY DEF Timely
<1> DEFINE k == kcp[e]
           p == kcp[Peer(e)]
<1>1. /\ k.snd_nxt \in SeqNums /\ k.snd_nxt < Half /\ p.snd_nxt \in SeqNums /\ p.snd_nxt < Half
      /\ Begun(k, p) /\ \A seg \in Within(net[e]) : Dated(k, p, seg)
  BY BelowHalf, PeerFact DEF First
<1>2. p.acklist \in Seq(SeqNums) /\ Within(net[e]) \subseteq Segs
  BY PeerFact, WithinSet DEF Local, Blocks
<1> HIDE DEF k, p
<1>3. \A x \in Due(p) : x \in SeqNums /\ x <= k.snd_nxt
  BY <1>1, <1>2 DEF Due, Begun
<1>4. \A x \in Due(p) : Diff(k.snd_nxt, x) < Half
  BY <1>1, <1>3, FirstYoung
<1>5. ASSUME NEW seg \in Within(net[e]) PROVE Young(k, p, seg)
  <2>1. seg.una \in SeqNums /\ seg.sn \in SeqNums /\ Dated(k, p, seg)
    BY <1>1, <1>2, SegIs
  <2> QED BY <1>1, <2>1, FirstYoung DEF Young, Dated
<1> QED BY <1>4, <1>5 DEF k, p

\* What an end sends has not wrapped.
LEMMA NoWrap ==
    ASSUME Signed, NEW k, Fine(k), NEW k2, NEW more \in Nat, Advanced(k, k2, more),
           k.snd_nxt + Len(k.snd_queue) + more < Half
    PROVE  /\ k.snd_nxt <= k2.snd_nxt
           /\ k2.snd_nxt + Len(k2.snd_queue) = k.snd_nxt + Len(k.snd_queue) + more
           /\ (\A x : Has(k.snd_buf, x) => x <= k.snd_nxt) => \A x : Has(k2.snd_buf, x) => x <= k2.snd_nxt
<1>1. PICK n \in Nat :
         /\ n <= SndWnd /\ k2.snd_nxt = Plus(k.snd_nxt, n)
         /\ \A x : Has(k2.snd_buf, x) =>
               Has(k.snd_buf, x) \/ (x \in SeqNums /\ 0 < Gap(k2.snd_nxt, x) /\ Gap(k2.snd_nxt, x) <= n)
         /\ Len(k2.snd_queue) + n = Len(k.snd_queue) + more
  BY DEF Advanced
<1>2. k \in Blocks /\ k2 \in Blocks /\ k.snd_nxt \in SeqNums /\ k2.snd_nxt \in SeqNums
  BY BlockIs DEF Advanced
<1>3. Len(k.snd_queue) \in Nat /\ Len(k2.snd_queue) \in Nat
  <2>1. k.snd_queue \in Seq(Queued) /\ k2.snd_queue \in Seq(Queued)
    BY <1>2 DEF Blocks
  <2> QED BY <2>1
<1>4. n \in SeqNums /\ k.snd_nxt + n < Word
  BY <1>1, <1>2, <1>3, Sizes
<1>5. k2.snd_nxt = k.snd_nxt + n
  BY <1>1, <1>2, <1>4, PlusIs
<1>6. ASSUME NEW x \in SeqNums, Gap(k2.snd_nxt, x) <= n PROVE x <= k2.snd_nxt
  BY <1>2, <1>4, <1>5, <1>6, Sizes DEF Gap
<1>7. ASSUME NEW x, \A y : Has(k.snd_buf, y) => y <= k.snd_nxt, Has(k2.snd_buf, x) PROVE x <= k2.snd_nxt
  <2>1. CASE Has(k.snd_buf, x)
    <3>1. PICK i \in 1 .. Len(k.snd_buf) : k.snd_buf[i].sn = x
      BY <2>1 DEF Has
    <3>2. k.snd_buf[i] \in Held
      BY BlockIs
    <3>3. x \in SeqNums /\ x <= k.snd_nxt
      BY <1>7, <2>1, <3>1, <3>2 DEF Held
    <3> QED BY <1>1, <1>2, <1>5, <3>3, Sizes
  <2>2. CASE x \in SeqNums /\ Gap(k2.snd_nxt, x) <= n
    BY <1>6, <2>2
  <2>3. Has(k.snd_buf, x) \/ (x \in SeqNums /\ 0 < Gap(k2.snd_nxt, x) /\ Gap(k2.snd_nxt, x) <= n)
    BY <1>1, <1>7
  <2> QED BY <2>1, <2>2, <2>3
<1>8. (\A x : Has(k.snd_buf, x) => x <= k.snd_nxt) => \A x : Has(k2.snd_buf, x) => x <= k2.snd_nxt
  BY <1>7
<1>9. /\ k.snd_nxt <= k2.snd_nxt
      /\ k2.snd_nxt + Len(k2.snd_queue) = k.snd_nxt + Len(k.snd_queue) + more
  <2> DEFINE a == Len(k.snd_queue)
             b == Len(k2.snd_queue)
             from == k.snd_nxt
             to == k2.snd_nxt
  <2>1. a \in Nat /\ b \in Nat /\ b + n = a + more
    BY <1>1, <1>3
  <2>2. from \in Nat /\ n \in Nat /\ to = from + n
    BY <1>2, <1>4, <1>5, Sizes
  <2> HIDE DEF a, b, from, to
  <2>3. from <= to
    BY <2>2
  <2>4. to + b = from + a + more
    BY <2>1, <2>2
  <2> QED BY <2>3, <2>4 DEF a, b, from, to
<1> QED BY <1>8, <1>9

\* Nor has what an end has heard.
LEMMA HeardFirst ==
    ASSUME NEW b \in SeqNums, NEW x \in SeqNums, NEW y \in SeqNums, x <= b, Gap(b, y) <= Gap(b, x)
    PROVE  y <= b
BY Sizes DEF Gap

\* A step of one end.
LEMMA FirstOf ==
    ASSUME Local, Counted, NEW e \in Ends, NEW k2, kcp' = [kcp EXCEPT ![e] = k2],
           Begun(k2, kcp[Peer(e)]), Begun(kcp[Peer(e)], k2),
           \A seg \in Within(net'[e]) : Dated(k2, kcp[Peer(e)], seg),
           \A seg \in Within(net'[Peer(e)]) : Dated(kcp[Peer(e)], k2, seg),
           Len(sent'[e]) <= Len(Lengths[e]),
           k2.snd_nxt + Len(k2.snd_queue) = Total(e)[Len(sent'[e])],
           sent'[Peer(e)] = sent[Peer(e)]
    PROVE  Counted' /\ First'
<1>1. Peer(e) \in Ends /\ Peer(e) # e /\ Peer(Peer(e)) = e /\ \A f \in Ends : f = e \/ f = Peer(e)
  BY PeerFact
<1>2. kcp'[e] = k2 /\ kcp'[Peer(e)] = kcp[Peer(e)]
  BY <1>1 DEF Local
<1>3. \A f \in Ends :
        /\ Begun(kcp'[f], kcp'[Peer(f)])
        /\ \A seg \in Within(net'[f]) : Dated(kcp'[f], kcp'[Peer(f)], seg)
  BY <1>1, <1>2
<1>4. \A f \in Ends :
        /\ Len(sent'[f]) <= Len(Lengths[f])
        /\ kcp'[f].snd_nxt + Len(kcp'[f].snd_queue) = Total(f)[Len(sent'[f])]
  BY <1>1, <1>2 DEF Counted
<1> QED BY <1>3, <1>4 DEF First, Counted

\* What a send queues is counted.
LEMMA QueuesCounted ==
    ASSUME Brief, Local, Counted, NEW e \in Ends, NEW more, Queues(e, more)
    PROVE  /\ more \in Nat /\ sent'[Peer(e)] = sent[Peer(e)]
           /\ Len(sent'[e]) \in 0 .. Len(Lengths[e])
           /\ Total(e)[Len(sent'[e])] = Total(e)[Len(sent[e])] + more
           /\ Total(e)[Len(sent'[e])] < Half
<1> DEFINE i == Len(sent[e]) + 1
<1>1. /\ Len(sent[e]) \in 0 .. Len(Lengths[e]) /\ sent \in [Ends -> Seq(Seq(Bytes))]
      /\ Peer(e) \in Ends /\ Peer(e) # e
  BY BelowHalf, PeerFact DEF Local
<1>2. Total(e) \in [0 .. Len(Lengths[e]) -> 0 .. Half - 1] /\ Totals(e, Total(e))
  BY TotalIs
<1>3. CASE sent' = sent /\ more = 0
  <2>1. Total(e)[Len(sent[e])] \in 0 .. Half - 1
    BY <1>1, <1>2
  <2> QED BY <1>1, <1>3, <2>1, Sizes
<1>4. CASE /\ i \in 1 .. Len(Lengths[e]) /\ sent' = [sent EXCEPT ![e] = Append(@, Message(e, i))]
           /\ more = Len(Fragments(Message(e, i)))
  <2>1. more = Pieces(e, i) /\ more \in Nat
    BY <1>4, PiecesIs
  <2>2. sent'[e] = Append(sent[e], Message(e, i)) /\ sent'[Peer(e)] = sent[Peer(e)]
    BY <1>1, <1>4
  <2>3. Len(sent'[e]) = i
    <3>1. sent[e] \in Seq(Seq(Bytes))
      BY <1>1
    <3> DEFINE m == Message(e, i)
    <3> HIDE DEF m
    <3> QED BY <2>2, <3>1 DEF m
  <2>4. i - 1 = Len(sent[e])
    BY <1>1
  <2>7. i \in 1 .. Len(Lengths[e])
    BY <1>4
  <2> HIDE DEF i
  <2>5. Total(e)[i] = Total(e)[i - 1] + more
    BY <1>2, <2>1, <2>7 DEF Totals
  <2>6. Total(e)[i] \in 0 .. Half - 1 /\ i \in 0 .. Len(Lengths[e])
    BY <1>1, <1>2, <2>7
  <2>8. Total(e)[i] < Half
    BY <2>6, Sizes
  <2> QED BY <2>1, <2>2, <2>3, <2>4, <2>5, <2>6, <2>8
<1> QED BY <1>3, <1>4 DEF Queues

\* Every step of a brief session uses new numbers.
LEMMA FirstStep ==
    ASSUME Wide, Brief, Local, Joint, Counted, First, [Next]_vars
    PROVE  Counted' /\ First'
<1>1. CASE UNCHANGED vars
  BY <1>1 DEF vars, Counted, First
<1>2. CASE Next
  <2>1. PICK e \in Ends :
             \/ Sending(e) \/ Receive(e)
             \/ \E i \in DOMAIN net[e], again \in BOOLEAN : Arrive(e, i, again)
             \/ \E i \in DOMAIN net[e] : Lose(e, i)
    BY <1>2, StepCases
  <2> DEFINE q == Peer(e)
             k == kcp[e]
             p == kcp[q]
  <2>2. q \in Ends /\ q # e /\ Peer(q) = e
    BY PeerFact
  <2>3. /\ Fine(k) /\ Fine(p) /\ Signed
        /\ Joined(k, p) /\ Joined(p, k) /\ Honest(k, p) /\ Honest(p, k)
        /\ net[e] \in Seq(Small(Segs)) /\ net[q] \in Seq(Small(Segs))
        /\ Within(net[e]) \subseteq Segs /\ Within(net[q]) \subseteq Segs
    BY <2>2, WithinSet, WideFact DEF Local, Joint
  <2>4. Timely
    BY FirstTimely
  <2>5. /\ \A seg \in Within(net[e]) : Comes(k, p, seg) /\ Young(k, p, seg) /\ Dated(k, p, seg)
        /\ \A seg \in Within(net[q]) : Dated(p, k, seg)
        /\ Begun(k, p) /\ Begun(p, k)
    BY <2>2, <2>4 DEF Joint, Timely, First
  <2>6. /\ Len(sent[e]) <= Len(Lengths[e]) /\ k.snd_nxt + Len(k.snd_queue) = Total(e)[Len(sent[e])]
        /\ k.snd_nxt \in SeqNums /\ p.snd_nxt \in SeqNums /\ k.rcv_nxt \in SeqNums
        /\ p.acklist \in Seq(SeqNums) /\ k.acklist \in Seq(SeqNums)
        /\ k.snd_nxt + Len(k.snd_queue) < Half /\ Len(k.snd_queue) \in Nat
    BY <2>3, BelowHalf, BlockIs DEF Counted
  \* After something heard.
  <2>7. ASSUME NEW k2, Heard(k, p, k2), Shed(k, k2), Due(k2) \subseteq 0 .. p.snd_nxt,
               kcp' = [kcp EXCEPT ![e] = k2], sent' = sent,
               Within(net'[e]) \subseteq Within(net[e]), net'[q] = net[q]
        PROVE  Counted' /\ First'
    <3> HIDE DEF k, p
    <3>1. k2.rcv_nxt <= p.snd_nxt
      <4>1. k2.rcv_nxt \in SeqNums /\ Gap(p.snd_nxt, k2.rcv_nxt) <= Gap(p.snd_nxt, k.rcv_nxt)
        BY <2>7, BlockIs DEF Heard, Keeps
      <4> QED BY <2>5, <2>6, <4>1, HeardFirst DEF Begun
    <3>2. Begun(k2, p)
      BY <2>5, <2>7 DEF Begun, Shed
    <3>3. Begun(p, k2)
      BY <2>5, <2>6, <2>7, <3>1, Sizes DEF Begun
    <3>4. /\ \A seg \in Within(net'[e]) : Dated(k2, p, seg)
          /\ \A seg \in Within(net'[q]) : Dated(p, k2, seg)
      BY <2>5, <2>7 DEF Dated, Shed
    <3>5. k2.snd_nxt + Len(k2.snd_queue) = Total(e)[Len(sent'[e])] /\ Len(sent'[e]) <= Len(Lengths[e])
      BY <2>6, <2>7 DEF Shed
    <3> QED BY <2>7, <3>2, <3>3, <3>4, <3>5, FirstOf DEF p, q
  <2>8. Heard(k, p, k) /\ Shed(k, k)
    <3> HIDE DEF k, p
    <3>1. k \in Blocks /\ Below(p.snd_nxt, k)
      BY <2>3, BlockIs DEF Joined
    <3>2. Keeps(p.snd_nxt, k, k)
      BY <2>6, <3>1, KeepsSame
    <3> QED BY <2>3, <3>2 DEF Heard, Joined, Shed
  <2>9. Due(k) \subseteq 0 .. p.snd_nxt
    <3> HIDE DEF k, p
    <3> QED BY <2>5, <2>6, Sizes DEF Begun, Due
  <2>10. CASE Sending(e)
    <3>1. PICK k2, out, more :
             /\ kcp' = [kcp EXCEPT ![e] = k2] /\ net' = [net EXCEPT ![q] = @ \o out]
             /\ Advanced(k, k2, more) /\ Queues(e, more) /\ out \in Seq(Small(Leaving(k, k2)))
      BY <2>3, <2>10, SendingFact
    <3>2. net'[e] = net[e] /\ net'[q] = net[q] \o out
      BY <2>2, <3>1 DEF Local
    <3>3. /\ more \in Nat /\ sent'[q] = sent[q] /\ Len(sent'[e]) \in 0 .. Len(Lengths[e])
          /\ Total(e)[Len(sent'[e])] = Total(e)[Len(sent[e])] + more
          /\ Total(e)[Len(sent'[e])] < Half
      BY <3>1, QueuesCounted
    <3>4. Len(Lengths[e]) \in Nat
      BY LengthsAssumption
    <3> HIDE DEF k, p, q
    <3>5. /\ k.snd_nxt <= k2.snd_nxt
          /\ k2.snd_nxt + Len(k2.snd_queue) = k.snd_nxt + Len(k.snd_queue) + more
          /\ \A x : Has(k2.snd_buf, x) => x <= k2.snd_nxt
      <4>1. k.snd_nxt + Len(k.snd_queue) + more < Half
        BY <2>6, <3>3
      <4> QED BY <2>3, <2>5, <3>1, <3>3, <4>1, NoWrap DEF Begun
    <3>6. /\ k2.snd_nxt \in SeqNums /\ k2.rcv_nxt = k.rcv_nxt /\ Due(k2) = {}
          /\ p.rcv_nxt \in SeqNums
      <4>1. Fine(k2) /\ SameReceiver(k, k2) /\ k2.acklist = <<>>
        BY <3>1 DEF Advanced
      <4> QED BY <2>3, <4>1, BlockIs DEF SameReceiver, Due
    <3>7. Begun(k2, p)
      <4>1. ASSUME NEW x \in Due(p) PROVE x <= k2.snd_nxt
        <5>1. x \in SeqNums /\ x <= k.snd_nxt
          BY <2>5, <2>6, <4>1 DEF Due, Begun
        <5> QED BY <2>6, <3>5, <3>6, <5>1, Sizes
      <4>2. p.rcv_nxt <= k2.snd_nxt
        BY <2>5, <2>6, <3>5, <3>6, Sizes DEF Begun
      <4> QED BY <3>5, <4>1, <4>2 DEF Begun
    <3>8. Begun(p, k2)
      BY <2>5, <3>6 DEF Begun
    <3>9. ASSUME NEW seg \in Within(net[e]) PROVE Dated(k2, p, seg)
      <4>1. seg.una \in SeqNums /\ seg.sn \in SeqNums /\ Dated(k, p, seg)
        BY <2>3, <2>5, SegIs
      <4> QED BY <2>6, <3>5, <3>6, <4>1, Sizes DEF Dated
    <3>10. ASSUME NEW seg \in Within(net[q]) PROVE Dated(p, k2, seg)
      <4>1. seg.una \in SeqNums /\ seg.sn \in SeqNums /\ Dated(p, k, seg)
        BY <2>3, <2>5, SegIs
      <4> QED BY <2>6, <3>5, <3>6, <4>1, Sizes DEF Dated
    <3>11. ASSUME NEW seg \in Leaving(k, k2) PROVE Dated(p, k2, seg)
      <4>1. /\ seg.una = k.rcv_nxt
            /\ seg.cmd = "ACK" => seg.sn \in Due(k)
            /\ seg.cmd \in {"PUSH", "DUPS"} => Has(k2.snd_buf, seg.sn)
        BY DEF Leaving
      <4> QED BY <2>5, <3>5, <4>1 DEF Begun, Dated
    <3>12. Within(net'[q]) \subseteq Within(net[q]) \cup Leaving(k, k2)
      <4>1. Leaving(k, k2) \in SUBSET Segs /\ Within(out) \subseteq Leaving(k, k2)
        BY <3>1, WithinSet DEF Leaving
      <4>2. out \in Seq(Small(Segs))
        BY <3>1, <4>1, SmallMono
      <4>3. Within(net'[q]) \subseteq Within(net[q]) \cup Within(out)
        BY <2>3, <3>2, <4>2, WithinMore
      <4> QED BY <4>1, <4>3
    <3>13. /\ \A seg \in Within(net'[e]) : Dated(k2, p, seg)
           /\ \A seg \in Within(net'[q]) : Dated(p, k2, seg)
      BY <3>2, <3>9, <3>10, <3>11, <3>12
    <3>14. k2.snd_nxt + Len(k2.snd_queue) = Total(e)[Len(sent'[e])] /\ Len(sent'[e]) <= Len(Lengths[e])
      BY <2>6, <3>3, <3>4, <3>5
    <3> QED BY <3>1, <3>3, <3>7, <3>8, <3>13, <3>14, FirstOf DEF p, q
  <2>11. CASE Receive(e)
    <3>1. kcp' = [kcp EXCEPT ![e] = Recv(k)] /\ net' = net /\ sent' = sent
      BY <2>11 DEF Receive
    <3> HIDE DEF k, p
    <3>2. Received(k, Recv(k))
      BY <2>3, RecvFact DEF Received
    <3>3. Heard(k, p, Recv(k))
      BY <2>3, <2>8, <3>2, DrainedFact
    <3>4. Shed(k, Recv(k)) /\ Due(Recv(k)) = Due(k)
      BY <2>8, <3>2, DrainSheds
    <3> QED BY <2>7, <2>9, <3>1, <3>3, <3>4
  <2>12. CASE \E i \in DOMAIN net[e], again \in BOOLEAN : Arrive(e, i, again)
    <3>1. PICK i \in DOMAIN net[e], again \in BOOLEAN : Arrive(e, i, again)
      BY <2>12
    <3>2. PICK k2 :
             /\ kcp' = [kcp EXCEPT ![e] = k2] /\ sent' = sent
             /\ net' = net \/ net' = [net EXCEPT ![e] = RemoveAt(@, i)]
             /\ /\ Wide /\ Fine(p) /\ Joined(k, p) /\ Joined(p, k) /\ Honest(p, k)
                /\ \A j \in 1 .. Len(net[e][i]) : Comes(k, p, net[e][i][j]) /\ Young(k, p, net[e][i][j])
                => Heard(k, p, k2)
      BY <2>3, <3>1, ArriveFact
    <3>3. \A j \in 1 .. Len(net[e][i]) : net[e][i][j] \in Within(net[e])
      <4>1. net[e][i] \in Seq(Segs)
        BY <2>3 DEF Small
      <4>2. DOMAIN net[e][i] = 1 .. Len(net[e][i])
        BY <4>1
      <4> QED BY <4>2, WithinIs
    <3>4. Heard(k, p, k2)
      BY <2>3, <2>5, <3>2, <3>3
    <3>5. Within(net'[e]) \subseteq Within(net[e]) /\ net'[q] = net[q]
      <4>1. Within(RemoveAt(net[e], i)) \subseteq Within(net[e])
        BY <2>3, WithinLess
      <4> QED BY <2>2, <3>2, <4>1 DEF Local
    <3>6. kcp'[e] = k2
      BY <3>2 DEF Local
    <3> DEFINE D == 0 .. p.snd_nxt
    <3>7. \A seg \in Within(net[e]) : seg.cmd \in {"PUSH", "DUPS"} => seg.sn \in D
      <4> TAKE seg \in Within(net[e])
      <4>1. seg.sn \in SeqNums /\ Dated(k, p, seg)
        BY <2>3, <2>5, SegIs
      <4> HIDE DEF p, k
      <4> QED BY <2>6, <4>1, Sizes DEF Dated
    <3> HIDE DEF D
    <3>8. Due(k) \subseteq D
      BY <2>9 DEF D
    <3>9. Shed(k, kcp'[e]) /\ Due(kcp'[e]) \subseteq D
      BY <2>3, <2>5, <3>1, <3>7, <3>8, ArriveSheds
    <3> QED BY <2>7, <3>2, <3>4, <3>5, <3>6, <3>9 DEF D
  <2>13. CASE \E i \in DOMAIN net[e] : Lose(e, i)
    <3>1. PICK i \in DOMAIN net[e] : Lose(e, i)
      BY <2>13
    <3>2. net' = [net EXCEPT ![e] = RemoveAt(@, i)] /\ kcp' = kcp /\ sent' = sent
      BY <3>1 DEF Lose
    <3>3. kcp' = [kcp EXCEPT ![e] = k]
      BY <3>2 DEF Local
    <3>4. Within(net'[e]) \subseteq Within(net[e]) /\ net'[q] = net[q]
      <4>1. Within(RemoveAt(net[e], i)) \subseteq Within(net[e])
        BY <2>3, WithinLess
      <4> QED BY <2>2, <3>2, <4>1 DEF Local
    <3> QED BY <2>7, <2>8, <2>9, <3>2, <3>3, <3>4
  <2> QED BY <2>1, <2>10, <2>11, <2>12, <2>13
<1> QED BY <1>1, <1>2

\* A session starts with no number used.
LEMMA FirstInit == Brief /\ Init => Counted /\ First
<1> SUFFICES ASSUME Brief, Init, NEW e \in Ends
             PROVE  /\ Len(sent[e]) <= Len(Lengths[e])
                    /\ kcp[e].snd_nxt + Len(kcp[e].snd_queue) = Total(e)[Len(sent[e])]
                    /\ Begun(kcp[e], kcp[Peer(e)])
                    /\ \A seg \in Within(net[e]) : Dated(kcp[e], kcp[Peer(e)], seg)
  BY DEF Counted, First
<1>1. kcp[e] = NewKcp /\ kcp[Peer(e)] = NewKcp /\ net[e] = <<>> /\ sent[e] = <<>>
  BY PeerFact DEF Init
<1>2. Within(<<>>) = {}
  BY DEF Within
<1>3. NewKcp.snd_queue = <<>> /\ NewKcp.snd_nxt = 0
  BY DEF NewKcp
<1>4. Begun(NewKcp, NewKcp)
  BY NewFine DEF Begun, Due, Has
<1>5. Total(e)[0] = 0
  BY TotalIs DEF Totals
<1>6. Len(Lengths[e]) \in Nat
  BY LengthsAssumption
<1> QED BY <1>1, <1>2, <1>3, <1>4, <1>5, <1>6

\* A session in which each end sends fewer than Half fragments (32768 in the code,
\* the reach of the 16-bit numbers that get_id rebuilds): whatever the network
\* delays, repeats, loses or reorders, nothing is ever too old, so nothing is
\* forgotten and every number is rebuilt, without any assumption on the network.
THEOREM ShortSession ==
    ASSUME Wide, Brief
    PROVE  Spec => []Timely /\ []NothingForgotten /\ []DecodesRight
<1>1. Init => Local /\ Joint /\ Counted /\ First
  BY LocalInit, JointInit, FirstInit
<1>2. Local /\ Joint /\ Counted /\ First /\ [Next]_vars => (Local /\ Joint /\ Counted /\ First)'
  <2> SUFFICES ASSUME Local, Joint, Counted, First, [Next]_vars
               PROVE  (Local /\ Joint /\ Counted /\ First)'
    OBVIOUS
  <2>1. Timely /\ Signed
    BY FirstTimely, WideFact
  <2>2. Local' /\ Joint'
    BY <2>1, LocalStep, JointStep
  <2>3. Counted' /\ First'
    BY FirstStep
  <2> QED BY <2>2, <2>3
<1>3. Local /\ Counted /\ First => Timely
  BY FirstTimely
<1>4. Spec => []Timely
  BY <1>1, <1>2, <1>3, PTL DEF Spec
<1> QED BY <1>4, NothingLost, AlwaysDecoded, PTL

=============================================================================
