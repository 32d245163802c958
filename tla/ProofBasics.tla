----------------------------- MODULE ProofBasics -----------------------------
(***************************************************************************)
(* Facts about numbers that the proofs share: the indices of a ring        *)
(* buffer, the least element of a set of naturals, functions on 1 .. n.    *)
(***************************************************************************)
EXTENDS Integers, SequenceTheorems, NaturalsInduction, WellFoundedInduction, TLAPS

\* % by a constant that is not known, on the two ranges a ring index meets.
LEMMA ModSmall ==
  ASSUME NEW N \in Nat \ {0}, NEW x \in 0 .. N - 1 PROVE x % N = x
  OBVIOUS

\* The upper range: one turn past the end of the buffer.
LEMMA ModLarge ==
  ASSUME NEW N \in Nat \ {0}, NEW x \in N .. 2 * N - 1 PROVE x % N = x - N
<1>1. x = N * 1 + (x - N)
  OBVIOUS
<1> QED
  BY <1>1

\* The step of an index, (i + 1) % size in queue.c and pipe.c, by cases.
LEMMA ModSucc ==
  ASSUME NEW N \in Nat \ {0}, NEW x \in 0 .. N - 1
  PROVE  (x + 1) % N = IF x = N - 1 THEN 0 ELSE x + 1
  BY ModSmall, ModLarge

\* One more on the left of a congruence is one more on the right.
LEMMA ModCongruent ==
  ASSUME NEW N \in Nat \ {0}, NEW x \in 0 .. 2 * N - 2, NEW y \in 0 .. N - 1,
         x % N = y
  PROVE  (x + 1) % N = (y + 1) % N
<1>1. CASE x < N
  BY <1>1, ModSmall
<1>2. CASE x >= N
  <2>1. x % N = x - N /\ (x + 1) % N = x + 1 - N
    BY <1>2, ModLarge
  <2>2. (y + 1) % N = y + 1
    BY <2>1, ModSmall
  <2> QED
    BY <2>1, <2>2
<1> QED
  BY <1>1, <1>2

\* Two slots of one ring less than a turn apart are different slots.
LEMMA ModDistinct ==
  ASSUME NEW N \in Nat \ {0}, NEW h \in 0 .. N - 1, NEW a \in 0 .. N - 1,
         NEW b \in 0 .. N - 1, a < b
  PROVE  (h + a) % N # (h + b) % N
<1>1. CASE h + b < N
  <2>1. (h + a) % N = h + a /\ (h + b) % N = h + b
    BY <1>1, ModSmall
  <2> QED
    BY <2>1
<1>2. CASE h + b >= N /\ h + a < N
  <2>0. h + a \in 0 .. N - 1 /\ h + b \in N .. 2 * N - 1
    BY <1>2
  <2>1. (h + a) % N = h + a
    BY <2>0, ModSmall
  <2>2. (h + b) % N = h + b - N
    BY <2>0, ModLarge
  <2> QED
    BY <2>1, <2>2
<1>3. CASE h + a >= N
  <2>0. h + a \in N .. 2 * N - 1 /\ h + b \in N .. 2 * N - 1
    BY <1>3
  <2>1. (h + a) % N = h + a - N /\ (h + b) % N = h + b - N
    BY <2>0, ModLarge
  <2> QED
    BY <2>1
<1> QED
  BY <1>1, <1>2, <1>3

\* Wrapping the start of a walk round the ring leaves its slots as they are.
LEMMA ModShift ==
  ASSUME NEW N \in Nat \ {0}, NEW h \in 0 .. N - 1, NEW a \in 0 .. N - 1
  PROVE  (((h + 1) % N) + a) % N = (h + 1 + a) % N
<1>1. CASE h # N - 1
  <2>1. (h + 1) % N = h + 1
    BY <1>1, ModSmall
  <2> QED
    BY <2>1
<1>2. CASE h = N - 1
  <2>1. (h + 1) % N = 0
    BY <1>2, ModSucc
  <2>2. a % N = a /\ (N + a) % N = a
    BY ModSmall, ModLarge
  <2>3. h + 1 + a = N + a
    BY <1>2
  <2> QED
    BY <2>1, <2>2, <2>3
<1> QED
  BY <1>1, <1>2

-----------------------------------------------------------------------------
\* A set of naturals has a least element: induction without a predicate.
LEMMA LeastNat ==
  ASSUME NEW T, T \subseteq Nat, T # {}
  PROVE  \E n \in T : \A m \in T : n <= m
<1>1. PICK n \in T : \A m \in T : ~ (<<m, n>> \in OpToRel(<, Nat))
  BY NatLessThanWellFounded, WFMin
<1>2. \A m \in T : ~ (m < n)
  BY <1>1 DEF OpToRel
<1> QED
  BY <1>2

\* A function on 1 .. n is a sequence of length n.
LEMMA FunctionIsSeq ==
  ASSUME NEW S, NEW n \in Nat, NEW f \in [1 .. n -> S]
  PROVE  f \in Seq(S) /\ Len(f) = n
<1>1. f \in Seq(S)
  BY SeqDef
<1>2. Len(f) \in Nat /\ 1 .. Len(f) = 1 .. n
  BY <1>1, LenProperties
<1>3. \A i \in Int : i \in 1 .. Len(f) <=> i \in 1 .. n
  BY <1>2
<1>4. Len(f) = n
  BY <1>2, <1>3, Z3
<1> QED
  BY <1>1, <1>4

\* A function on an initial segment of the naturals is bounded: by the least
\* segment on which it were not.
LEMMA Bounded ==
  ASSUME NEW n \in Nat, NEW f \in [0 .. n -> Nat]
  PROVE  \E b \in Nat : \A k \in 0 .. n : f[k] <= b
<1> DEFINE P(m) == \E b \in Nat : \A k \in 0 .. m : f[k] <= b
           Bad == {m \in 0 .. n : ~ P(m)}
<1>1. P(0)
  BY DEF P
<1>2. ASSUME NEW m \in Nat, m + 1 <= n, P(m) PROVE P(m + 1)
  <2>1. PICK b \in Nat : \A k \in 0 .. m : f[k] <= b
    BY <1>2
  <2>2. f[m + 1] \in Nat /\ b + f[m + 1] \in Nat
    BY <1>2
  <2>3. \A k \in 0 .. m : f[k] \in Nat
    BY <1>2
  <2>4. \A k \in 0 .. m + 1 : f[k] <= b + f[m + 1]
    <3> TAKE k \in 0 .. m + 1
    <3>1. CASE k \in 0 .. m
      BY <2>1, <2>2, <2>3, <3>1
    <3>2. CASE k = m + 1
      BY <2>2, <3>2
    <3> QED
      BY <3>1, <3>2
  <2> QED
    BY <2>2, <2>4
<1> HIDE DEF P
<1>3. Bad = {}
  <2> SUFFICES ASSUME Bad # {} PROVE FALSE
    OBVIOUS
  <2>0. Bad \subseteq Nat
    OBVIOUS
  <2>1. PICK m \in Bad : \A k \in Bad : m <= k
    BY <2>0, LeastNat
  <2>2. m # 0
    BY <1>1
  <2>3. m - 1 \in Nat /\ m - 1 \notin Bad /\ m - 1 \in 0 .. n
    BY <2>1, <2>2
  <2>4. P(m - 1 + 1)
    BY <1>2, <2>3
  <2>5. m - 1 + 1 = m
    OBVIOUS
  <2> QED
    BY <2>4, <2>5
<1>4. P(n)
  BY <1>3
<1> QED
  BY <1>4 DEF P

\* A function takes its greatest value on a set of indices at one of them.
LEMMA Greatest ==
  ASSUME NEW n \in Nat, NEW f \in [0 .. n -> Nat], NEW S \in SUBSET (0 .. n), S # {}
  PROVE  \E k \in S : \A j \in S : f[j] <= f[k]
<1> DEFINE T == {b \in Nat : \A k \in S : f[k] <= b}
<1>1. T # {}
  BY Bounded
<1>2. PICK b \in T : \A c \in T : b <= c
  BY <1>1, LeastNat
<1>3. CASE b = 0
  <2>1. \A k \in S : f[k] \in Nat /\ f[k] <= 0
    BY <1>2, <1>3
  <2>2. \A k \in S : f[k] = 0
    BY <2>1
  <2>3. \A k, j \in S : f[j] <= f[k]
    BY <2>2
  <2> QED
    BY <2>3
<1>4. CASE b # 0
  <2>1. b - 1 \in Nat /\ b - 1 \notin T
    BY <1>2, <1>4
  <2>2. PICK k \in S : ~ (f[k] <= b - 1)
    BY <2>1
  <2>3. f[k] = b
    BY <2>1, <2>2, <1>2
  <2> QED
    BY <1>2, <2>3
<1> QED
  BY <1>3, <1>4

\* A set of naturals under a bound has a greatest element.
LEMMA GreatestIndex ==
  ASSUME NEW n \in Nat, NEW S \in SUBSET (0 .. n), S # {}
  PROVE  \E k \in S : \A j \in S : j <= k
<1> DEFINE f == [k \in 0 .. n |-> k]
<1>1. f \in [0 .. n -> Nat]
  OBVIOUS
<1>2. PICK k \in S : \A j \in S : f[j] <= f[k]
  BY <1>1, Greatest
<1> QED
  BY <1>2

-----------------------------------------------------------------------------
\* Induction up to a bound, about a set instead of a predicate.
LEMMA InductionTo ==
  ASSUME NEW k \in Nat, NEW T, 0 \in T, \A n \in 1 .. k : n - 1 \in T => n \in T
  PROVE  0 .. k \subseteq T
<1> DEFINE Bad == {n \in 0 .. k : n \notin T}
<1> SUFFICES ASSUME Bad # {} PROVE FALSE
  OBVIOUS
<1>1. Bad \subseteq Nat
  OBVIOUS
<1>2. PICK n \in Bad : \A m \in Bad : n <= m
  BY <1>1, LeastNat
<1>3. n \in 1 .. k /\ n - 1 \in 0 .. k /\ n - 1 \notin Bad
  BY <1>2
<1> QED
  BY <1>3

\* Functions on 0 .. k that start with z and follow the steps in G.
StepFunctions(k, S) == [1 .. k -> [S -> S]]
Orbits(z, k, S, G) == {f \in [0 .. k -> S] : f[0] = z /\ \A n \in 1 .. k : f[n] = G[n][f[n - 1]]}

\* A function defined by what it is at 0 and how each value follows from the
\* one before exists.
LEMMA Recursion ==
  ASSUME NEW S, NEW z \in S, NEW k \in Nat, NEW G \in StepFunctions(k, S)
  PROVE  Orbits(z, k, S, G) # {}
<1>0. G \in [1 .. k -> [S -> S]]
  BY DEF StepFunctions
<1> DEFINE P(m) == \E f \in [0 .. m -> S] : f[0] = z /\ \A n \in 1 .. m : f[n] = G[n][f[n - 1]]
           T == {m \in 0 .. k : P(m)}
<1>1. P(0)
  <2> DEFINE f == [i \in 0 .. 0 |-> z]
  <2>1. f \in [0 .. 0 -> S] /\ f[0] = z /\ \A n \in 1 .. 0 : f[n] = G[n][f[n - 1]]
    OBVIOUS
  <2> QED
    BY <2>1
<1>2. ASSUME NEW m \in 1 .. k, P(m - 1) PROVE P(m)
  <2>1. PICK f \in [0 .. m - 1 -> S] : f[0] = z /\ \A n \in 1 .. m - 1 : f[n] = G[n][f[n - 1]]
    BY <1>2
  <2> DEFINE g == [i \in 0 .. m |-> IF i <= m - 1 THEN f[i] ELSE G[m][f[m - 1]]]
  <2>2. f[m - 1] \in S /\ G[m][f[m - 1]] \in S
    BY <1>0
  <2>3. g \in [0 .. m -> S] /\ g[0] = z
    BY <2>1, <2>2
  <2>4. ASSUME NEW n \in 1 .. m PROVE g[n] = G[n][g[n - 1]]
    <3>1. g[n - 1] = f[n - 1]
      OBVIOUS
    <3>2. CASE n <= m - 1
      <4>1. g[n] = f[n] /\ n \in 1 .. m - 1
        BY <3>2
      <4> HIDE DEF g
      <4> QED
        BY <2>1, <3>1, <4>1
    <3>3. CASE n = m
      <4>1. g[m] = G[m][f[m - 1]]
        OBVIOUS
      <4> HIDE DEF g
      <4> QED
        BY <3>1, <3>3, <4>1
    <3> QED
      BY <3>2, <3>3
  <2> HIDE DEF g
  <2> QED
    BY <2>3, <2>4
<1> HIDE DEF P
<1>3. 0 \in T /\ \A n \in 1 .. k : n - 1 \in T => n \in T
  BY <1>1, <1>2
<1> HIDE DEF T
<1>4. 0 .. k \subseteq T
  BY <1>3, InductionTo
<1>5. P(k)
  BY <1>4 DEF T
<1> QED
  BY <1>5 DEF P, Orbits

-----------------------------------------------------------------------------
\* The element i of the sequence s replaced by the sequence c, by index.
Splice(s, i, c) == SubSeq(s, 1, i - 1) \o c \o SubSeq(s, i + 1, Len(s))
IsSplice(t, s, i, c, S, L, k) ==
  /\ t \in Seq(S) /\ Len(t) = L - 1 + k
  /\ \A j \in 1 .. i - 1 : t[j] = s[j]
  /\ \A j \in 1 .. k : t[i - 1 + j] = c[j]
  /\ \A j \in i + 1 .. L : t[j - 1 + k] = s[j]

\* Splicing with SubSeq and \o does that.
LEMMA Replaced ==
  ASSUME NEW S, NEW s \in Seq(S), NEW L \in Nat, L = Len(s), NEW i \in 1 .. L,
         NEW c \in Seq(S), NEW k \in Nat, k = Len(c)
  PROVE  IsSplice(Splice(s, i, c), s, i, c, S, L, k)
<1>1. \A j \in 1 .. L : s[j] \in S
  BY LenProperties
<1>2. PICK u : u = SubSeq(s, 1, i - 1)
  OBVIOUS
<1>3. u \in Seq(S) /\ Len(u) = i - 1 /\ \A j \in 1 .. i - 1 : u[j] = s[j]
  <2>1. 1 \in Int /\ i - 1 \in Int /\ \A j \in 1 .. i - 1 : s[j] \in S
    BY <1>1
  <2>2. /\ u \in Seq(S) /\ Len(u) = IF 1 <= i - 1 THEN i - 1 - 1 + 1 ELSE 0
        /\ \A j \in 1 .. i - 1 - 1 + 1 : u[j] = s[1 + j - 1]
    BY <1>2, <2>1, SubSeqProperties
  <2>3. i - 1 - 1 + 1 = i - 1 /\ \A j \in Nat : 1 + j - 1 = j
    OBVIOUS
  <2> QED
    BY <2>2, <2>3
<1>4. PICK v : v = SubSeq(s, i + 1, Len(s))
  OBVIOUS
<1>5. v \in Seq(S) /\ Len(v) = L - i /\ \A j \in 1 .. L - i : v[j] = s[i + j]
  <2>1. i + 1 \in Int /\ L \in Int /\ \A j \in i + 1 .. L : s[j] \in S
    BY <1>1
  <2>2. /\ v \in Seq(S) /\ Len(v) = IF i + 1 <= L THEN L - (i + 1) + 1 ELSE 0
        /\ \A j \in 1 .. L - (i + 1) + 1 : v[j] = s[i + 1 + j - 1]
    BY <1>4, <2>1, SubSeqProperties
  <2>3. L - (i + 1) + 1 = L - i /\ \A j \in Nat : i + 1 + j - 1 = i + j
    OBVIOUS
  <2> QED
    BY <2>2, <2>3
<1>6. PICK w : w = u \o c
  OBVIOUS
<1>7. PICK t : t = w \o v
  OBVIOUS
<1>8. /\ t \in Seq(S) /\ Len(t) = (i - 1) + k + (L - i)
      /\ \A j \in 1 .. i - 1 : t[j] = u[j]
      /\ \A j \in 1 .. k : t[(i - 1) + j] = c[j]
      /\ \A j \in 1 .. L - i : t[(i - 1) + k + j] = v[j]
  <2>0. i - 1 \in Nat /\ L - i \in Nat
    OBVIOUS
  <2>1. PICK a, z \in Nat : a = i - 1 /\ z = L - i
    BY <2>0
  <2>2. u \in Seq(S) /\ v \in Seq(S) /\ Len(u) = a /\ Len(c) = k /\ Len(v) = z
    BY <1>3, <1>5, <2>1
  <2>3. /\ w \in Seq(S) /\ Len(w) = a + k
        /\ \A j \in 1 .. a + k : w[j] = IF j <= a THEN u[j] ELSE c[j - a]
    BY <1>6, <2>2, ConcatProperties
  <2>4. /\ t \in Seq(S) /\ Len(t) = a + k + z
        /\ \A j \in 1 .. a + k + z : t[j] = IF j <= a + k THEN w[j] ELSE v[j - (a + k)]
    <3>1. PICK p \in Nat : p = a + k
      OBVIOUS
    <3>2. Len(w) = p
      BY <2>3, <3>1
    <3>3. /\ t \in Seq(S) /\ Len(t) = p + z
          /\ \A j \in 1 .. p + z : t[j] = IF j <= p THEN w[j] ELSE v[j - p]
      BY <1>7, <2>2, <2>3, <3>2, ConcatProperties
    <3> QED
      BY <3>1, <3>3
  <2>5. ASSUME NEW j \in 1 .. a PROVE t[j] = u[j]
    <3>1. j \in 1 .. a + k /\ j \in 1 .. a + k + z /\ j <= a /\ j <= a + k
      OBVIOUS
    <3> QED
      BY <2>3, <2>4, <3>1
  <2>6. ASSUME NEW j \in 1 .. k PROVE t[a + j] = c[j]
    <3>1. /\ a + j \in 1 .. a + k /\ a + j \in 1 .. a + k + z /\ ~ (a + j <= a) /\ a + j <= a + k
          /\ a + j - a = j
      OBVIOUS
    <3> QED
      BY <2>3, <2>4, <3>1
  <2>7. ASSUME NEW j \in 1 .. z PROVE t[a + k + j] = v[j]
    <3>1. a + k + j \in 1 .. a + k + z /\ ~ (a + k + j <= a + k) /\ a + k + j - (a + k) = j
      OBVIOUS
    <3> QED
      BY <2>4, <3>1
  <2> QED
    BY <2>1, <2>4, <2>5, <2>6, <2>7
<1>9. Len(t) = L - 1 + k
  BY <1>8
<1>10. \A j \in 1 .. i - 1 : t[j] = s[j]
  BY <1>3, <1>8
<1>11. ASSUME NEW j \in i + 1 .. L PROVE t[j - 1 + k] = s[j]
  <2>1. j - i \in 1 .. L - i /\ (i - 1) + k + (j - i) = j - 1 + k /\ i + (j - i) = j
    OBVIOUS
  <2>2. t[(i - 1) + k + (j - i)] = v[j - i] /\ v[j - i] = s[i + (j - i)]
    BY <1>5, <1>8, <2>1
  <2> QED
    BY <2>1, <2>2
<1> QED
  BY <1>2, <1>4, <1>6, <1>7, <1>8, <1>9, <1>10, <1>11 DEF Splice, IsSplice
=============================================================================
