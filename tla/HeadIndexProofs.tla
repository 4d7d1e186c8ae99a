--------------------------- MODULE HeadIndexProofs --------------------------
(***************************************************************************)
(* Machine-checked proofs about the data structures of the head, for every *)
(* set of labels, hash function, matchers, times and values, and for every *)
(* cap and bound.                                                          *)
(*                                                                         *)
(* Bottom up: what the bisection of package sort computes on an ascending  *)
(* slice; with it, what appendSample, truncate and samplesInRange do to    *)
(* the function a slice stands for; what removal keeps of a chain; the     *)
(* inductive invariant, that the chains and the postings hold exactly what *)
(* the map holds; and from it the three properties of the run.             *)
(***************************************************************************)
EXTENDS HeadIndex, FiniteSetTheorems, SequenceTheorems, TLAPS

-----------------------------------------------------------------------------
(* Natural numbers *)

NatLess == {p \in Nat \X Nat : p[1] < p[2]}

\* The library's well-foundedness of the order of the natural numbers, for the definition
\* above, which the provers expand.
LEMMA NatLessWellFounded == IsWellFoundedOn(NatLess, Nat)
<1>1. NatLess = OpToRel(<, Nat)
  BY DEF NatLess, OpToRel
<1> QED
  BY <1>1, NatLessThanWellFounded

\* A set of natural numbers has a least element.
LEMMA Least ==
    ASSUME NEW S \in SUBSET Nat, S # {}
    PROVE  \E m \in S : \A k \in S : m <= k
<1>1. PICK m \in S : \A k \in S : ~(<<k, m>> \in NatLess)
  BY WFMin, NatLessWellFounded
<1>2. ASSUME NEW k \in S, k < m
      PROVE  FALSE
  <2>1. <<k, m>> \in NatLess
    BY <1>2 DEF NatLess
  <2> QED
    BY <1>1, <2>1
<1> QED
  BY <1>2

-----------------------------------------------------------------------------
(* sort.Search *)

\* What the bisection computes of i .. j, for a predicate that becomes true at b.
Clipped(b, i, j) == IF i >= j \/ b < i THEN i ELSE IF b > j THEN j ELSE b

Half(i, j) == (i + j) \div 2

\* The middle lies below the upper end.
LEMMA HalfBetween ==
    ASSUME NEW i \in Nat, NEW j \in Nat, i < j
    PROVE  Half(i, j) \in Nat /\ i <= Half(i, j) /\ Half(i, j) < j
BY DEF Half

\* Clipped may be computed from one half.
LEMMA ClippedBisects ==
    ASSUME NEW b \in Nat, NEW i \in Nat, NEW j \in Nat, i < j
    PROVE  Clipped(b, i, j) = IF b <= Half(i, j) THEN Clipped(b, i, Half(i, j))
                                                 ELSE Clipped(b, Half(i, j) + 1, j)
BY HalfBetween DEF Clipped

\* A function that bisects computes Clipped: of the pairs for which it did not, one would
\* be the closest together, and it did for both halves of that.
LEMMA Bisects ==
    ASSUME NEW n \in Nat, NEW b \in 0 .. n, NEW f,
           \A i, j \in 0 .. n :
               f[<<i, j>>] = IF i >= j THEN i
                         ELSE IF b <= Half(i, j) THEN f[<<i, Half(i, j)>>] ELSE f[<<Half(i, j) + 1, j>>]
    PROVE  f[<<0, n>>] = b
<1> DEFINE Wrong == {k \in Nat : \E i, j \in 0 .. n : k = j - i /\ f[<<i, j>>] # Clipped(b, i, j)}
<1>1. Wrong = {}
  <2> SUFFICES ASSUME Wrong # {}
               PROVE  FALSE
    OBVIOUS
  <2>1. PICK m \in Wrong : \A k \in Wrong : m <= k
    BY Least
  <2>2. PICK i \in 0 .. n, j \in 0 .. n : m = j - i /\ f[<<i, j>>] # Clipped(b, i, j)
    BY <2>1
  <2>3. i < j
    <3>1. f[<<i, j>>] = IF i >= j THEN i
                        ELSE IF b <= Half(i, j) THEN f[<<i, Half(i, j)>>] ELSE f[<<Half(i, j) + 1, j>>]
      OBVIOUS
    <3>2. CASE i >= j
      BY <2>2, <3>1, <3>2 DEF Clipped
    <3> QED
      BY <3>2
  <2> DEFINE h == Half(i, j)
  <2>4. h \in Nat /\ i <= h /\ h < j
    BY <2>3, HalfBetween
  <2> HIDE DEF h
  <2>5. \A x, y \in 0 .. n : 0 <= y - x /\ y - x < m => f[<<x, y>>] = Clipped(b, x, y)
    <3> SUFFICES ASSUME NEW x \in 0 .. n, NEW y \in 0 .. n, 0 <= y - x, y - x < m,
                        f[<<x, y>>] # Clipped(b, x, y)
                 PROVE  FALSE
      OBVIOUS
    <3>1. y - x \in Wrong
      <4>1. y - x \in Nat
        OBVIOUS
      <4>2. \E p, q \in 0 .. n : y - x = q - p /\ f[<<p, q>>] # Clipped(b, p, q)
        <5> WITNESS x \in 0 .. n, y \in 0 .. n
        <5> QED
          OBVIOUS
      <4> QED
        BY <4>1, <4>2, Zenon
    <3> HIDE DEF Wrong
    <3> QED
      BY <2>1, <2>2, <3>1
  <2>6. f[<<i, h>>] = Clipped(b, i, h)
    BY <2>2, <2>4, <2>5
  <2>7. f[<<h + 1, j>>] = Clipped(b, h + 1, j)
    BY <2>2, <2>4, <2>5
  <2>8. f[<<i, j>>] = IF b <= h THEN f[<<i, h>>] ELSE f[<<h + 1, j>>]
    BY <2>3 DEF h
  <2> QED
    BY <2>2, <2>3, <2>6, <2>7, <2>8, ClippedBisects DEF h
<1>2. ASSUME f[<<0, n>>] # Clipped(b, 0, n)
      PROVE  n \in Wrong
  <2>1. 0 \in 0 .. n /\ n \in 0 .. n /\ n = n - 0
    OBVIOUS
  <2> QED
    BY <1>2, <2>1
<1> HIDE DEF Wrong
<1>3. f[<<0, n>>] = Clipped(b, 0, n)
  BY <1>1, <1>2
<1> QED
  BY <1>3 DEF Clipped

\* Before finds the position at which the samples stop being before t: the function
\* that bisects is one that CHOOSE can pick, and every one computes the same.
LEMMA BeforeIs ==
    ASSUME NEW s \in Seq(Sample), NEW t \in Int, NEW b \in 0 .. Len(s),
           \A k \in 0 .. Len(s) - 1 : s[k + 1].t >= t <=> b <= k
    PROVE  Before(s, t) = b
<1> DEFINE n == Len(s)
           R == (0 .. n) \X (0 .. n)
           Step(g) == [r \in R |->
                          LET i == r[1]
                              j == r[2]
                              h == (i + j) \div 2
                          IN  IF i >= j THEN i
                              ELSE IF s[h + 1].t >= t THEN g[<<i, h>>] ELSE g[<<h + 1, j>>]]
           f == CHOOSE g : g = Step(g)
           c == [r \in R |-> Clipped(b, r[1], r[2])]
<1>n. n \in Nat
  OBVIOUS
<1>1. Before(s, t) = f[<<0, n>>]
  BY DEF Before, Search
<1>2. c = Step(c)
  <2>1. ASSUME NEW r \in R
        PROVE  c[r] = Step(c)[r]
    <3> DEFINE i == r[1]
               j == r[2]
               h == (i + j) \div 2
    <3>0. i \in 0 .. n /\ j \in 0 .. n
      OBVIOUS
    <3>a. c[r] = Clipped(b, i, j)
      OBVIOUS
    <3>b. Step(c)[r] = IF i >= j THEN i
                       ELSE IF s[h + 1].t >= t THEN c[<<i, h>>] ELSE c[<<h + 1, j>>]
      <4> HIDE DEF c, n
      <4> QED
        OBVIOUS
    <3>1. CASE i >= j
      BY <3>1, <3>a, <3>b DEF Clipped
    <3>2. CASE i < j
      <4>1. h \in Nat /\ i <= h /\ h < j /\ h = Half(i, j)
        BY <3>0, <3>2, HalfBetween DEF Half
      <4> HIDE DEF h, i, j
      <4>2. h \in 0 .. n /\ h + 1 \in 0 .. n /\ h \in 0 .. Len(s) - 1
        BY <3>0, <4>1
      <4>3. c[<<i, h>>] = Clipped(b, i, h) /\ c[<<h + 1, j>>] = Clipped(b, h + 1, j)
        BY <3>0, <4>2
      <4>4. s[h + 1].t >= t <=> b <= h
        BY <4>2
      <4>5. Clipped(b, i, j) = IF s[h + 1].t >= t THEN c[<<i, h>>] ELSE c[<<h + 1, j>>]
        BY <3>0, <3>2, <4>1, <4>3, <4>4, ClippedBisects
      <4> QED
        BY <3>0, <3>2, <3>a, <3>b, <4>5
    <3> QED
      BY <3>0, <3>1, <3>2
  <2>2. c = [r \in R |-> c[r]] /\ Step(c) = [r \in R |-> Step(c)[r]]
    <3> QED
      OBVIOUS
  <2> HIDE DEF c, Step, R
  <2> QED
    BY <2>1, <2>2, Zenon
<1>3. f = Step(f)
  <2> HIDE DEF c, Step
  <2> QED
    BY <1>2, Zenon
<1> HIDE DEF f
<1>4. \A i, j \in 0 .. n :
         f[<<i, j>>] = IF i >= j THEN i
                       ELSE IF b <= Half(i, j) THEN f[<<i, Half(i, j)>>] ELSE f[<<Half(i, j) + 1, j>>]
  <2> TAKE i, j \in 0 .. n
  <2>1. f[<<i, j>>] = IF i >= j THEN i
                      ELSE IF s[Half(i, j) + 1].t >= t THEN f[<<i, Half(i, j)>>] ELSE f[<<Half(i, j) + 1, j>>]
    <3> DEFINE r == <<i, j>>
    <3>1. r \in R /\ r[1] = i /\ r[2] = j
      OBVIOUS
    <3>2. f[r] = Step(f)[r]
      BY <1>3
    <3> HIDE DEF r, R
    <3>3. Step(f)[r] = IF r[1] >= r[2] THEN r[1]
                       ELSE IF s[(r[1] + r[2]) \div 2 + 1].t >= t
                            THEN f[<<r[1], (r[1] + r[2]) \div 2>>]
                            ELSE f[<<(r[1] + r[2]) \div 2 + 1, r[2]>>]
      BY <3>1
    <3> HIDE DEF Step
    <3> QED
      BY <3>1, <3>2, <3>3 DEF r, Half
  <2>2. CASE i < j
    <3>1. Half(i, j) \in 0 .. Len(s) - 1
      BY <2>2, HalfBetween
    <3>2. s[Half(i, j) + 1].t >= t <=> b <= Half(i, j)
      BY <3>1
    <3> QED
      BY <2>1, <2>2, <3>2
  <2>3. CASE i >= j
    BY <2>1, <2>3
  <2> QED
    BY <2>2, <2>3
<1>5. f[<<0, n>>] = b
  <2> HIDE DEF n
  <2>1. b \in 0 .. n
    BY DEF n
  <2> QED
    BY <1>n, <1>4, <2>1, Bisects
<1> QED
  BY <1>1, <1>5

\* Likewise Through, the position at which they start being after t.
LEMMA ThroughIs ==
    ASSUME NEW s \in Seq(Sample), NEW t \in Int, NEW b \in 0 .. Len(s),
           \A k \in 0 .. Len(s) - 1 : s[k + 1].t > t <=> b <= k
    PROVE  Through(s, t) = b
<1> DEFINE n == Len(s)
           R == (0 .. n) \X (0 .. n)
           Step(g) == [r \in R |->
                          LET i == r[1]
                              j == r[2]
                              h == (i + j) \div 2
                          IN  IF i >= j THEN i
                              ELSE IF s[h + 1].t > t THEN g[<<i, h>>] ELSE g[<<h + 1, j>>]]
           f == CHOOSE g : g = Step(g)
           c == [r \in R |-> Clipped(b, r[1], r[2])]
<1>n. n \in Nat
  OBVIOUS
<1>1. Through(s, t) = f[<<0, n>>]
  BY DEF Through, Search
<1>2. c = Step(c)
  <2>1. ASSUME NEW r \in R
        PROVE  c[r] = Step(c)[r]
    <3> DEFINE i == r[1]
               j == r[2]
               h == (i + j) \div 2
    <3>0. i \in 0 .. n /\ j \in 0 .. n
      OBVIOUS
    <3>a. c[r] = Clipped(b, i, j)
      OBVIOUS
    <3>b. Step(c)[r] = IF i >= j THEN i
                       ELSE IF s[h + 1].t > t THEN c[<<i, h>>] ELSE c[<<h + 1, j>>]
      <4> HIDE DEF c, n
      <4> QED
        OBVIOUS
    <3>1. CASE i >= j
      BY <3>1, <3>a, <3>b DEF Clipped
    <3>2. CASE i < j
      <4>1. h \in Nat /\ i <= h /\ h < j /\ h = Half(i, j)
        BY <3>0, <3>2, HalfBetween DEF Half
      <4> HIDE DEF h, i, j
      <4>2. h \in 0 .. n /\ h + 1 \in 0 .. n /\ h \in 0 .. Len(s) - 1
        BY <3>0, <4>1
      <4>3. c[<<i, h>>] = Clipped(b, i, h) /\ c[<<h + 1, j>>] = Clipped(b, h + 1, j)
        BY <3>0, <4>2
      <4>4. s[h + 1].t > t <=> b <= h
        BY <4>2
      <4>5. Clipped(b, i, j) = IF s[h + 1].t > t THEN c[<<i, h>>] ELSE c[<<h + 1, j>>]
        BY <3>0, <3>2, <4>1, <4>3, <4>4, ClippedBisects
      <4> QED
        BY <3>0, <3>2, <3>a, <3>b, <4>5
    <3> QED
      BY <3>0, <3>1, <3>2
  <2>2. c = [r \in R |-> c[r]] /\ Step(c) = [r \in R |-> Step(c)[r]]
    <3> QED
      OBVIOUS
  <2> HIDE DEF c, Step, R
  <2> QED
    BY <2>1, <2>2, Zenon
<1>3. f = Step(f)
  <2> HIDE DEF c, Step
  <2> QED
    BY <1>2, Zenon
<1> HIDE DEF f
<1>4. \A i, j \in 0 .. n :
         f[<<i, j>>] = IF i >= j THEN i
                       ELSE IF b <= Half(i, j) THEN f[<<i, Half(i, j)>>] ELSE f[<<Half(i, j) + 1, j>>]
  <2> TAKE i, j \in 0 .. n
  <2>1. f[<<i, j>>] = IF i >= j THEN i
                      ELSE IF s[Half(i, j) + 1].t > t THEN f[<<i, Half(i, j)>>] ELSE f[<<Half(i, j) + 1, j>>]
    <3> DEFINE r == <<i, j>>
    <3>1. r \in R /\ r[1] = i /\ r[2] = j
      OBVIOUS
    <3>2. f[r] = Step(f)[r]
      BY <1>3
    <3> HIDE DEF r, R
    <3>3. Step(f)[r] = IF r[1] >= r[2] THEN r[1]
                       ELSE IF s[(r[1] + r[2]) \div 2 + 1].t > t
                            THEN f[<<r[1], (r[1] + r[2]) \div 2>>]
                            ELSE f[<<(r[1] + r[2]) \div 2 + 1, r[2]>>]
      BY <3>1
    <3> HIDE DEF Step
    <3> QED
      BY <3>1, <3>2, <3>3 DEF r, Half
  <2>2. CASE i < j
    <3>1. Half(i, j) \in 0 .. Len(s) - 1
      BY <2>2, HalfBetween
    <3>2. s[Half(i, j) + 1].t > t <=> b <= Half(i, j)
      BY <3>1
    <3> QED
      BY <2>1, <2>2, <3>2
  <2>3. CASE i >= j
    BY <2>1, <2>3
  <2> QED
    BY <2>2, <2>3
<1>5. f[<<0, n>>] = b
  <2> HIDE DEF n
  <2>1. b \in 0 .. n
    BY DEF n
  <2> QED
    BY <1>n, <1>4, <2>1, Bisects
<1> QED
  BY <1>1, <1>5

-----------------------------------------------------------------------------
(* Ascending slices *)

\* Ascending, for one slice.
AscendingSlice(s) == \A i, j \in DOMAIN s : i < j => s[i].t < s[j].t

\* The parts of a sample of a slice.
LEMMA SampleParts ==
    ASSUME NEW s \in Seq(Sample), NEW k \in 1 .. Len(s)
    PROVE  s[k] \in Sample /\ s[k].t \in Time /\ s[k].t \in Int /\ s[k].v \in Value
<1>1. s[k] \in Sample
  OBVIOUS
<1> QED
  BY <1>1, TimeAssumption DEF Sample

\* On an ascending slice, Before separates the samples before t from the others.
LEMMA BeforeAscending ==
    ASSUME NEW s \in Seq(Sample), AscendingSlice(s), NEW t \in Int
    PROVE  /\ Before(s, t) \in 0 .. Len(s)
           /\ \A k \in 1 .. Len(s) : s[k].t >= t <=> Before(s, t) < k
<1> DEFINE S == {b \in 0 .. Len(s) : b < Len(s) => s[b + 1].t >= t}
<1>n. Len(s) \in Nat /\ DOMAIN s = 1 .. Len(s)
  OBVIOUS
<1>t. \A k \in 1 .. Len(s) : s[k].t \in Int
  BY SampleParts
<1>1. Len(s) \in S /\ S \in SUBSET Nat
  OBVIOUS
<1>2. PICK m \in S : \A k \in S : m <= k
  BY <1>1, Least
<1>3. ASSUME NEW k \in 0 .. Len(s) - 1
      PROVE  s[k + 1].t >= t <=> m <= k
  <2>1. CASE k < m
    <3>1. k \notin S
      BY <1>2, <2>1
    <3> QED
      BY <2>1, <3>1, <1>n
  <2>2. CASE m <= k
    <3>1. s[m + 1].t >= t
      BY <1>2, <2>2
    <3>2. m = k \/ s[m + 1].t < s[k + 1].t
      BY <1>2, <2>2, <1>n DEF AscendingSlice
    <3>3. s[k + 1].t \in Int /\ s[m + 1].t \in Int
      BY <1>t, <1>2, <2>2
    <3> QED
      BY <2>2, <3>1, <3>2, <3>3
  <2> QED
    BY <2>1, <2>2, <1>2
<1>4. Before(s, t) = m
  <2>1. m \in 0 .. Len(s)
    BY <1>2
  <2> QED
    BY <1>3, <2>1, BeforeIs
<1>5. ASSUME NEW k \in 1 .. Len(s)
      PROVE  s[k].t >= t <=> m < k
  <2>1. k - 1 \in 0 .. Len(s) - 1 /\ (k - 1) + 1 = k
    OBVIOUS
  <2>2. s[k].t >= t <=> m <= k - 1
    BY <1>3, <2>1
  <2> QED
    BY <1>2, <2>2
<1> QED
  BY <1>2, <1>4, <1>5

\* Through separates those after t from the others.
LEMMA ThroughAscending ==
    ASSUME NEW s \in Seq(Sample), AscendingSlice(s), NEW t \in Int
    PROVE  /\ Through(s, t) \in 0 .. Len(s)
           /\ \A k \in 1 .. Len(s) : s[k].t > t <=> Through(s, t) < k
<1>n. t + 1 \in Int
  OBVIOUS
<1> DEFINE b == Before(s, t + 1)
<1>b. /\ b \in 0 .. Len(s)
      /\ \A k \in 1 .. Len(s) : s[k].t >= t + 1 <=> b < k
  BY <1>n, BeforeAscending
<1>t. \A k \in 1 .. Len(s) : s[k].t \in Int
  BY SampleParts
<1> HIDE DEF b
<1>1. \A k \in 1 .. Len(s) : s[k].t > t <=> b < k
  <2> TAKE k \in 1 .. Len(s)
  <2>1. s[k].t >= t + 1 <=> b < k
    BY <1>b
  <2> QED
    BY <1>t, <2>1
<1>2. \A k \in 0 .. Len(s) - 1 : s[k + 1].t > t <=> b <= k
  <2> TAKE k \in 0 .. Len(s) - 1
  <2>1. k + 1 \in 1 .. Len(s)
    OBVIOUS
  <2> QED
    BY <1>1, <1>b, <2>1
<1>3. Through(s, t) = b
  BY <1>b, <1>2, ThroughIs DEF b
<1> QED
  BY <1>1, <1>3, <1>b DEF b

\* A slice without its first a elements, up to the one at b.
LEMMA Slice ==
    ASSUME NEW S, NEW s \in Seq(S), NEW a \in 0 .. Len(s), NEW b \in 0 .. Len(s), a <= b
    PROVE  /\ SubSeq(s, a + 1, b) \in Seq(S)
           /\ Len(SubSeq(s, a + 1, b)) = b - a
           /\ \A k \in 1 .. b - a : SubSeq(s, a + 1, b)[k] = s[a + k]
<1>1. Len(s) \in Nat
  OBVIOUS
<1>2. \A i \in a + 1 .. b : s[i] \in S
  <2> TAKE i \in a + 1 .. b
  <2>1. i \in 1 .. Len(s)
    BY <1>1
  <2> QED
    BY <2>1
<1>3. Len(SubSeq(s, a + 1, b)) = b - a
  BY <1>1
<1>4. ASSUME NEW k \in 1 .. b - a
      PROVE  SubSeq(s, a + 1, b)[k] = s[a + k]
  BY <1>1
<1>5. SubSeq(s, a + 1, b) \in Seq(S)
  BY <1>2, <1>1
<1> QED
  BY <1>3, <1>4, <1>5

\* w is s with x put between the samples before it, b of them, and those after it.
Puts(s, w, b, x) ==
    /\ b \in 0 .. Len(s)
    /\ Len(w) = Len(s) + 1
    /\ \A k \in 1 .. b : w[k] = s[k] /\ s[k].t < x.t
    /\ w[b + 1] = x
    /\ \A k \in b + 1 .. Len(s) : w[k + 1] = s[k] /\ s[k].t > x.t

\* appendSample finds the timestamp, and changes nothing, or puts the sample.
LEMMA WithSamplePuts ==
    ASSUME NEW s \in Seq(Sample), AscendingSlice(s), NEW t \in Time, NEW v \in Value
    PROVE  \/ WithSample(s, t, v) = s /\ \E k \in 1 .. Len(s) : s[k].t = t
           \/ /\ WithSample(s, t, v) \in Seq(Sample)
              /\ \E b \in 0 .. Len(s) : Puts(s, WithSample(s, t, v), b, [t |-> t, v |-> v])
<1> DEFINE n == Len(s)
           x == [t |-> t, v |-> v]
           i == Before(s, t)
           w == WithSample(s, t, v)
<1>n. n \in Nat
  OBVIOUS
<1>x. x \in Sample /\ x.t = t
  BY DEF Sample
<1>t. t \in Int
  BY TimeAssumption
<1>p. \A k \in 1 .. n : s[k].t \in Int
  BY SampleParts
<1>a. \A k \in 1 .. n : k < n => s[k].t < s[n].t
  BY <1>n DEF AscendingSlice
<1>i. i \in 0 .. n /\ \A k \in 1 .. n : s[k].t >= t <=> i < k
  BY <1>t, BeforeAscending
<1> HIDE DEF i, x, n
<1>1. CASE n = 0 \/ t > s[n].t
  <2>1. w = Append(s, x)
    BY <1>1 DEF WithSample, x, n
  <2>2. Append(s, x) \in Seq(Sample) /\ Len(Append(s, x)) = n + 1 /\ Append(s, x)[n + 1] = x
    BY <1>x DEF n
  <2>3. \A k \in 1 .. n : Append(s, x)[k] = s[k] /\ s[k].t < t
    <3> TAKE k \in 1 .. n
    <3>1. Append(s, x)[k] = s[k]
      BY <1>x DEF n
    <3>2. s[k].t < t
      <4>1. k = n \/ k < n
        BY <1>n
      <4>2. s[k].t \in Int /\ s[n].t \in Int /\ s[n].t < t
        BY <1>1, <1>p, <1>n, <1>t
      <4> QED
        BY <1>a, <1>t, <4>1, <4>2
    <3> QED
      BY <3>1, <3>2
  <2> HIDE DEF w
  <2>4. Puts(s, w, n, x)
    BY <1>n, <1>x, <2>1, <2>2, <2>3 DEF Puts, n
  <2> QED
    BY <2>1, <2>2, <2>4, <1>n DEF n, x, w
<1>2. CASE ~(n = 0 \/ t > s[n].t) /\ (t = s[n].t \/ (i < n /\ s[i + 1].t = t))
  <2>1. w = s
    BY <1>2 DEF WithSample, x, n, i
  <2>2. \E k \in 1 .. n : s[k].t = t
    <3>1. CASE t = s[n].t
      <4>1. n \in 1 .. n
        BY <1>2, <1>n
      <4> QED
        BY <3>1, <4>1
    <3>2. CASE i < n /\ s[i + 1].t = t
      <4>1. i + 1 \in 1 .. n
        BY <1>i, <1>n, <3>2
      <4> QED
        BY <3>2, <4>1
    <3> QED
      BY <1>2, <3>1, <3>2
  <2> QED
    BY <2>1, <2>2 DEF n
<1>3. CASE ~(n = 0 \/ t > s[n].t) /\ ~(t = s[n].t \/ (i < n /\ s[i + 1].t = t))
  <2> DEFINE l == SubSeq(s, 1, i)
             r == SubSeq(s, i + 1, n)
  <2>1. w = l \o <<x>> \o r
    BY <1>3 DEF WithSample, x, n, i
  <2>2. l \in Seq(Sample) /\ Len(l) = i /\ \A k \in 1 .. i : l[k] = s[k]
    <3>1. SubSeq(s, 0 + 1, i) \in Seq(Sample) /\ Len(SubSeq(s, 0 + 1, i)) = i - 0
           /\ \A k \in 1 .. i - 0 : SubSeq(s, 0 + 1, i)[k] = s[0 + k]
      BY <1>i, <1>n, Slice DEF n
    <3> QED
      BY <3>1, <1>i
  <2>3. r \in Seq(Sample) /\ Len(r) = n - i /\ \A k \in 1 .. n - i : r[k] = s[i + k]
    BY <1>i, <1>n, Slice DEF n
  <2> HIDE DEF l, r
  <2> DEFINE lx == l \o <<x>>
  <2>4. lx \in Seq(Sample) /\ Len(lx) = i + 1 /\ lx[i + 1] = x /\ \A k \in 1 .. i : lx[k] = l[k]
    <3>1. lx = Append(l, x)
      BY <2>2, <1>x
    <3> HIDE DEF lx
    <3> QED
      BY <3>1, <2>2, <1>x, <1>i
  <2>a. w = lx \o r
    BY <2>1
  <2> HIDE DEF lx, w
  <2>b. w \in Seq(Sample) /\ Len(w) = n + 1
    <3>1. w \in Seq(Sample) /\ Len(w) = Len(lx) + Len(r)
      BY <2>a, <2>3, <2>4, ConcatProperties, Zenon
    <3> QED
      BY <3>1, <2>3, <2>4, <1>i, <1>n
  <2>c. \A k \in 1 .. i + 1 : w[k] = lx[k]
    BY <2>a, <2>3, <2>4, <1>i, <1>n
  <2>5. \A k \in 1 .. i : w[k] = l[k]
    BY <2>c, <2>4, <1>i
  <2>6. w[i + 1] = x
    BY <2>c, <2>4, <1>i
  <2>7. \A k \in 1 .. n - i : w[i + 1 + k] = r[k]
    BY <2>a, <2>3, <2>4, <1>i, <1>n
  <2>8. \A k \in 1 .. i : w[k] = s[k] /\ s[k].t < t
    <3> TAKE k \in 1 .. i
    <3>1. k \in 1 .. n /\ ~(i < k)
      BY <1>i, <1>n
    <3> QED
      BY <3>1, <2>2, <2>5, <1>i, <1>p, <1>t
  <2>9. \A k \in i + 1 .. n : w[k + 1] = s[k] /\ s[k].t > t
    <3> TAKE k \in i + 1 .. n
    <3>1. k \in 1 .. n /\ i < k /\ k - i \in 1 .. n - i /\ i + 1 + (k - i) = k + 1 /\ i + (k - i) = k
      BY <1>i, <1>n
    <3>2. w[k + 1] = s[k]
      BY <3>1, <2>3, <2>7
    <3>3. i + 1 \in 1 .. n /\ i < n
      BY <3>1, <1>i, <1>n
    <3>4. s[i + 1].t >= t /\ s[i + 1].t # t
      BY <3>3, <1>i, <1>3
    <3>5. s[i + 1].t = s[k].t \/ s[i + 1].t < s[k].t
      BY <3>1, <3>3, <1>i DEF AscendingSlice, n
    <3>6. s[k].t \in Int /\ s[i + 1].t \in Int
      BY <3>1, <3>3, <1>p
    <3> QED
      BY <3>2, <3>4, <3>5, <3>6, <1>t
  <2>10. Puts(s, w, i, x)
    BY <1>i, <1>x, <2>b, <2>6, <2>8, <2>9 DEF Puts, n
  <2> QED
    BY <2>b, <2>10, <1>i DEF n, x, w
<1> QED
  BY <1>1, <1>2, <1>3

\* The slice is ascending afterwards.
LEMMA WithSampleAscending ==
    ASSUME NEW s \in Seq(Sample), AscendingSlice(s), NEW t \in Time, NEW v \in Value
    PROVE  WithSample(s, t, v) \in Seq(Sample) /\ AscendingSlice(WithSample(s, t, v))
<1> DEFINE w == WithSample(s, t, v)
           x == [t |-> t, v |-> v]
<1>t. t \in Int /\ x.t = t
  BY TimeAssumption
<1>1. CASE w = s
  BY <1>1
<1>2. CASE w \in Seq(Sample) /\ \E b \in 0 .. Len(s) : Puts(s, w, b, x)
  <2> HIDE DEF w, x
  <2>1. PICK b \in 0 .. Len(s) : Puts(s, w, b, x)
    BY <1>2
  <2>n. Len(s) \in Nat /\ DOMAIN s = 1 .. Len(s) /\ DOMAIN w = 1 .. Len(s) + 1
    BY <1>2, <2>1 DEF Puts
  <2>p. \A k \in 1 .. Len(s) : s[k].t \in Int
    BY SampleParts
  <2>2. ASSUME NEW i \in DOMAIN w, NEW j \in DOMAIN w, i < j
        PROVE  w[i].t < w[j].t
    <3>1. CASE j <= b
      BY <3>1, <2>1, <2>2, <2>n DEF Puts, AscendingSlice
    <3>2. CASE j = b + 1
      BY <3>2, <2>1, <2>2, <2>n DEF Puts
    <3>3. CASE j > b + 1 /\ i <= b
      <4>1. j - 1 \in b + 1 .. Len(s) /\ (j - 1) + 1 = j /\ i \in 1 .. b /\ j - 1 \in DOMAIN s /\ i \in DOMAIN s
        BY <3>3, <2>n
      <4>2. w[j] = s[j - 1] /\ w[i] = s[i] /\ i < j - 1
        BY <3>3, <4>1, <2>1 DEF Puts
      <4> QED
        BY <4>1, <4>2 DEF AscendingSlice
    <3>4. CASE j > b + 1 /\ i = b + 1
      <4>1. j - 1 \in b + 1 .. Len(s) /\ (j - 1) + 1 = j
        BY <3>4, <2>n
      <4>2. w[j] = s[j - 1] /\ w[i].t = t /\ s[j - 1].t > t
        BY <3>4, <4>1, <2>1, <1>t DEF Puts
      <4>3. s[j - 1].t \in Int
        BY <4>1, <2>p, <2>n
      <4> QED
        BY <4>2, <4>3, <1>t
    <3>5. CASE j > b + 1 /\ i > b + 1
      <4>1. j - 1 \in b + 1 .. Len(s) /\ (j - 1) + 1 = j /\ i - 1 \in b + 1 .. Len(s) /\ (i - 1) + 1 = i
        BY <3>5, <2>n, <2>2
      <4>2. w[j] = s[j - 1] /\ w[i] = s[i - 1] /\ i - 1 < j - 1
        BY <4>1, <2>1, <2>2, <2>n DEF Puts
      <4>3. i - 1 \in DOMAIN s /\ j - 1 \in DOMAIN s
        BY <4>1, <2>n
      <4> QED
        BY <4>2, <4>3 DEF AscendingSlice
    <3> QED
      BY <3>1, <3>2, <3>3, <3>4, <3>5, <2>n
  <2> QED
    BY <1>2, <2>2 DEF AscendingSlice, w
<1> QED
  BY <1>1, <1>2, WithSamplePuts

\* truncate drops a prefix, and everything exactly if all of it is older.
LEMMA FromAscending ==
    ASSUME NEW s \in Seq(Sample), AscendingSlice(s), NEW t \in Int
    PROVE  /\ From(s, t) \in Seq(Sample)
           /\ AscendingSlice(From(s, t))
           /\ Len(From(s, t)) = Len(s) - Before(s, t)
           /\ \A k \in 1 .. Len(s) - Before(s, t) : From(s, t)[k] = s[Before(s, t) + k]
           /\ From(s, t) = <<>> <=> \A k \in 1 .. Len(s) : s[k].t < t
<1> DEFINE b == Before(s, t)
           w == From(s, t)
<1>n. Len(s) \in Nat /\ DOMAIN s = 1 .. Len(s)
  OBVIOUS
<1>b. b \in 0 .. Len(s) /\ \A k \in 1 .. Len(s) : s[k].t >= t <=> b < k
  BY BeforeAscending
<1>p. \A k \in 1 .. Len(s) : s[k].t \in Int
  BY SampleParts
<1> HIDE DEF b
<1>1. /\ w \in Seq(Sample)
      /\ Len(w) = Len(s) - b
      /\ \A k \in 1 .. Len(s) - b : w[k] = s[b + k]
  BY <1>n, <1>b, Slice DEF From, b
<1> HIDE DEF w
<1>2. ASSUME NEW i \in DOMAIN w, NEW j \in DOMAIN w, i < j
      PROVE  w[i].t < w[j].t
  <2>1. i \in 1 .. Len(s) - b /\ j \in 1 .. Len(s) - b
    BY <1>1
  <2>2. b + i \in DOMAIN s /\ b + j \in DOMAIN s /\ b + i < b + j
    BY <1>n, <1>b, <1>2, <2>1
  <2> QED
    BY <1>1, <2>1, <2>2 DEF AscendingSlice
<1>3. w = <<>> <=> b = Len(s)
  <2>1. w = <<>> <=> Len(w) = 0
    BY <1>1
  <2> QED
    BY <2>1, <1>1, <1>b, <1>n
<1>4. b = Len(s) <=> \A k \in 1 .. Len(s) : s[k].t < t
  <2>1. ASSUME b = Len(s), NEW k \in 1 .. Len(s)
        PROVE  s[k].t < t
    BY <2>1, <1>b, <1>p
  <2>2. ASSUME b # Len(s)
        PROVE  \E k \in 1 .. Len(s) : ~(s[k].t < t)
    <3>1. b \in 0 .. Len(s)
      BY <1>b
    <3> DEFINE n == Len(s)
    <3>a. n \in Nat /\ b \in 0 .. n /\ b # n
      BY <2>2, <3>1, <1>n
    <3> HIDE DEF n
    <3>b. n \in 1 .. n /\ b < n
      BY <3>a
    <3>2. Len(s) \in 1 .. Len(s) /\ b < Len(s)
      BY <3>b DEF n
    <3> QED
      BY <3>2, <1>b, <1>p
  <2> QED
    BY <2>1, <2>2
<1> QED
  BY <1>1, <1>2, <1>3, <1>4 DEF AscendingSlice, b, w

\* The function an ascending slice stands for.
LEMMA Function ==
    ASSUME NEW s \in Seq(Sample), AscendingSlice(s)
    PROVE  /\ DOMAIN AsFunction(s) = Times(s)
           /\ Times(s) = {s[i].t : i \in 1 .. Len(s)}
           /\ AsFunction(s) = [t \in Times(s) |-> AsFunction(s)[t]]
           /\ \A k \in 1 .. Len(s) : AsFunction(s)[s[k].t] = s[k].v
<1>n. Len(s) \in Nat /\ DOMAIN s = 1 .. Len(s)
  OBVIOUS
<1>1. /\ DOMAIN AsFunction(s) = Times(s)
      /\ AsFunction(s) = [t \in Times(s) |-> AsFunction(s)[t]]
  BY DEF AsFunction
<1>2. Times(s) = {s[i].t : i \in 1 .. Len(s)}
  BY <1>n DEF Times
<1>3. ASSUME NEW k \in 1 .. Len(s)
      PROVE  AsFunction(s)[s[k].t] = s[k].v
  <2>1. \A i \in DOMAIN s : s[i].t = s[k].t => i = k
    <3> SUFFICES ASSUME NEW i \in DOMAIN s, s[i].t = s[k].t, i # k
                 PROVE  FALSE
      OBVIOUS
    <3>1. i \in 1 .. Len(s) /\ k \in DOMAIN s /\ (i < k \/ k < i)
      BY <1>n
    <3>2. s[i].t < s[k].t \/ s[k].t < s[i].t
      BY <3>1 DEF AscendingSlice
    <3>3. s[i].t \in Int /\ s[k].t \in Int
      BY <3>1, SampleParts
    <3> QED
      BY <3>2, <3>3
  <2>2. (CHOOSE i \in DOMAIN s : s[i].t = s[k].t) = k
    BY <1>n, <2>1
  <2>3. s[k].t \in Times(s)
    BY <1>2
  <2> QED
    BY <2>2, <2>3 DEF AsFunction
<1> QED
  BY <1>1, <1>2, <1>3

\* appendSample on the slice is what it is on the function.
LEMMA WithSampleFunction ==
    ASSUME NEW s \in Seq(Sample), AscendingSlice(s), NEW t \in Time, NEW v \in Value
    PROVE  AsFunction(WithSample(s, t, v)) = H!WithSample(AsFunction(s), t, v)
<1> DEFINE w == WithSample(s, t, v)
           x == [t |-> t, v |-> v]
           f == AsFunction(s)
           g == AsFunction(w)
<1>0. w \in Seq(Sample) /\ AscendingSlice(w)
  BY WithSampleAscending
<1>1. /\ DOMAIN f = Times(s)
      /\ Times(s) = {s[i].t : i \in 1 .. Len(s)}
      /\ \A k \in 1 .. Len(s) : f[s[k].t] = s[k].v
  BY Function
<1>2. /\ g = [u \in Times(w) |-> g[u]]
      /\ Times(w) = {w[i].t : i \in 1 .. Len(w)}
      /\ \A k \in 1 .. Len(w) : g[w[k].t] = w[k].v
  BY <1>0, Function
<1>3. CASE w = s /\ \E k \in 1 .. Len(s) : s[k].t = t
  <2>1. t \in DOMAIN f
    BY <1>1, <1>3
  <2> QED
    BY <1>3, <2>1 DEF H!WithSample
<1>4. CASE \E b \in 0 .. Len(s) : Puts(s, w, b, x)
  <2> HIDE DEF w, x, f, g
  <2>1. PICK b \in 0 .. Len(s) : Puts(s, w, b, x)
    BY <1>4
  <2>n. Len(s) \in Nat /\ Len(w) = Len(s) + 1
    BY <2>1 DEF Puts
  <2>x. x.t = t /\ x.v = v /\ t \in Int
    BY TimeAssumption DEF x
  <2>p. \A k \in 1 .. Len(s) : s[k].t \in Int
    BY SampleParts
  <2>2. t \notin DOMAIN f
    <3> SUFFICES ASSUME NEW k \in 1 .. Len(s), s[k].t = t
                 PROVE  FALSE
      BY <1>1
    <3>1. k \in 1 .. b \/ k \in b + 1 .. Len(s)
      BY <2>n
    <3>2. s[k].t < t \/ s[k].t > t
      BY <3>1, <2>1, <2>x DEF Puts
    <3> QED
      BY <3>2, <2>x
  <2>3. Times(w) = DOMAIN f \cup {t}
    <3>1. ASSUME NEW k \in 1 .. Len(w)
          PROVE  w[k].t \in DOMAIN f \cup {t}
      <4>1. CASE k \in 1 .. b
        <5>1. w[k] = s[k] /\ k \in 1 .. Len(s)
          BY <4>1, <2>1, <2>n DEF Puts
        <5> QED
          BY <5>1, <1>1
      <4>2. CASE k = b + 1
        BY <4>2, <2>1, <2>x DEF Puts
      <4>3. CASE k > b + 1
        <5>1. k - 1 \in b + 1 .. Len(s) /\ (k - 1) + 1 = k /\ k - 1 \in 1 .. Len(s)
          BY <4>3, <2>n
        <5>2. w[k] = s[k - 1]
          BY <5>1, <2>1 DEF Puts
        <5> QED
          BY <5>1, <5>2, <1>1
      <4> QED
        BY <4>1, <4>2, <4>3, <2>n
    <3>2. ASSUME NEW k \in 1 .. Len(s)
          PROVE  \E j \in 1 .. Len(w) : w[j].t = s[k].t
      <4>1. CASE k <= b
        <5>1. w[k] = s[k] /\ k \in 1 .. Len(w)
          BY <4>1, <2>1, <2>n DEF Puts
        <5> QED
          BY <5>1
      <4>2. CASE k > b
        <5>1. w[k + 1] = s[k] /\ k + 1 \in 1 .. Len(w)
          BY <4>2, <2>1, <2>n DEF Puts
        <5> QED
          BY <5>1
      <4> QED
        BY <4>1, <4>2, <2>n
    <3>3. b + 1 \in 1 .. Len(w) /\ w[b + 1].t = t
      BY <2>1, <2>n, <2>x DEF Puts
    <3>4. \A u \in DOMAIN f : u \in Times(w)
      <4> TAKE u \in DOMAIN f
      <4>1. PICK k \in 1 .. Len(s) : s[k].t = u
        BY <1>1
      <4>2. PICK j \in 1 .. Len(w) : w[j].t = u
        BY <3>2, <4>1
      <4> QED
        BY <4>2, <1>2
    <3>5. t \in Times(w)
      BY <3>3, <1>2
    <3>6. \A u \in Times(w) : u \in DOMAIN f \cup {t}
      BY <3>1, <1>2
    <3> QED
      BY <3>4, <3>5, <3>6
  <2>4. ASSUME NEW u \in DOMAIN f \cup {t}
        PROVE  g[u] = IF u = t THEN v ELSE f[u]
    <3>1. CASE u = t
      <4>1. b + 1 \in 1 .. Len(w) /\ w[b + 1] = x
        BY <2>1, <2>n DEF Puts
      <4> QED
        BY <4>1, <3>1, <1>2, <2>x
    <3>2. CASE u # t
      <4>1. PICK k \in 1 .. Len(s) : s[k].t = u
        BY <1>1, <3>2
      <4>2. f[u] = s[k].v
        BY <1>1, <4>1
      <4>3. \E j \in 1 .. Len(w) : w[j] = s[k]
        <5>1. CASE k <= b
          <6>1. w[k] = s[k] /\ k \in 1 .. Len(w)
            BY <5>1, <2>1, <2>n DEF Puts
          <6> QED
            BY <6>1
        <5>2. CASE k > b
          <6>1. w[k + 1] = s[k] /\ k + 1 \in 1 .. Len(w)
            BY <5>2, <2>1, <2>n DEF Puts
          <6> QED
            BY <6>1
        <5> QED
          BY <5>1, <5>2, <2>n
      <4> QED
        BY <3>2, <4>1, <4>2, <4>3, <1>2
    <3> QED
      BY <3>1, <3>2
  <2>5. g = [u \in DOMAIN f \cup {t} |-> IF u = t THEN v ELSE f[u]]
    BY <1>2, <2>3, <2>4
  <2> QED
    BY <2>2, <2>5 DEF H!WithSample, f, g, w
<1> QED
  BY <1>3, <1>4, WithSamplePuts

\* truncate on the slice is what it is on the function.
LEMMA FromFunction ==
    ASSUME NEW s \in Seq(Sample), AscendingSlice(s), NEW t \in Int
    PROVE  /\ AsFunction(From(s, t)) = H!From(AsFunction(s), t)
           /\ From(s, t) = <<>> <=> ~\E u \in DOMAIN AsFunction(s) : u >= t
<1> DEFINE w == From(s, t)
           f == AsFunction(s)
           g == AsFunction(w)
           b == Before(s, t)
<1>0. /\ w \in Seq(Sample) /\ AscendingSlice(w)
      /\ Len(w) = Len(s) - b
      /\ \A k \in 1 .. Len(s) - b : w[k] = s[b + k]
      /\ w = <<>> <=> \A k \in 1 .. Len(s) : s[k].t < t
  BY FromAscending
<1>1. /\ DOMAIN f = Times(s)
      /\ Times(s) = {s[i].t : i \in 1 .. Len(s)}
      /\ \A k \in 1 .. Len(s) : f[s[k].t] = s[k].v
  BY Function
<1>2. /\ g = [u \in Times(w) |-> g[u]]
      /\ Times(w) = {w[i].t : i \in 1 .. Len(w)}
      /\ \A k \in 1 .. Len(w) : g[w[k].t] = w[k].v
  BY <1>0, Function
<1>b. b \in 0 .. Len(s) /\ \A k \in 1 .. Len(s) : s[k].t >= t <=> b < k
  BY BeforeAscending
<1>p. \A k \in 1 .. Len(s) : s[k].t \in Int
  BY SampleParts
<1>n. Len(s) \in Nat
  OBVIOUS
<1> HIDE DEF w, f, g, b
<1>3. ASSUME NEW k \in 1 .. Len(w)
      PROVE  /\ w[k].t \in {u \in DOMAIN f : u >= t}
             /\ g[w[k].t] = f[w[k].t]
  <2>1. b + k \in 1 .. Len(s) /\ b < b + k /\ k \in 1 .. Len(s) - b
    BY <1>0, <1>b, <1>n
  <2>2. w[k] = s[b + k] /\ s[b + k].t >= t /\ f[s[b + k].t] = s[b + k].v /\ g[w[k].t] = w[k].v
    BY <2>1, <1>0, <1>1, <1>2, <1>b
  <2>3. s[b + k].t \in DOMAIN f
    BY <2>1, <1>1
  <2> QED
    BY <2>2, <2>3
<1>4. ASSUME NEW u \in DOMAIN f, u >= t
      PROVE  u \in Times(w)
  <2>1. PICK k \in 1 .. Len(s) : s[k].t = u
    BY <1>1
  <2>2. b < k /\ k - b \in 1 .. Len(w) /\ k - b \in 1 .. Len(s) - b /\ b + (k - b) = k
    BY <2>1, <1>b, <1>0, <1>4, <1>n
  <2>3. w[k - b] = s[k]
    BY <2>2, <1>0
  <2> QED
    BY <2>1, <2>2, <2>3, <1>2
<1>5. Times(w) = {u \in DOMAIN f : u >= t}
  BY <1>2, <1>3, <1>4
<1>6. \A u \in Times(w) : g[u] = f[u]
  BY <1>2, <1>3
<1>7. g = [u \in {x \in DOMAIN f : x >= t} |-> f[u]]
  BY <1>2, <1>5, <1>6
<1>8. w = <<>> <=> ~\E u \in DOMAIN f : u >= t
  <2>1. (\A k \in 1 .. Len(s) : s[k].t < t) <=> ~\E u \in DOMAIN f : u >= t
    <3>1. ASSUME \A k \in 1 .. Len(s) : s[k].t < t, NEW u \in DOMAIN f, u >= t
          PROVE  FALSE
      <4>1. PICK k \in 1 .. Len(s) : s[k].t = u
        BY <1>1
      <4> QED
        BY <3>1, <4>1, <1>p
    <3>2. ASSUME ~\E u \in DOMAIN f : u >= t, NEW k \in 1 .. Len(s)
          PROVE  s[k].t < t
      <4>1. s[k].t \in DOMAIN f /\ s[k].t \in Int
        BY <1>1, <1>p
      <4> QED
        BY <3>2, <4>1
    <3> QED
      BY <3>1, <3>2
  <2> QED
    BY <2>1, <1>0
<1> QED
  BY <1>7, <1>8 DEF H!From, w, f, g

\* w holds the elements of s at the positions in kept, each once: its k-th is the one at pos[k].
Picks(w, s, kept, pos) ==
    /\ \A k \in DOMAIN w : pos[k] \in kept /\ w[k] = s[pos[k]]
    /\ \A k, m \in DOMAIN w : pos[k] = pos[m] => k = m
    /\ \A i \in kept : \E k \in DOMAIN w : pos[k] = i

\* ElementsAt does: the rank of a position among the kept ones is a bijection.
LEMMA ElementsKept ==
    ASSUME NEW S, NEW s \in Seq(S), NEW kept \in SUBSET DOMAIN s
    PROVE  /\ ElementsAt(s, kept) \in Seq(S)
           /\ \E pos : Picks(ElementsAt(s, kept), s, kept, pos)
<1> DEFINE n == Cardinality(kept)
           upto(i) == {j \in kept : j <= i}
           rank == [i \in kept |-> Cardinality(upto(i))]
           pos == [k \in 1 .. n |-> CHOOSE i \in kept : Cardinality(upto(i)) = k]
           e == ElementsAt(s, kept)
<1>1. kept \subseteq 1 .. Len(s) /\ Len(s) \in Nat
  OBVIOUS
<1>2. IsFiniteSet(kept) /\ n \in Nat
  <2>1. IsFiniteSet(1 .. Len(s))
    BY <1>1, FS_Interval
  <2> QED
    BY <1>1, <2>1, FS_Subset, FS_CardinalityType
<1>3. ASSUME NEW i \in kept
      PROVE  rank[i] \in 1 .. n
  <2>1. upto(i) \in SUBSET kept /\ i \in upto(i)
    BY <1>1
  <2>2. IsFiniteSet(upto(i)) /\ Cardinality(upto(i)) <= n /\ Cardinality(upto(i)) \in Nat
    BY <1>2, <2>1, FS_Subset, FS_CardinalityType
  <2>3. Cardinality(upto(i)) # 0
    BY <2>1, <2>2, FS_EmptySet
  <2> QED
    BY <1>2, <2>2, <2>3
<1>4. ASSUME NEW i \in kept, NEW j \in kept, rank[i] = rank[j]
      PROVE  i = j
  <2>1. ASSUME NEW x \in kept, NEW y \in kept, x < y
        PROVE  rank[x] # rank[y]
    <3>1. upto(x) \in SUBSET upto(y) /\ y \in upto(y) /\ y \notin upto(x)
      BY <1>1, <2>1
    <3>2. IsFiniteSet(upto(y))
      <4>1. upto(y) \in SUBSET kept
        OBVIOUS
      <4> QED
        BY <4>1, <1>2, FS_Subset
    <3>3. Cardinality(upto(x)) # Cardinality(upto(y))
      BY <3>1, <3>2, FS_Subset
    <3> QED
      BY <3>3
  <2>2. i \in Nat /\ j \in Nat
    BY <1>1
  <2>3. i < j \/ j < i \/ i = j
    BY <2>2
  <2> HIDE DEF rank
  <2> QED
    BY <2>1, <2>3, <1>4
<1>5. rank \in Injection(kept, 1 .. n)
  <2>1. rank \in [kept -> 1 .. n]
    BY <1>3
  <2> HIDE DEF rank
  <2> QED
    BY <2>1, <1>4 DEF Injection, IsInjective
<1>6. rank \in Surjection(kept, 1 .. n)
  <2>1. IsFiniteSet(1 .. n) /\ Cardinality(1 .. n) = n
    BY <1>2, FS_Interval
  <2> HIDE DEF rank, n
  <2>2. Cardinality(kept) = Cardinality(1 .. n)
    BY <2>1 DEF n
  <2> QED
    BY <1>5, <2>1, <2>2, FS_Injection
<1>7. ASSUME NEW k \in 1 .. n
      PROVE  pos[k] \in kept /\ rank[pos[k]] = k
  <2>1. \E i \in kept : rank[i] = k
    <3> HIDE DEF rank, n
    <3> QED
      BY <1>6 DEF Surjection
  <2>2. \E i \in kept : Cardinality(upto(i)) = k
    BY <2>1
  <2> DEFINE c == CHOOSE i \in kept : Cardinality(upto(i)) = k
  <2>3. c \in kept /\ Cardinality(upto(c)) = k
    BY <2>2
  <2>4. pos[k] = c
    OBVIOUS
  <2> HIDE DEF c
  <2> QED
    BY <2>3, <2>4
<1>8. e = [k \in 1 .. n |-> s[pos[k]]]
  BY DEF ElementsAt
<1> HIDE DEF rank, pos, n, e
<1>9. e \in Seq(S) /\ DOMAIN e = 1 .. n
  <2>1. \A k \in 1 .. n : s[pos[k]] \in S
    BY <1>7, <1>1
  <2>2. e \in [1 .. n -> S]
    BY <1>8, <2>1
  <2> QED
    BY <2>2, <1>2, SeqDef, Zenon
<1>10. \A k \in 1 .. n : pos[k] \in kept /\ e[k] = s[pos[k]]
  BY <1>7, <1>8
<1>11. \A k, m \in 1 .. n : pos[k] = pos[m] => k = m
  BY <1>7
<1>12. \A i \in kept : \E k \in 1 .. n : pos[k] = i
  <2> TAKE i \in kept
  <2>1. rank[i] \in 1 .. n
    BY <1>3
  <2>2. pos[rank[i]] \in kept /\ rank[pos[rank[i]]] = rank[i]
    BY <1>7, <2>1
  <2>3. pos[rank[i]] = i
    BY <1>4, <2>2
  <2> QED
    BY <2>1, <2>3
<1> QED
  <2>1. Picks(e, s, kept, pos)
    BY <1>9, <1>10, <1>11, <1>12 DEF Picks
  <2> QED
    BY <1>9, <2>1 DEF e

\* The elements of an interval are a slice.
LEMMA ElementsOfInterval ==
    ASSUME NEW S, NEW s \in Seq(S), NEW a \in 0 .. Len(s), NEW b \in 0 .. Len(s), a <= b
    PROVE  ElementsAt(s, a + 1 .. b) = SubSeq(s, a + 1, b)
<1> DEFINE kept == a + 1 .. b
           e == ElementsAt(s, kept)
           w == SubSeq(s, a + 1, b)
<1>1. Cardinality(kept) = b - a
  <2>1. Cardinality(kept) = IF a + 1 > b THEN 0 ELSE b - (a + 1) + 1
    BY FS_Interval
  <2> QED
    BY <2>1
<1>2. ASSUME NEW i \in kept
      PROVE  Cardinality({j \in kept : j <= i}) = i - a
  <2>1. {j \in kept : j <= i} = a + 1 .. i
    OBVIOUS
  <2>2. a + 1 \in Int /\ i \in Int
    OBVIOUS
  <2>3. Cardinality(a + 1 .. i) = IF a + 1 > i THEN 0 ELSE i - (a + 1) + 1
    BY <2>2, FS_Interval
  <2>4. Cardinality(a + 1 .. i) = i - a
    BY <2>3
  <2> HIDE DEF kept
  <2> QED
    BY <2>1, <2>4
<1>3. ASSUME NEW k \in 1 .. b - a
      PROVE  (CHOOSE i \in kept : Cardinality({j \in kept : j <= i}) = k) = a + k
  <2>1. a + k \in kept /\ Cardinality({j \in kept : j <= a + k}) = k
    <3>1. a + k \in kept /\ (a + k) - a = k
      OBVIOUS
    <3> HIDE DEF kept
    <3> QED
      BY <3>1, <1>2
  <2>2. \A i \in kept : Cardinality({j \in kept : j <= i}) = k => i = a + k
    BY <1>2
  <2> HIDE DEF kept
  <2> QED
    BY <2>1, <2>2
<1>4. e = [k \in 1 .. b - a |-> s[CHOOSE i \in kept : Cardinality({j \in kept : j <= i}) = k]]
  BY <1>1 DEF ElementsAt
<1>5. e = [k \in 1 .. b - a |-> s[a + k]]
  <2> DEFINE at(k) == CHOOSE i \in kept : Cardinality({j \in kept : j <= i}) = k
  <2>1. \A k \in 1 .. b - a : at(k) = a + k
    BY <1>3
  <2>2. e = [k \in 1 .. b - a |-> s[at(k)]]
    BY <1>4
  <2> HIDE DEF at, e, kept, w
  <2> QED
    BY <2>1, <2>2
<1>6. w = [k \in 1 .. b - a |-> s[a + k]]
  <2>1. w \in Seq(S) /\ Len(w) = b - a /\ \A k \in 1 .. b - a : w[k] = s[a + k]
    BY Slice
  <2>2. w = [k \in 1 .. Len(w) |-> w[k]]
    BY <2>1
  <2> HIDE DEF w
  <2> QED
    BY <2>1, <2>2
<1> QED
  BY <1>5, <1>6

\* The two bisections of samplesInRange cut out what a scan finds.
LEMMA RangeIsScan ==
    ASSUME NEW s \in Seq(Sample), AscendingSlice(s), NEW mint \in Int, NEW maxt \in Int, mint <= maxt
    PROVE  SamplesInRange(s, mint, maxt) = Scan(s, mint, maxt)
<1> DEFINE a == Before(s, mint)
           b == Through(s, maxt)
<1>n. Len(s) \in Nat /\ DOMAIN s = 1 .. Len(s)
  OBVIOUS
<1>p. \A k \in 1 .. Len(s) : s[k].t \in Int
  BY SampleParts
<1>a. a \in 0 .. Len(s) /\ \A k \in 1 .. Len(s) : s[k].t >= mint <=> a < k
  BY BeforeAscending
<1>b. b \in 0 .. Len(s) /\ \A k \in 1 .. Len(s) : s[k].t > maxt <=> b < k
  BY ThroughAscending
<1> HIDE DEF a, b
<1>0. a \in 0 .. Len(s) /\ b \in 0 .. Len(s)
  BY <1>a, <1>b
<1>1. a <= b
  <2> SUFFICES ASSUME b < a
               PROVE  FALSE
    BY <1>0
  <2>1. a \in 1 .. Len(s)
    BY <1>0
  <2>2. s[a].t > maxt /\ ~(s[a].t >= mint)
    BY <1>a, <1>b, <2>1
  <2> QED
    BY <2>1, <2>2, <1>p
<1>2. {i \in DOMAIN s : mint <= s[i].t /\ s[i].t <= maxt} = a + 1 .. b
  <2>1. ASSUME NEW i \in DOMAIN s
        PROVE  mint <= s[i].t /\ s[i].t <= maxt <=> i \in a + 1 .. b
    <3>1. i \in 1 .. Len(s) /\ s[i].t \in Int
      BY <1>n, <1>p
    <3>2. (s[i].t >= mint <=> a < i) /\ (s[i].t > maxt <=> b < i)
      BY <3>1, <1>a, <1>b
    <3> QED
      BY <3>1, <3>2, <1>0
  <2>2. a + 1 .. b \subseteq DOMAIN s
    BY <1>0, <1>n
  <2> QED
    BY <2>1, <2>2
<1>3. Scan(s, mint, maxt) = ElementsAt(s, a + 1 .. b)
  BY <1>2, Zenon DEF Scan
<1>4. ElementsAt(s, a + 1 .. b) = SubSeq(s, a + 1, b)
  BY <1>0, <1>1, ElementsOfInterval
<1> QED
  BY <1>3, <1>4 DEF SamplesInRange, a, b

-----------------------------------------------------------------------------
(* The inductive invariant: the chains and the postings hold exactly what the map holds. *)

\* No series has a reference that is yet to be handed out.
Counted == \A r \in DOMAIN series : r <= lastRef

\* An entry of a chain is a series of the map, under the hash of its labels.
ChainsHold ==
    \A h \in Hashes : \A i \in DOMAIN hashes[h] :
        /\ hashes[h][i].ref \in DOMAIN series
        /\ hashes[h][i].labels = series[hashes[h][i].ref].labels
        /\ Hash[hashes[h][i].labels] = h

\* No series is twice in a chain.
ChainsOnce ==
    \A h \in Hashes : \A i, j \in DOMAIN hashes[h] : hashes[h][i].ref = hashes[h][j].ref => i = j

\* Every series is in the chain of its hash.
Chained(r) == \E i \in DOMAIN hashes[Hash[series[r].labels]] : hashes[Hash[series[r].labels]][i].ref = r
ChainsComplete == \A r \in DOMAIN series : Chained(r)

\* The postings of a pair are the series that have it.
PostingsExact ==
    \A p \in Name \X Val : \A r \in Ref :
        r \in postings[p] <=> r \in DOMAIN series /\ p \in Pairs(series[r].labels)

IndexInv ==
    /\ TypeOK
    /\ Counted
    /\ ChainsHold
    /\ ChainsOnce
    /\ ChainsComplete
    /\ PostingsExact
    /\ Ascending

\* It holds initially ...
LEMMA InitIndexInv == Init => IndexInv
<1> SUFFICES ASSUME Init
             PROVE  IndexInv
  OBVIOUS
<1> USE DEF Init
<1>1. DOMAIN series = {} /\ \A h \in Hashes : hashes[h] = <<>> /\ DOMAIN hashes[h] = {}
  OBVIOUS
<1>2. TypeOK
  BY <1>1, MaxRefAssumption DEF TypeOK
<1>3. Counted /\ ChainsHold /\ ChainsOnce /\ ChainsComplete /\ Ascending
  BY <1>1, Zenon DEF Counted, ChainsHold, ChainsOnce, ChainsComplete, Ascending
<1>4. PostingsExact
  BY <1>1 DEF PostingsExact
<1> QED
  BY <1>2, <1>3, <1>4 DEF IndexInv

\* What the type of the state says of one series and one chain.
LEMMA Parts ==
    ASSUME TypeOK
    PROVE  /\ \A r \in DOMAIN series : /\ r \in Ref
                                       /\ series[r] \in [labels : Label, samples : Seq(Sample)]
                                       /\ series[r].labels \in Label
                                       /\ series[r].samples \in Seq(Sample)
           /\ \A l \in Label : Hash[l] \in Hashes
           /\ \A h \in Hashes : hashes[h] \in Seq(ChainEntry)
<1>1. \A r \in DOMAIN series : series[r] \in [labels : Label, samples : Seq(Sample)]
  BY DEF TypeOK
<1> QED
  BY <1>1 DEF TypeOK, Hashes

\* insertLocked keeps the invariant, of a reference that is free.
LEMMA InsertKeeps ==
    ASSUME IndexInv, NEW l \in Label, NEW ref \in Ref, ref \notin DOMAIN series,
           InsertLocked(ref, l), mode' \in {"replay", "up"},
           lastRef' \in 0 .. MaxRef, lastRef <= lastRef', ref <= lastRef'
    PROVE  IndexInv'
<1> DEFINE new == [labels |-> l, samples |-> <<>>]
           e == [ref |-> ref, labels |-> l]
<1>t. TypeOK /\ Counted /\ ChainsHold /\ ChainsOnce /\ ChainsComplete /\ PostingsExact /\ Ascending
  BY DEF IndexInv
<1>p. /\ \A r \in DOMAIN series : series[r] \in [labels : Label, samples : Seq(Sample)] /\ r \in Ref
      /\ \A h \in Hashes : hashes[h] \in Seq(ChainEntry)
      /\ DOMAIN hashes = Hashes /\ Hash[l] \in Hashes
      /\ \A r \in DOMAIN series : Hash[series[r].labels] \in Hashes
      /\ lastRef \in Nat
  BY <1>t, Parts DEF TypeOK
<1>new. new \in [labels : Label, samples : Seq(Sample)] /\ e \in ChainEntry
  BY DEF ChainEntry
<1>1. /\ DOMAIN series' = DOMAIN series \cup {ref}
      /\ series'[ref] = new
      /\ \A r \in DOMAIN series : series'[r] = series[r]
      /\ series' = [r \in DOMAIN series' |-> series'[r]]
  BY DEF InsertLocked
<1>2. /\ hashes' = [h \in Hashes |-> hashes'[h]]
      /\ hashes'[Hash[l]] = Append(hashes[Hash[l]], e)
      /\ \A h \in Hashes \ {Hash[l]} : hashes'[h] = hashes[h]
  BY <1>p DEF InsertLocked, TypeOK
<1>3. /\ postings' = [p \in Name \X Val |-> postings'[p]]
      /\ \A p \in Name \X Val : postings'[p] = IF p \in Pairs(l) THEN postings[p] \cup {ref} ELSE postings[p]
  BY <1>t DEF InsertLocked, TypeOK
<1> HIDE DEF new, e
<1>5. /\ \A h \in Hashes : hashes'[h] \in Seq(ChainEntry)
      /\ \A h \in Hashes : \A i \in DOMAIN hashes[h] : i \in DOMAIN hashes'[h] /\ hashes'[h][i] = hashes[h][i]
      /\ \A h \in Hashes : \A i \in DOMAIN hashes'[h] :
            i \notin DOMAIN hashes[h] => h = Hash[l] /\ hashes'[h][i] = e /\ i = Len(hashes[h]) + 1
      /\ \E i \in DOMAIN hashes'[Hash[l]] : hashes'[Hash[l]][i] = e
  <2>1. ASSUME NEW c \in Seq(ChainEntry)
        PROVE  /\ Append(c, e) \in Seq(ChainEntry)
               /\ \A i \in DOMAIN c : i \in DOMAIN Append(c, e) /\ Append(c, e)[i] = c[i]
               /\ \A i \in DOMAIN Append(c, e) : i \notin DOMAIN c => Append(c, e)[i] = e /\ i = Len(c) + 1
               /\ Len(c) + 1 \in DOMAIN Append(c, e) /\ Append(c, e)[Len(c) + 1] = e
    BY <1>new
  <2>2. ASSUME NEW h \in Hashes
        PROVE  hashes[h] \in Seq(ChainEntry) /\ (h = Hash[l] => hashes'[h] = Append(hashes[h], e))
               /\ (h # Hash[l] => hashes'[h] = hashes[h])
    BY <1>p, <1>2
  <2>3. \A h \in Hashes : hashes'[h] \in Seq(ChainEntry)
    BY <2>1, <2>2
  <2>4. \A h \in Hashes : \A i \in DOMAIN hashes[h] : i \in DOMAIN hashes'[h] /\ hashes'[h][i] = hashes[h][i]
    <3> TAKE h \in Hashes
    <3> QED
      BY <2>1, <2>2
  <2>5. \A h \in Hashes : \A i \in DOMAIN hashes'[h] :
            i \notin DOMAIN hashes[h] => h = Hash[l] /\ hashes'[h][i] = e /\ i = Len(hashes[h]) + 1
    <3> TAKE h \in Hashes
    <3> QED
      BY <2>1, <2>2
  <2>6. \E i \in DOMAIN hashes'[Hash[l]] : hashes'[Hash[l]][i] = e
    <3>1. hashes[Hash[l]] \in Seq(ChainEntry) /\ hashes'[Hash[l]] = Append(hashes[Hash[l]], e)
      BY <1>p, <1>2
    <3>2. \E i \in DOMAIN Append(hashes[Hash[l]], e) : Append(hashes[Hash[l]], e)[i] = e
      BY <2>1, <3>1
    <3> QED
      BY <3>1, <3>2
  <2> QED
    BY <2>3, <2>4, <2>5, <2>6
<1>6. TypeOK'
  <2>1. series' \in [DOMAIN series' -> [labels : Label, samples : Seq(Sample)]]
    <3>1. \A r \in DOMAIN series' : series'[r] \in [labels : Label, samples : Seq(Sample)]
      BY <1>1, <1>p, <1>new
    <3> QED
      BY <1>1, <3>1
  <2>2. DOMAIN series' \subseteq Ref
    BY <1>1, <1>p
  <2>3. hashes' \in [Hashes -> Seq(ChainEntry)]
    BY <1>2, <1>5
  <2>4. postings' \in [Name \X Val -> SUBSET Ref]
    <3>1. \A p \in Name \X Val : postings[p] \in SUBSET Ref
      BY <1>t DEF TypeOK
    <3>2. \A p \in Name \X Val : postings'[p] \in SUBSET Ref
      BY <1>3, <3>1
    <3> QED
      BY <1>3, <3>2
  <2> QED
    BY <2>1, <2>2, <2>3, <2>4 DEF TypeOK
<1>7. Counted'
  <2>1. \A r \in DOMAIN series' : r <= lastRef'
    <3>1. \A r \in DOMAIN series : r <= lastRef /\ r \in Nat
      BY <1>t, <1>p DEF Counted, Ref
    <3> QED
      BY <1>1, <1>p, <3>1
  <2> QED
    BY <2>1 DEF Counted
<1>e. e.ref = ref /\ e.labels = l /\ new.labels = l /\ new.samples = <<>>
  BY DEF e, new
<1>8. ChainsHold'
  <2>1. ASSUME NEW h \in Hashes, NEW i \in DOMAIN hashes'[h]
        PROVE  /\ hashes'[h][i].ref \in DOMAIN series'
               /\ hashes'[h][i].labels = series'[hashes'[h][i].ref].labels
               /\ Hash[hashes'[h][i].labels] = h
    <3>1. CASE i \in DOMAIN hashes[h]
      <4>1. /\ hashes[h][i].ref \in DOMAIN series
            /\ hashes[h][i].labels = series[hashes[h][i].ref].labels
            /\ Hash[hashes[h][i].labels] = h
        BY <3>1, <1>t DEF ChainsHold
      <4>2. hashes'[h][i] = hashes[h][i]
        BY <3>1, <1>5
      <4> QED
        BY <4>1, <4>2, <1>1
    <3>2. CASE i \notin DOMAIN hashes[h]
      <4>1. h = Hash[l] /\ hashes'[h][i] = e
        BY <3>2, <1>5
      <4> QED
        BY <4>1, <1>1, <1>e
    <3> QED
      BY <3>1, <3>2
  <2> QED
    BY <2>1 DEF ChainsHold, Hashes
<1>9. ChainsOnce'
  <2>1. ASSUME NEW h \in Hashes, NEW i \in DOMAIN hashes'[h], NEW j \in DOMAIN hashes'[h],
               hashes'[h][i].ref = hashes'[h][j].ref
        PROVE  i = j
    <3>1. ASSUME NEW k \in DOMAIN hashes[h]
          PROVE  hashes'[h][k].ref # ref
      <4>1. hashes[h][k].ref \in DOMAIN series /\ hashes'[h][k] = hashes[h][k]
        BY <1>t, <1>5 DEF ChainsHold
      <4> QED
        BY <4>1
    <3>2. CASE i \in DOMAIN hashes[h] /\ j \in DOMAIN hashes[h]
      <4>1. hashes'[h][i] = hashes[h][i] /\ hashes'[h][j] = hashes[h][j]
        BY <3>2, <1>5
      <4> QED
        BY <2>1, <3>2, <4>1, <1>t DEF ChainsOnce
    <3>3. CASE i \notin DOMAIN hashes[h] /\ j \notin DOMAIN hashes[h]
      BY <3>3, <1>5
    <3>4. CASE i \in DOMAIN hashes[h] /\ j \notin DOMAIN hashes[h]
      BY <2>1, <3>1, <3>4, <1>5, <1>e
    <3>5. CASE i \notin DOMAIN hashes[h] /\ j \in DOMAIN hashes[h]
      BY <2>1, <3>1, <3>5, <1>5, <1>e
    <3> QED
      BY <3>2, <3>3, <3>4, <3>5
  <2> QED
    BY <2>1 DEF ChainsOnce, Hashes
<1>10. ChainsComplete'
  <2>1. ASSUME NEW r \in DOMAIN series'
        PROVE  \E i \in DOMAIN hashes'[Hash[series'[r].labels]] : hashes'[Hash[series'[r].labels]][i].ref = r
    <3>1. CASE r \in DOMAIN series
      <4>1. PICK i \in DOMAIN hashes[Hash[series[r].labels]] : hashes[Hash[series[r].labels]][i].ref = r
        BY <3>1, <1>t DEF ChainsComplete, Chained
      <4>2. series'[r] = series[r] /\ Hash[series[r].labels] \in Hashes
        BY <3>1, <1>1, <1>p
      <4> QED
        BY <4>1, <4>2, <1>5
    <3>2. CASE r = ref
      BY <3>2, <1>1, <1>5, <1>e
    <3> QED
      BY <3>1, <3>2, <1>1
  <2> QED
    BY <2>1 DEF ChainsComplete, Chained
<1>11. PostingsExact'
  <2>1. ASSUME NEW p \in Name \X Val, NEW r \in Ref
        PROVE  r \in postings'[p] <=> r \in DOMAIN series' /\ p \in Pairs(series'[r].labels)
    <3>1. r \in postings[p] <=> r \in DOMAIN series /\ p \in Pairs(series[r].labels)
      BY <1>t DEF PostingsExact
    <3>2. CASE r = ref
      BY <3>1, <3>2, <1>1, <1>3, <1>e
    <3>3. CASE r # ref
      <4>1. r \in postings'[p] <=> r \in postings[p]
        BY <3>3, <1>3
      <4>2. r \in DOMAIN series' <=> r \in DOMAIN series
        BY <3>3, <1>1
      <4>3. r \in DOMAIN series => series'[r] = series[r]
        BY <1>1
      <4> QED
        BY <3>1, <4>1, <4>2, <4>3
    <3> QED
      BY <3>2, <3>3
  <2> QED
    BY <2>1 DEF PostingsExact, Pairs
<1>12. Ascending'
  <2>1. ASSUME NEW r \in DOMAIN series', NEW i \in DOMAIN series'[r].samples, NEW j \in DOMAIN series'[r].samples, i < j
        PROVE  series'[r].samples[i].t < series'[r].samples[j].t
    <3>1. CASE r \in DOMAIN series
      BY <2>1, <3>1, <1>1, <1>t DEF Ascending
    <3>2. CASE r = ref
      BY <2>1, <3>2, <1>1, <1>e
    <3> QED
      BY <3>1, <3>2, <1>1
  <2> QED
    BY <2>1 DEF Ascending
<1> QED
  BY <1>6, <1>7, <1>8, <1>9, <1>10, <1>11, <1>12 DEF IndexInv

\* What removal keeps of a chain: the entries of the series that stay, once each.
LEMMA ChainsWithout ==
    ASSUME IndexInv, NEW gone, RemoveSeries(gone), NEW h \in Hashes
    PROVE  /\ hashes'[h] \in Seq(ChainEntry)
           /\ \A k \in DOMAIN hashes'[h] : \E i \in DOMAIN hashes[h] :
                 hashes'[h][k] = hashes[h][i] /\ hashes[h][i].ref \notin gone
           /\ \A k, m \in DOMAIN hashes'[h] : hashes'[h][k].ref = hashes'[h][m].ref => k = m
           /\ \A i \in DOMAIN hashes[h] : hashes[h][i].ref \notin gone =>
                 \E k \in DOMAIN hashes'[h] : hashes'[h][k] = hashes[h][i]
<1> DEFINE c == hashes[h]
           kept == {i \in DOMAIN c : c[i].ref \notin gone}
<1>t. TypeOK /\ ChainsHold /\ ChainsOnce
  BY DEF IndexInv
<1>c. c \in Seq(ChainEntry)
  BY <1>t, Parts
<1>1. hashes'[h] = ElementsAt(c, kept)
  <2>1. \A i \in DOMAIN c : Hash[series[c[i].ref].labels] = h
    BY <1>t DEF ChainsHold
  <2>2. hashes'[h] = ElementsAt(c, {i \in DOMAIN c : ~(c[i].ref \in gone /\ Hash[series[c[i].ref].labels] = h)})
    BY DEF RemoveSeries
  <2>3. {i \in DOMAIN c : ~(c[i].ref \in gone /\ Hash[series[c[i].ref].labels] = h)} = kept
    BY <2>1
  <2> QED
    BY <2>2, <2>3
<1>k. kept \in SUBSET DOMAIN c
  OBVIOUS
<1> DEFINE w == ElementsAt(c, kept)
<1>2. w \in Seq(ChainEntry)
  BY <1>c, <1>k, ElementsKept
<1>e. PICK pos : Picks(w, c, kept, pos)
  <2> HIDE DEF c, kept
  <2>1. kept \in SUBSET DOMAIN c
    BY <1>k
  <2> QED
    BY <1>c, <2>1, ElementsKept
<1>3. /\ \A k \in DOMAIN w : pos[k] \in kept /\ w[k] = c[pos[k]]
      /\ \A k, m \in DOMAIN w : pos[k] = pos[m] => k = m
      /\ \A i \in kept : \E k \in DOMAIN w : pos[k] = i
  <2> HIDE DEF w, c, kept
  <2> QED
    BY <1>e DEF Picks
<1> HIDE DEF w
<1>4. \A k, m \in DOMAIN w : w[k].ref = w[m].ref => k = m
  <2> SUFFICES ASSUME NEW k \in DOMAIN w, NEW m \in DOMAIN w, w[k].ref = w[m].ref
               PROVE  k = m
    OBVIOUS
  <2>1. pos[k] \in DOMAIN c /\ pos[m] \in DOMAIN c /\ c[pos[k]].ref = c[pos[m]].ref
    BY <1>3
  <2>2. pos[k] = pos[m]
    BY <2>1, <1>t DEF ChainsOnce
  <2> QED
    BY <2>2, <1>3
<1>5. \A k \in DOMAIN w : \E i \in DOMAIN c : w[k] = c[i] /\ c[i].ref \notin gone
  BY <1>3
<1>6. \A i \in DOMAIN c : c[i].ref \notin gone => \E k \in DOMAIN w : w[k] = c[i]
  <2> SUFFICES ASSUME NEW i \in DOMAIN c, c[i].ref \notin gone
               PROVE  \E k \in DOMAIN w : w[k] = c[i]
    OBVIOUS
  <2>1. PICK k \in DOMAIN w : pos[k] = i
    BY <1>3
  <2> QED
    BY <2>1, <1>3
<1> QED
  BY <1>1, <1>2, <1>4, <1>5, <1>6 DEF w

\* truncate and reclaimIfEmpty: some series go, the others keep their labels.
LEMMA RemoveKeeps ==
    ASSUME IndexInv, NEW gone \in SUBSET DOMAIN series, RemoveSeries(gone),
           DOMAIN series' = DOMAIN series \ gone,
           series' \in [DOMAIN series' -> [labels : Label, samples : Seq(Sample)]],
           \A r \in DOMAIN series' :
               series'[r].labels = series[r].labels /\ AscendingSlice(series'[r].samples),
           UNCHANGED <<mode, lastRef>>
    PROVE  IndexInv'
<1>t. TypeOK /\ Counted /\ ChainsHold /\ ChainsOnce /\ ChainsComplete /\ PostingsExact /\ Ascending
  BY DEF IndexInv
<1>p. /\ \A r \in DOMAIN series : r \in Ref /\ Hash[series[r].labels] \in Hashes
      /\ DOMAIN series' \subseteq DOMAIN series
  BY <1>t, Parts
<1>1. /\ hashes' = [h \in Hashes |-> hashes'[h]]
      /\ \A h \in Hashes : hashes'[h] \in Seq(ChainEntry)
  <2>1. \A h \in Hashes : hashes'[h] \in Seq(ChainEntry)
    BY ChainsWithout
  <2>2. hashes' = [h \in Hashes |-> hashes'[h]]
    BY DEF RemoveSeries
  <2> QED
    BY <2>1, <2>2
<1>2. /\ postings' = [p \in Name \X Val |-> postings'[p]]
      /\ \A p \in Name \X Val :
            postings'[p] = {r \in postings[p] : ~(r \in gone /\ p \in Pairs(series[r].labels))}
  BY <1>t DEF RemoveSeries, TypeOK
<1>3. TypeOK'
  <2>1. hashes' \in [Hashes -> Seq(ChainEntry)]
    BY <1>1
  <2>2. postings' \in [Name \X Val -> SUBSET Ref]
    <3>1. \A p \in Name \X Val : postings[p] \in SUBSET Ref
      BY <1>t DEF TypeOK
    <3>2. \A p \in Name \X Val : postings'[p] \in SUBSET Ref
      BY <1>2, <3>1
    <3> QED
      BY <1>2, <3>2
  <2>3. DOMAIN series' \subseteq Ref
    BY <1>p
  <2> QED
    BY <2>1, <2>2, <2>3, <1>t DEF TypeOK
<1>4. Counted'
  BY <1>t, <1>p DEF Counted
<1>5. ChainsHold'
  <2>1. ASSUME NEW h \in Hashes, NEW k \in DOMAIN hashes'[h]
        PROVE  /\ hashes'[h][k].ref \in DOMAIN series'
               /\ hashes'[h][k].labels = series'[hashes'[h][k].ref].labels
               /\ Hash[hashes'[h][k].labels] = h
    <3>1. PICK i \in DOMAIN hashes[h] : hashes'[h][k] = hashes[h][i] /\ hashes[h][i].ref \notin gone
      BY ChainsWithout
    <3>2. /\ hashes[h][i].ref \in DOMAIN series
          /\ hashes[h][i].labels = series[hashes[h][i].ref].labels
          /\ Hash[hashes[h][i].labels] = h
      BY <1>t DEF ChainsHold
    <3> QED
      BY <3>1, <3>2
  <2> QED
    BY <2>1 DEF ChainsHold, Hashes
<1>6. ChainsOnce'
  <2>1. \A h \in Hashes : \A i, j \in DOMAIN hashes'[h] : hashes'[h][i].ref = hashes'[h][j].ref => i = j
    BY ChainsWithout
  <2> QED
    BY <2>1 DEF ChainsOnce, Hashes
<1>7. ChainsComplete'
  <2>1. ASSUME NEW r \in DOMAIN series'
        PROVE  \E k \in DOMAIN hashes'[Hash[series'[r].labels]] : hashes'[Hash[series'[r].labels]][k].ref = r
    <3> DEFINE h == Hash[series[r].labels]
    <3>1. series'[r].labels = series[r].labels /\ h \in Hashes /\ r \in DOMAIN series /\ r \notin gone
      BY <1>p
    <3>2. PICK i \in DOMAIN hashes[h] : hashes[h][i].ref = r
      BY <3>1, <1>t DEF ChainsComplete, Chained
    <3> HIDE DEF h
    <3>3. PICK k \in DOMAIN hashes'[h] : hashes'[h][k] = hashes[h][i]
      BY <3>1, <3>2, ChainsWithout
    <3> QED
      BY <3>1, <3>2, <3>3 DEF h
  <2> QED
    BY <2>1 DEF ChainsComplete, Chained
<1>8. PostingsExact'
  <2>1. ASSUME NEW p \in Name \X Val, NEW r \in Ref
        PROVE  r \in postings'[p] <=> r \in DOMAIN series' /\ p \in Pairs(series'[r].labels)
    <3>1. r \in postings[p] <=> r \in DOMAIN series /\ p \in Pairs(series[r].labels)
      BY <1>t DEF PostingsExact
    <3>2. r \in postings'[p] <=> r \in postings[p] /\ ~(r \in gone /\ p \in Pairs(series[r].labels))
      BY <1>2
    <3>3. r \in DOMAIN series' => series'[r].labels = series[r].labels
      OBVIOUS
    <3> QED
      BY <3>1, <3>2, <3>3
  <2> QED
    BY <2>1 DEF PostingsExact, Pairs
<1>9. Ascending'
  <2>1. ASSUME NEW r \in DOMAIN series', NEW i \in DOMAIN series'[r].samples, NEW j \in DOMAIN series'[r].samples, i < j
        PROVE  series'[r].samples[i].t < series'[r].samples[j].t
    BY <2>1 DEF AscendingSlice
  <2> QED
    BY <2>1 DEF Ascending
<1> QED
  BY <1>3, <1>4, <1>5, <1>6, <1>7, <1>8, <1>9 DEF IndexInv

\* The slice of each series ascends.
LEMMA SeriesAscend ==
    ASSUME IndexInv, NEW r \in DOMAIN series
    PROVE  series[r].samples \in Seq(Sample) /\ AscendingSlice(series[r].samples)
BY Parts DEF IndexInv, Ascending, AscendingSlice

\* appendSample keeps the invariant, and changes the slice of one series.
LEMMA AppendKeeps ==
    ASSUME IndexInv, NEW ref \in Ref, NEW t \in Time, NEW v \in Value, AppendSample(ref, t, v)
    PROVE  /\ IndexInv'
           /\ series' = [r \in DOMAIN series |->
                            IF r = ref THEN [labels |-> series[r].labels,
                                             samples |-> WithSample(series[r].samples, t, v)]
                                       ELSE series[r]]
<1> DEFINE s == series[ref].samples
           w == WithSample(s, t, v)
<1>t. TypeOK /\ Counted /\ ChainsHold /\ ChainsOnce /\ ChainsComplete /\ PostingsExact /\ Ascending
  BY DEF IndexInv
<1>p. \A r \in DOMAIN series : series[r] \in [labels : Label, samples : Seq(Sample)]
  BY <1>t, Parts
<1>0. ref \in DOMAIN series /\ UNCHANGED <<mode, lastRef, hashes, postings>>
  BY DEF AppendSample
<1>s. s \in Seq(Sample) /\ AscendingSlice(s)
  BY <1>0, SeriesAscend
<1>1. w \in Seq(Sample) /\ AscendingSlice(w)
  BY <1>s, WithSampleAscending
<1>2. series' = [series EXCEPT ![ref].samples = w]
  BY DEF AppendSample
<1> HIDE DEF w
<1>3. [series[ref] EXCEPT !.samples = w] = [labels |-> series[ref].labels, samples |-> w]
  BY <1>p, <1>0
<1>4. series' = [r \in DOMAIN series |-> IF r = ref THEN [labels |-> series[r].labels, samples |-> w] ELSE series[r]]
  BY <1>2, <1>3, <1>t DEF TypeOK
<1>5. /\ DOMAIN series' = DOMAIN series
      /\ \A r \in DOMAIN series : series'[r].labels = series[r].labels
      /\ series'[ref].samples = w
      /\ \A r \in DOMAIN series : r # ref => series'[r] = series[r]
  BY <1>4, <1>0
<1>6. TypeOK'
  <2>1. [labels |-> series[ref].labels, samples |-> w] \in [labels : Label, samples : Seq(Sample)]
    BY <1>p, <1>0, <1>1
  <2>2. series' \in [DOMAIN series' -> [labels : Label, samples : Seq(Sample)]]
    BY <2>1, <1>4, <1>p
  <2> QED
    BY <2>2, <1>0, <1>5, <1>t DEF TypeOK
<1>7. Counted'
  BY <1>0, <1>5, <1>t DEF Counted
<1>8. ChainsHold' /\ ChainsOnce'
  BY <1>0, <1>5, <1>t DEF ChainsHold, ChainsOnce, Hashes
<1>9. ChainsComplete'
  BY <1>0, <1>5, <1>t DEF ChainsComplete, Chained
<1>10. PostingsExact'
  <2>1. ASSUME NEW p \in Name \X Val, NEW r \in Ref
        PROVE  r \in postings'[p] <=> r \in DOMAIN series' /\ p \in Pairs(series'[r].labels)
    BY <1>0, <1>5, <1>t DEF PostingsExact
  <2> QED
    BY <2>1 DEF PostingsExact, Pairs
<1>11. Ascending'
  <2>1. ASSUME NEW r \in DOMAIN series', NEW i \in DOMAIN series'[r].samples, NEW j \in DOMAIN series'[r].samples, i < j
        PROVE  series'[r].samples[i].t < series'[r].samples[j].t
    <3>1. CASE r = ref
      BY <2>1, <3>1, <1>1, <1>5 DEF AscendingSlice
    <3>2. CASE r # ref
      BY <2>1, <3>2, <1>5, <1>t DEF Ascending
    <3> QED
      BY <3>1, <3>2
  <2> QED
    BY <2>1 DEF Ascending
<1>12. IndexInv'
  BY <1>6, <1>7, <1>8, <1>9, <1>10, <1>11 DEF IndexInv
<1>13. series' = [r \in DOMAIN series |->
                    IF r = ref THEN [labels |-> series[r].labels, samples |-> WithSample(series[r].samples, t, v)]
                               ELSE series[r]]
  <2>1. \A r \in DOMAIN series :
           (IF r = ref THEN [labels |-> series[r].labels, samples |-> w] ELSE series[r])
           = IF r = ref THEN [labels |-> series[r].labels, samples |-> WithSample(series[r].samples, t, v)]
                        ELSE series[r]
    BY DEF w
  <2> QED
    BY <1>4, <2>1
<1> QED
  BY <1>12, <1>13

\* ... and every step keeps it.
LEMMA NextIndexInv == IndexInv /\ [Next]_vars => IndexInv'
<1> SUFFICES ASSUME IndexInv, [Next]_vars
             PROVE  IndexInv'
  OBVIOUS
<1>t. TypeOK /\ Counted /\ ChainsHold /\ ChainsOnce /\ ChainsComplete /\ PostingsExact /\ Ascending
  BY DEF IndexInv
<1>1. ASSUME NEW l \in Label, Create(l)
      PROVE  IndexInv'
  <2>1. lastRef + 1 \in Ref /\ lastRef + 1 \notin DOMAIN series
    <3>1. lastRef \in Nat /\ lastRef < MaxRef
      BY <1>1, <1>t DEF TypeOK, Create
    <3>2. \A r \in DOMAIN series : r \in Nat /\ r <= lastRef
      BY <1>t, Parts DEF Counted, Ref
    <3> QED
      BY <3>1, <3>2, MaxRefAssumption DEF Ref
  <2>2. lastRef' = lastRef + 1 /\ lastRef' \in 0 .. MaxRef /\ mode' \in {"replay", "up"} /\ lastRef <= lastRef'
        /\ lastRef + 1 <= lastRef' /\ InsertLocked(lastRef + 1, l)
    BY <1>1, <1>t, MaxRefAssumption DEF Create, TypeOK
  <2> QED
    BY <2>1, <2>2, InsertKeeps
<1>2. ASSUME NEW l \in Label, NEW ref \in Ref, AddSeriesWithRef(ref, l)
      PROVE  IndexInv'
  <2>1. /\ ref \notin DOMAIN series /\ InsertLocked(ref, l) /\ mode' \in {"replay", "up"}
        /\ lastRef' = IF ref > lastRef THEN ref ELSE lastRef
    BY <1>2, <1>t DEF AddSeriesWithRef, TypeOK
  <2>2. lastRef' \in 0 .. MaxRef /\ lastRef <= lastRef' /\ ref <= lastRef'
    BY <2>1, <1>t, MaxRefAssumption DEF TypeOK, Ref
  <2> QED
    BY <2>1, <2>2, InsertKeeps
<1>3. ASSUME NEW ref \in Ref, NEW t \in Time, NEW v \in Value, AppendSample(ref, t, v)
      PROVE  IndexInv'
  BY <1>3, AppendKeeps
<1>4. ASSUME NEW t \in Time, Truncate(t)
      PROVE  IndexInv'
  <2>t. t \in Int
    BY TimeAssumption
  <2>1. PICK gone : gone = {r \in DOMAIN series : From(series[r].samples, t) = <<>>}
    OBVIOUS
  <2>2. /\ series' = [r \in DOMAIN series \ gone |->
                        [labels |-> series[r].labels, samples |-> From(series[r].samples, t)]]
        /\ RemoveSeries(gone) /\ UNCHANGED <<mode, lastRef>> /\ gone \in SUBSET DOMAIN series
    BY <1>4, <2>1 DEF Truncate
  <2>3. ASSUME NEW r \in DOMAIN series \ gone
        PROVE  /\ [labels |-> series[r].labels, samples |-> From(series[r].samples, t)]
                    \in [labels : Label, samples : Seq(Sample)]
               /\ AscendingSlice(From(series[r].samples, t))
    <3>1. series[r].samples \in Seq(Sample) /\ AscendingSlice(series[r].samples)
      BY SeriesAscend
    <3>2. From(series[r].samples, t) \in Seq(Sample) /\ AscendingSlice(From(series[r].samples, t))
      BY <2>t, <3>1, FromAscending
    <3>3. series[r].labels \in Label
      BY <1>t, Parts
    <3> QED
      BY <3>2, <3>3
  <2>4. /\ DOMAIN series' = DOMAIN series \ gone
        /\ series' \in [DOMAIN series' -> [labels : Label, samples : Seq(Sample)]]
        /\ \A r \in DOMAIN series' :
              series'[r].labels = series[r].labels /\ AscendingSlice(series'[r].samples)
    BY <2>2, <2>3
  <2> QED
    BY <2>2, <2>4, RemoveKeeps
<1>5. ASSUME NEW ref \in Ref, ReclaimIfEmpty(ref)
      PROVE  IndexInv'
  <2>1. /\ series' = [r \in DOMAIN series \ {ref} |-> series[r]]
        /\ RemoveSeries({ref}) /\ UNCHANGED <<mode, lastRef>> /\ {ref} \in SUBSET DOMAIN series
    BY <1>5 DEF ReclaimIfEmpty
  <2>2. /\ DOMAIN series' = DOMAIN series \ {ref}
        /\ series' \in [DOMAIN series' -> [labels : Label, samples : Seq(Sample)]]
    BY <2>1, <1>t, Parts
  <2>3. \A r \in DOMAIN series' :
              series'[r].labels = series[r].labels /\ AscendingSlice(series'[r].samples)
    BY <2>1, SeriesAscend
  <2> QED
    BY <2>1, <2>2, <2>3, RemoveKeeps
<1>6. CASE OpenDone
  BY <1>6, <1>t DEF OpenDone, IndexInv, TypeOK, Counted, ChainsHold, ChainsOnce, ChainsComplete, Chained,
                    PostingsExact, Pairs, Ascending, Hashes
<1>7. CASE UNCHANGED vars
  BY <1>7, <1>t DEF vars, IndexInv, TypeOK, Counted, ChainsHold, ChainsOnce, ChainsComplete, Chained,
                    PostingsExact, Pairs, Ascending, Hashes
<1> QED
  BY <1>1, <1>2, <1>3, <1>4, <1>5, <1>6, <1>7 DEF Next

\* The chains and the postings mirror the map, in every state (head.go).
THEOREM IndexInvariant == Spec => []IndexInv
<1> QED
  BY InitIndexInv, NextIndexInv, PTL DEF Spec

-----------------------------------------------------------------------------
(* Lookup and leaks *)

\* The chain of a label set's hash decides whether the map has a series with it.
LEMMA Looked == IndexInv => LookupAgrees
<1> SUFFICES ASSUME IndexInv, NEW l \in Label
             PROVE  IF H!RefsOf(l) = {} THEN Matches(l) = {}
                    ELSE Matches(l) # {} /\ Lookup(l) \in H!RefsOf(l)
  BY DEF LookupAgrees
<1> DEFINE c == hashes[Hash[l]]
<1>t. TypeOK /\ ChainsHold /\ ChainsComplete
  BY DEF IndexInv
<1>h. Hash[l] \in Hashes /\ c \in Seq(ChainEntry)
  BY <1>t, Parts
<1>1. H!RefsOf(l) = {r \in DOMAIN series : series[r].labels = l}
  BY DEF H!RefsOf
<1>2. ASSUME NEW r \in DOMAIN series, series[r].labels = l
      PROVE  Matches(l) # {}
  <2>1. PICK i \in DOMAIN c : c[i].ref = r
    BY <1>t, <1>2 DEF ChainsComplete, Chained
  <2>2. c[i].labels = l
    BY <2>1, <1>2, <1>t, <1>h DEF ChainsHold
  <2> QED
    BY <2>2 DEF Matches
<1>3. ASSUME NEW i \in Matches(l)
      PROVE  c[i].ref \in DOMAIN series /\ series[c[i].ref].labels = l
  <2>1. i \in DOMAIN c /\ c[i].labels = l
    BY DEF Matches
  <2> QED
    BY <2>1, <1>t, <1>h DEF ChainsHold
<1>4. ASSUME Matches(l) # {}
      PROVE  \E i \in Matches(l) : \A j \in Matches(l) : i <= j
  <2>1. Matches(l) \in SUBSET Nat
    BY <1>h DEF Matches
  <2> QED
    BY <2>1, <1>4, Least
<1>5. ASSUME Matches(l) # {}
      PROVE  Lookup(l) \in H!RefsOf(l)
  <2> DEFINE i == CHOOSE k \in Matches(l) : \A j \in Matches(l) : k <= j
  <2>1. i \in Matches(l)
    BY <1>4, <1>5
  <2>2. Lookup(l) = c[i].ref
    BY DEF Lookup
  <2> QED
    BY <2>1, <2>2, <1>1, <1>3
<1>6. Matches(l) # {} => H!RefsOf(l) # {}
  BY <1>5
<1>7. H!RefsOf(l) # {} => Matches(l) # {}
  BY <1>1, <1>2
<1> QED
  BY <1>5, <1>6, <1>7

\* Chains and postings name series of the map only.
LEMMA Clean == IndexInv => NothingLeaks
<1> SUFFICES ASSUME IndexInv
             PROVE  NothingLeaks
  OBVIOUS
<1>t. TypeOK /\ ChainsHold /\ ChainsOnce /\ PostingsExact
  BY DEF IndexInv
<1>1. \A p \in DOMAIN postings : \A r \in postings[p] : r \in DOMAIN series
  <2> TAKE p \in DOMAIN postings
  <2>1. p \in Name \X Val /\ postings[p] \subseteq Ref
    BY <1>t DEF TypeOK
  <2> QED
    BY <2>1, <1>t DEF PostingsExact
<1>2. UNION {postings[p] : p \in DOMAIN postings} \subseteq DOMAIN series
  BY <1>1
<1>3. \A h \in Hashes : \A i \in DOMAIN hashes[h] :
          /\ hashes[h][i].ref \in DOMAIN series
          /\ \A j \in DOMAIN hashes[h] : hashes[h][i].ref = hashes[h][j].ref => i = j
  BY <1>t DEF ChainsHold, ChainsOnce
<1> QED
  BY <1>2, <1>3 DEF NothingLeaks

\* IndexSound: whatever was inserted and removed, and however hashes collide, a label set
\* is looked up exactly when a series has it, and a removed series leaves nothing behind.
THEOREM IndexStaysSound == Spec => []IndexSound
<1>1. IndexInv => IndexSound
  BY Looked, Clean DEF IndexSound, IndexInv
<1> QED
  BY <1>1, IndexInvariant, PTL

-----------------------------------------------------------------------------
(* Queries *)

\* A matcher the postings can answer for.
Indexed(ms) == {m \in ms : m.type = "=" /\ m.value # ""}

\* Whichever postings list serves as the candidates, every match is selected.
LEMMA SelectedExact ==
    ASSUME IndexInv, NEW ms, \A m \in Indexed(ms) : m.name \in Name /\ m.value \in Val
    PROVE  Selected(ms) = {r \in DOMAIN series : MatchesAll(series[r].labels, ms)}
<1> DEFINE usable == {postings[<<m.name, m.value>>] : m \in Indexed(ms)}
           best == CHOOSE s \in usable : \A u \in usable : Cardinality(s) <= Cardinality(u)
<1>t. TypeOK /\ PostingsExact
  BY DEF IndexInv
<1>0. Candidates(ms) = IF usable = {} THEN DOMAIN series ELSE best \cap DOMAIN series
  BY DEF Candidates, Indexed
<1>1. CASE usable = {}
  BY <1>0, <1>1 DEF Selected
<1>2. CASE usable # {}
  <2>1. \A u \in usable : Cardinality(u) \in Nat
    <3>1. \A u \in usable : u \in SUBSET Ref
      BY <1>t DEF TypeOK
    <3>2. IsFiniteSet(Ref)
      BY MaxRefAssumption, FS_Interval DEF Ref
    <3> HIDE DEF usable
    <3> QED
      BY <3>1, <3>2, FS_Subset, FS_CardinalityType
  <2> DEFINE sizes == {Cardinality(u) : u \in usable}
  <2>2. \E s \in usable : \A u \in usable : Cardinality(s) <= Cardinality(u)
    <3> HIDE DEF usable
    <3>1. sizes \in SUBSET Nat /\ sizes # {}
      BY <1>2, <2>1
    <3>2. PICK n \in sizes : \A k \in sizes : n <= k
      <4> HIDE DEF sizes
      <4> QED
        BY <3>1, Least
    <3>3. PICK s \in usable : n = Cardinality(s)
      BY <3>2
    <3> QED
      BY <3>2, <3>3
  <2>3. best \in usable
    <3> HIDE DEF usable
    <3> QED
      BY <2>2
  <2> HIDE DEF best
  <2>4. PICK m \in Indexed(ms) : best = postings[<<m.name, m.value>>]
    BY <2>3
  <2>5. m \in ms /\ m.type = "=" /\ m.value # "" /\ <<m.name, m.value>> \in Name \X Val
    BY <2>4 DEF Indexed
  <2>6. ASSUME NEW r \in DOMAIN series, MatchesAll(series[r].labels, ms)
        PROVE  r \in best
    <3>1. Get(series[r].labels, m.name) = m.value
      BY <2>5, <2>6 DEF MatchesAll, Accepts
    <3>2. m.name \in DOMAIN series[r].labels /\ series[r].labels[m.name] = m.value
      BY <3>1, <2>5 DEF Get
    <3>3. <<m.name, m.value>> \in Pairs(series[r].labels)
      BY <3>2 DEF Pairs
    <3>4. r \in Ref
      BY <1>t, Parts
    <3> QED
      BY <3>3, <3>4, <2>4, <2>5, <1>t DEF PostingsExact
  <2> HIDE DEF usable
  <2> QED
    BY <1>0, <1>2, <2>6 DEF Selected
<1> QED
  BY <1>1, <1>2

\* A query finds what a scan finds.
LEMMA Complete == IndexInv => QueryComplete
<1> SUFFICES ASSUME IndexInv, NEW ms \in SUBSET Matcher,
                    NEW mint \in Time, NEW maxt \in {t \in Time : mint <= t}
             PROVE  Query(mint, maxt, ms) = Found(mint, maxt, ms)
  BY DEF QueryComplete
<1>a. \A k \in Matcher : k.name \in Name /\ k.value \in Val
  BY MatcherAssumption
<1> DEFINE S == {k \in DOMAIN series : MatchesAll(series[k].labels, ms)}
<1>1. Selected(ms) = S
  <2>1. \A k \in Indexed(ms) : k.name \in Name /\ k.value \in Val
    BY <1>a DEF Indexed
  <2> QED
    BY <2>1, SelectedExact
<1>2. \A r \in S : SamplesInRange(series[r].samples, mint, maxt) = Scan(series[r].samples, mint, maxt)
  BY SeriesAscend, RangeIsScan, TimeAssumption
<1> HIDE DEF S
<1>3. {[ref |-> r, samples |-> SamplesInRange(series[r].samples, mint, maxt)] : r \in S}
        = {[ref |-> r, samples |-> Scan(series[r].samples, mint, maxt)] : r \in S}
  BY <1>2
<1> QED
  BY <1>1, <1>3 DEF Query, Found, S

\* A listed value selects something.
LEMMA Selectable == IndexInv => ValuesSelectable
<1> SUFFICES ASSUME IndexInv, NEW m \in Matcher, NEW n \in LabelNames({m}), NEW v \in LabelValues(n, {m})
             PROVE  Selected({m, [type |-> "=", name |-> n, value |-> v, re |-> {}]}) # {}
  BY DEF ValuesSelectable
<1> DEFINE eq == [type |-> "=", name |-> n, value |-> v, re |-> {}]
<1>t. TypeOK
  BY DEF IndexInv
<1>m. m.name \in Name /\ m.value \in Val
  BY MatcherAssumption
<1>1. Selected({m}) = {r \in DOMAIN series : MatchesAll(series[r].labels, {m})}
  <2>1. \A k \in Indexed({m}) : k.name \in Name /\ k.value \in Val
    BY <1>m DEF Indexed
  <2> QED
    BY <2>1, SelectedExact
<1>2. PICK r \in DOMAIN series : MatchesAll(series[r].labels, {m}) /\ Get(series[r].labels, n) = v /\ v # ""
  BY <1>1 DEF LabelValues
<1>3. n \in DOMAIN series[r].labels /\ series[r].labels[n] = v /\ series[r].labels \in Label
  BY <1>t, <1>2, Parts DEF Get
<1>4. n \in Name /\ v \in Val
  BY <1>3, LabelAssumption
<1>5. eq.type = "=" /\ eq.name = n /\ eq.value = v
  OBVIOUS
<1> HIDE DEF eq
<1>6. Selected({m, eq}) = {k \in DOMAIN series : MatchesAll(series[k].labels, {m, eq})}
  <2>1. \A k \in Indexed({m, eq}) : k.name \in Name /\ k.value \in Val
    BY <1>m, <1>4, <1>5 DEF Indexed
  <2> QED
    BY <2>1, SelectedExact
<1>7. MatchesAll(series[r].labels, {m, eq})
  <2>1. Accepts(m, Get(series[r].labels, m.name))
    BY <1>2 DEF MatchesAll
  <2>2. Accepts(eq, Get(series[r].labels, eq.name))
    BY <1>2, <1>5 DEF Accepts
  <2> QED
    BY <2>1, <2>2 DEF MatchesAll
<1> QED
  BY <1>6, <1>7 DEF eq

\* QueriesAgree: the index and the bisections lose nothing, listed values can be selected,
\* and samples ascend, in every state.
THEOREM QueriesStayComplete == Spec => []QueriesAgree
<1>1. IndexInv => QueriesAgree
  BY Complete, Selectable DEF QueriesAgree, IndexInv
<1> QED
  BY <1>1, IndexInvariant, PTL

-----------------------------------------------------------------------------
(* Module Head *)

\* The map as module Head sees it.
Mapped == [r \in DOMAIN series |-> [labels |-> series[r].labels, samples |-> AsFunction(series[r].samples)]]

\* An empty slice stands for the empty function.
LEMMA EmptyFunction == AsFunction(<<>>) = H!NoSamples
<1>1. DOMAIN <<>> = {}
  OBVIOUS
<1>2. Times(<<>>) = {}
  BY <1>1 DEF Times
<1> QED
  BY <1>2 DEF AsFunction, H!NoSamples

\* The cap counts the series of the map.
LEMMA SameCardinality == \A S : H!Cardinality(S) = Cardinality(S)
BY Zenon DEF H!Cardinality, Cardinality

\* insertLocked adds an empty series to the map.
LEMMA InsertedMapped ==
    ASSUME NEW ref, NEW l, InsertLocked(ref, l)
    PROVE  Mapped' = H!Inserted(ref, l)
<1>1. /\ DOMAIN series' = DOMAIN series \cup {ref}
      /\ \A r \in DOMAIN series' : series'[r] = IF r = ref THEN [labels |-> l, samples |-> <<>>] ELSE series[r]
  BY DEF InsertLocked
<1>2. Mapped' = [r \in DOMAIN series' |-> [labels |-> series'[r].labels, samples |-> AsFunction(series'[r].samples)]]
  BY DEF Mapped, AsFunction, Times
<1>3. H!Inserted(ref, l) =
        [r \in DOMAIN series \cup {ref} |->
            IF r = ref THEN [labels |-> l, samples |-> H!NoSamples]
            ELSE [labels |-> series[r].labels, samples |-> AsFunction(series[r].samples)]]
  BY DEF H!Inserted
<1>4. \A r \in DOMAIN series' :
        [labels |-> series'[r].labels, samples |-> AsFunction(series'[r].samples)]
        = IF r = ref THEN [labels |-> l, samples |-> H!NoSamples]
          ELSE [labels |-> series[r].labels, samples |-> AsFunction(series[r].samples)]
  BY <1>1, EmptyFunction
<1> QED
  BY <1>1, <1>2, <1>3, <1>4

\* Every step of the data structures is a step of module Head, or a stutter.
LEMMA StepMapped ==
    ASSUME IndexInv, [Next]_vars
    PROVE  [IF mode = "replay" THEN H!HeadReplay ELSE H!HeadInUse]_(H!headVars)
<1> DEFINE A == IF mode = "replay" THEN H!HeadReplay ELSE H!HeadInUse
<1>t. TypeOK
  BY DEF IndexInv
<1>d. DOMAIN Mapped = DOMAIN series
  BY DEF Mapped
<1>1. ASSUME NEW l \in Label, Create(l)
      PROVE  A
  <2>1. H!RefsOf(l) = {}
    BY <1>1, Looked DEF LookupAgrees, Create
  <2>2. MaxSeries > 0 => Cardinality(DOMAIN Mapped) < MaxSeries
    BY <1>1, <1>d DEF Create
  <2>3. Mapped' = H!Inserted(lastRef + 1, l) /\ lastRef' = lastRef + 1
    BY <1>1, InsertedMapped DEF Create
  <2>4. H!Created(l, lastRef + 1)
    BY <2>1, <2>2, <2>3, SameCardinality DEF H!Created, Mapped
  <2> QED
    BY <1>1, <2>4 DEF H!HeadInUse, Create
<1>2. ASSUME NEW l \in Label, NEW ref \in Ref, AddSeriesWithRef(ref, l)
      PROVE  A
  <2>1. Mapped' = H!Inserted(ref, l) /\ ref \notin DOMAIN Mapped
        /\ lastRef' = IF ref > lastRef THEN ref ELSE lastRef
    BY <1>2, <1>d, InsertedMapped DEF AddSeriesWithRef
  <2>2. H!AddSeriesWithRef(ref, l)
    BY <2>1 DEF H!AddSeriesWithRef, Mapped
  <2>3. ref \in DOMAIN Mapped'
    BY <2>1 DEF H!Inserted
  <2> QED
    BY <1>2, <2>2, <2>3 DEF H!HeadReplay, AddSeriesWithRef, Mapped
<1>3. ASSUME NEW ref \in Ref, NEW t \in Time, NEW v \in Value, AppendSample(ref, t, v)
      PROVE  A
  <2>1. ref \in DOMAIN series /\ lastRef' = lastRef
    BY <1>3 DEF AppendSample
  <2>2. series' = [r \in DOMAIN series |->
                      IF r = ref THEN [labels |-> series[r].labels,
                                       samples |-> WithSample(series[r].samples, t, v)]
                                 ELSE series[r]]
    BY <1>3, AppendKeeps
  <2>3. AsFunction(WithSample(series[ref].samples, t, v)) = H!WithSample(AsFunction(series[ref].samples), t, v)
    BY <2>1, SeriesAscend, WithSampleFunction
  <2>4. Mapped' = [r \in DOMAIN series' |-> [labels |-> series'[r].labels, samples |-> AsFunction(series'[r].samples)]]
    BY DEF Mapped, AsFunction, Times
  <2>5. \A r \in DOMAIN series :
          [labels |-> series'[r].labels, samples |-> AsFunction(series'[r].samples)]
          = IF r = ref THEN [labels |-> series[ref].labels,
                             samples |-> H!WithSample(AsFunction(series[ref].samples), t, v)]
            ELSE Mapped[r]
    BY <2>2, <2>3 DEF Mapped
  <2>6. Mapped' = [r \in DOMAIN Mapped |->
                     IF r = ref THEN [labels |-> series[ref].labels,
                                      samples |-> H!WithSample(AsFunction(series[ref].samples), t, v)]
                     ELSE Mapped[r]]
    BY <1>d, <2>2, <2>4, <2>5
  <2>7. Mapped[ref].labels = series[ref].labels /\ Mapped[ref].samples = AsFunction(series[ref].samples)
    BY <2>1 DEF Mapped
  <2>8. Mapped' = [Mapped EXCEPT ![ref] = [labels |-> Mapped[ref].labels,
                                           samples |-> H!WithSample(Mapped[ref].samples, t, v)]]
    <3>1. Mapped = [r \in DOMAIN Mapped |-> Mapped[r]]
      BY DEF Mapped
    <3> QED
      BY <1>d, <2>1, <2>6, <2>7, <3>1
  <2>9. H!AppendSample(ref, t, v)
    BY <1>d, <2>1, <2>8 DEF H!AppendSample, Mapped
  <2> QED
    BY <2>1, <2>9 DEF H!HeadReplay, H!HeadInUse
<1>4. ASSUME NEW t \in Time, Truncate(t)
      PROVE  A
  <2>t. t \in Int
    BY TimeAssumption
  <2>1. PICK gone : gone = {r \in DOMAIN series : From(series[r].samples, t) = <<>>}
    OBVIOUS
  <2>2. series' = [r \in DOMAIN series \ gone |->
                      [labels |-> series[r].labels, samples |-> From(series[r].samples, t)]]
        /\ lastRef' = lastRef /\ mode = "up"
    BY <1>4, <2>1 DEF Truncate
  <2>3. \A r \in DOMAIN series :
           /\ AsFunction(From(series[r].samples, t)) = H!From(AsFunction(series[r].samples), t)
           /\ r \in gone <=> ~\E u \in DOMAIN AsFunction(series[r].samples) : u >= t
    BY <2>t, <2>1, SeriesAscend, FromFunction
  <2> DEFINE kept == {r \in DOMAIN Mapped : \E u \in DOMAIN Mapped[r].samples : u >= t}
  <2>m. \A r \in DOMAIN series : Mapped[r].labels = series[r].labels /\ Mapped[r].samples = AsFunction(series[r].samples)
    BY DEF Mapped
  <2>4. kept = DOMAIN series \ gone
    BY <1>d, <2>m, <2>3
  <2>5. Mapped' = [r \in DOMAIN series' |-> [labels |-> series'[r].labels, samples |-> AsFunction(series'[r].samples)]]
    BY DEF Mapped, AsFunction, Times
  <2> HIDE DEF kept
  <2>6. \A r \in kept : [labels |-> series'[r].labels, samples |-> AsFunction(series'[r].samples)]
                         = [labels |-> Mapped[r].labels, samples |-> H!From(Mapped[r].samples, t)]
    BY <2>2, <2>3, <2>4, <2>m
  <2>7. Mapped' = [r \in kept |-> [labels |-> Mapped[r].labels, samples |-> H!From(Mapped[r].samples, t)]]
    BY <2>2, <2>4, <2>5, <2>6
  <2>8. H!TruncateHead(t)
    BY <2>2, <2>7 DEF H!TruncateHead, Mapped, kept
  <2> QED
    BY <2>2, <2>8 DEF H!HeadInUse
<1>5. ASSUME NEW ref \in Ref, ReclaimIfEmpty(ref)
      PROVE  A
  <2>1. series' = [r \in DOMAIN series \ {ref} |-> series[r]] /\ lastRef' = lastRef /\ mode = "up"
        /\ ref \in DOMAIN series /\ series[ref].samples = <<>>
    BY <1>5 DEF ReclaimIfEmpty
  <2>2. DOMAIN AsFunction(<<>>) = {}
    BY EmptyFunction DEF H!NoSamples
  <2>3. DOMAIN Mapped[ref].samples = {}
    BY <2>1, <2>2 DEF Mapped
  <2>4. Mapped' = [r \in DOMAIN series' |-> [labels |-> series'[r].labels, samples |-> AsFunction(series'[r].samples)]]
    BY DEF Mapped, AsFunction, Times
  <2>5. \A r \in DOMAIN series \ {ref} :
           [labels |-> series'[r].labels, samples |-> AsFunction(series'[r].samples)] = Mapped[r]
    BY <2>1 DEF Mapped
  <2>6. Mapped' = [r \in DOMAIN Mapped \ {ref} |-> Mapped[r]]
    BY <1>d, <2>1, <2>4, <2>5
  <2>7. H!ReclaimIfEmpty(ref)
    BY <1>d, <2>1, <2>3, <2>6 DEF H!ReclaimIfEmpty, H!Removed, Mapped
  <2> QED
    BY <2>1, <2>7 DEF H!HeadInUse
<1>6. ASSUME UNCHANGED <<series, lastRef>>
      PROVE  UNCHANGED H!headVars
  BY <1>6 DEF H!headVars, AsFunction, Times
<1> HIDE DEF A
<1>7. A \/ UNCHANGED <<series, lastRef>>
  BY <1>1, <1>2, <1>3, <1>4, <1>5 DEF Next, OpenDone, vars
<1> QED
  BY <1>6, <1>7 DEF A

\* ImplementsHead: the slices, the chains and the inverted index implement module Head,
\* on which the model of the storage engine is built.
THEOREM HeadRefinement == Spec => ImplementsHead
<1>1. Init => H!HeadInit
  BY DEF Init, H!HeadInit
<1>2. IndexInv /\ [Next]_vars => [IF mode = "replay" THEN H!HeadReplay ELSE H!HeadInUse]_(H!headVars)
  BY StepMapped
<1> QED
  BY <1>1, <1>2, IndexInvariant, PTL DEF Spec, ImplementsHead
=============================================================================
