----------------------------- MODULE Induction ------------------------------
(***************************************************************************)
(* Induction over the numbers, in the form of sets: what is to be shown of *)
(* a number is that it is in a set, which is a value and no operator.      *)
(***************************************************************************)
EXTENDS Integers, SequenceTheorems, WellFoundedInduction, FiniteSetTheorems, FunctionTheorems, TLAPS

\* A set of natural numbers that is not empty has a least element.
LEMMA LeastElement ==
    ASSUME NEW T \in SUBSET Nat, T # {}
    PROVE  \E m \in T : \A n \in T : m <= n
<1> DEFINE R == {ss \in Nat \X Nat : ss[1] < ss[2]}
<1>1. IsWellFoundedOn(R, Nat)
    BY NatLessThanWellFounded DEF OpToRel
<1>2. PICK m \in T : \A n \in T : ~(<<n, m>> \in R)
    BY <1>1, WFMin, Zenon
<1>3. ASSUME NEW n \in T
      PROVE  m <= n
    <2>1. n \in Nat /\ m \in Nat /\ ~(<<n, m>> \in R)
        BY <1>2
    <2>2. n < m => <<n, m>> \in R
        <3>1. <<n, m>> \in Nat \X Nat /\ <<n, m>>[1] = n /\ <<n, m>>[2] = m
            BY <2>1
        <3>2. QED
            BY <3>1
    <2> HIDE DEF R
    <2>3. QED
        BY <2>1, <2>2
<1>4. QED
    BY <1>3

\* A set that has 0, and the successor of each number below N it has, has all
\* the numbers up to N.
LEMMA UpTo ==
    ASSUME NEW N \in Nat, NEW S,
           0 \in S, \A k \in 0 .. N - 1 : k \in S => k + 1 \in S
    PROVE  \A k \in 0 .. N : k \in S
<1> DEFINE T == {k \in 0 .. N : k \notin S}
<1> SUFFICES ASSUME T # {} PROVE FALSE
    OBVIOUS
<1>1. PICK m \in T : \A n \in T : m <= n
    <2>1. T \in SUBSET Nat
        OBVIOUS
    <2> HIDE DEF T
    <2>2. QED
        BY <2>1, LeastElement
<1>2. m # 0 /\ m - 1 \in 0 .. N - 1
    OBVIOUS
<1>3. m - 1 \in S
    BY <1>1, <1>2
<1>4. (m - 1) + 1 \in S
    BY <1>2, <1>3
<1>5. QED
    BY <1>2, <1>4

\* f is the values that the N steps take from a.
IsRun(f, N, X, a, steps) ==
    f \in [0 .. N -> X] /\ f[0] = a /\ \A k \in 1 .. N : f[k] = steps[k][f[k - 1]]

\* Steps from a set into itself can be taken one after the other from any element.
LEMMA Runs ==
    ASSUME NEW N \in Nat, NEW X, NEW a \in X, NEW steps \in [1 .. N -> [X -> X]]
    PROVE  \E f : IsRun(f, N, X, a, steps)
<1> DEFINE RunOf(n, f) == f[0] = a /\ \A k \in 1 .. n : f[k] = steps[k][f[k - 1]]
           S == {n \in 0 .. N : \E f \in [0 .. n -> X] : RunOf(n, f)}
<1>1. 0 \in S
    <2>1. [k \in 0 .. 0 |-> a] \in [0 .. 0 -> X] /\ RunOf(0, [k \in 0 .. 0 |-> a])
        OBVIOUS
    <2>2. QED
        <3> HIDE DEF RunOf
        <3>1. QED
            BY <2>1
<1>2. ASSUME NEW n \in 0 .. N - 1, n \in S
      PROVE  n + 1 \in S
    <2>1. PICK f \in [0 .. n -> X] : RunOf(n, f)
        BY <1>2
    <2> DEFINE g == [k \in 0 .. n + 1 |-> IF k <= n THEN f[k] ELSE steps[n + 1][f[n]]]
    <2>2. g \in [0 .. n + 1 -> X]
        <3>1. n + 1 \in 1 .. N /\ f[n] \in X
            OBVIOUS
        <3>2. steps[n + 1][f[n]] \in X
            BY <3>1
        <3>3. QED
            BY <3>2
    <2>3. RunOf(n + 1, g)
        <3>1. g[0] = a
            BY <2>1
        <3>2. ASSUME NEW k \in 1 .. n + 1
              PROVE  g[k] = steps[k][g[k - 1]]
            BY <2>1
        <3>3. QED
            BY <3>1, <3>2
    <2> HIDE DEF g, RunOf
    <2>4. QED
        BY <2>2, <2>3
<1> HIDE DEF S, RunOf
<1>3. \A k \in 0 .. N : k \in S
    BY <1>1, <1>2, UpTo
<1>4. N \in S
    BY <1>3
<1>5. QED
    BY <1>4 DEF S, RunOf, IsRun

\* f is the values that step takes from a, N times over.
IsIteration(f, N, X, a, step) ==
    f \in [0 .. N -> X] /\ f[0] = a /\ \A k \in 1 .. N : f[k] = step[f[k - 1]]

\* The same with one step.
LEMMA Iterates ==
    ASSUME NEW N \in Nat, NEW X, NEW a \in X, NEW step \in [X -> X]
    PROVE  \E f : IsIteration(f, N, X, a, step)
<1>1. [k \in 1 .. N |-> step] \in [1 .. N -> [X -> X]]
    OBVIOUS
<1>2. \E f : IsRun(f, N, X, a, [k \in 1 .. N |-> step])
    BY <1>1, Runs
<1>3. QED
    BY <1>2 DEF IsRun, IsIteration

\* f is the sums of the numbers c.
IsSum(f, N, c) ==
    f \in [0 .. N -> Nat] /\ f[0] = 0 /\ \A k \in 1 .. N : f[k] = f[k - 1] + c[k]

\* Numbers can be summed up.
LEMMA Sums ==
    ASSUME NEW N \in Nat, NEW c \in [1 .. N -> Nat]
    PROVE  \E f : IsSum(f, N, c)
<1> DEFINE steps == [k \in 1 .. N |-> [x \in Nat |-> x + c[k]]]
<1>1. steps \in [1 .. N -> [Nat -> Nat]]
    OBVIOUS
<1>2. PICK f : IsRun(f, N, Nat, 0, steps)
    <2> HIDE DEF steps
    <2>1. QED
        BY <1>1, Runs
<1>3. ASSUME NEW k \in 1 .. N
      PROVE  f[k] = f[k - 1] + c[k]
    <2>1. k - 1 \in 0 .. N /\ f[k - 1] \in Nat
        BY <1>2 DEF IsRun
    <2>2. f[k] = steps[k][f[k - 1]]
        BY <1>2 DEF IsRun
    <2>3. QED
        BY <2>1, <2>2
<1>4. QED
    <2> HIDE DEF steps
    <2>1. QED
        BY <1>2, <1>3 DEF IsRun, IsSum

\* f grows, and the numbers up to it are those of each summand, one after the other.
Cumulates(f, N, c) ==
    \A l \in 0 .. N :
        /\ f[l] \in Nat
        /\ \A k \in 0 .. l : f[k] <= f[l]
        /\ \A j \in 1 .. f[l] : \E k \in 1 .. l : \E i \in 1 .. c[k] : j = f[k - 1] + i

\* What sums do.
LEMMA SumsGrow ==
    ASSUME NEW N \in Nat, NEW c \in [1 .. N -> Nat], NEW f, IsSum(f, N, c)
    PROVE  Cumulates(f, N, c)
<1> DEFINE Grows(l) == \A k \in 0 .. l : f[k] <= f[l]
           Covers(l) == \A j \in 1 .. f[l] : \E k \in 1 .. l : \E i \in 1 .. c[k] : j = f[k - 1] + i
           S == {l \in 0 .. N : Grows(l) /\ Covers(l)}
<1>1. \A l \in 0 .. N : f[l] \in Nat
    BY DEF IsSum
<1>2. 0 \in S
    <2>1. f[0] = 0
        BY DEF IsSum
    <2>2. Grows(0) /\ Covers(0)
        BY <2>1
    <2> HIDE DEF Grows, Covers
    <2>3. QED
        BY <2>2
<1>3. ASSUME NEW l \in 0 .. N - 1, l \in S
      PROVE  l + 1 \in S
    <2>1. f[l + 1] = f[l] + c[l + 1] /\ f[l] \in Nat /\ c[l + 1] \in Nat
        <3>1. l + 1 \in 1 .. N /\ (l + 1) - 1 = l /\ l \in 0 .. N
            OBVIOUS
        <3>2. QED
            BY <1>1, <3>1 DEF IsSum
    <2>2. Grows(l) /\ Covers(l)
        BY <1>3
    <2>3. Grows(l + 1)
        <3>1. ASSUME NEW k \in 0 .. l + 1
              PROVE  f[k] <= f[l + 1]
            <4>1. CASE k = l + 1
                BY <1>1, <2>1, <4>1
            <4>2. CASE k # l + 1
                <5>1. k \in 0 .. l /\ f[k] \in Nat
                    BY <1>1, <4>2
                <5>2. f[k] <= f[l]
                    BY <2>2, <5>1
                <5>3. QED
                    BY <2>1, <5>1, <5>2
            <4>3. QED
                BY <4>1, <4>2
        <3>2. QED
            BY <3>1
    <2>4. Covers(l + 1)
        <3>1. ASSUME NEW j \in 1 .. f[l + 1]
              PROVE  \E k \in 1 .. l + 1 : \E i \in 1 .. c[k] : j = f[k - 1] + i
            <4>1. CASE j <= f[l]
                <5>1. j \in 1 .. f[l]
                    BY <2>1, <4>1
                <5>2. \E k \in 1 .. l : \E i \in 1 .. c[k] : j = f[k - 1] + i
                    BY <2>2, <5>1
                <5>3. QED
                    BY <5>2
            <4>2. CASE j > f[l]
                <5>1. j - f[l] \in 1 .. c[l + 1] /\ j = f[(l + 1) - 1] + (j - f[l])
                    BY <2>1, <4>2
                <5>2. l + 1 \in 1 .. l + 1
                    OBVIOUS
                <5>3. QED
                    BY <5>1, <5>2
            <4>3. QED
                BY <2>1, <4>1, <4>2
        <3>2. QED
            BY <3>1
    <2> HIDE DEF Grows, Covers
    <2>5. QED
        BY <2>3, <2>4
<1>4. \A l \in 0 .. N : l \in S
    <2> HIDE DEF S
    <2>1. QED
        BY <1>2, <1>3, UpTo
<1>5. QED
    BY <1>1, <1>4 DEF Cumulates

\* Powers of two, by counting: a set has twice as many subsets with one more element.
LEMMA Doubling ==
    ASSUME NEW n \in Nat
    PROVE  2 ^ (n + 1) = 2 * 2 ^ n /\ 2 ^ n \in Nat
<1> DEFINE S == 1 .. n
           T == 1 .. n + 1
           with == {x \cup {n + 1} : x \in SUBSET S}
           add == [x \in SUBSET S |-> x \cup {n + 1}]
<1>1. /\ IsFiniteSet(S) /\ Cardinality(S) = n
      /\ IsFiniteSet(T) /\ Cardinality(T) = n + 1
  BY FS_Interval
<1>2. /\ IsFiniteSet(SUBSET S) /\ Cardinality(SUBSET S) = 2 ^ n
      /\ Cardinality(SUBSET T) = 2 ^ (n + 1)
  BY <1>1, FS_SUBSET
<1>3. add \in Bijection(SUBSET S, with)
  <2>1. add \in [SUBSET S -> with]
    OBVIOUS
  <2>2. ASSUME NEW x \in SUBSET S, NEW y \in SUBSET S, add[x] = add[y] PROVE x = y
    <3>1. n + 1 \notin x /\ n + 1 \notin y
      OBVIOUS
    <3>2. x \cup {n + 1} = y \cup {n + 1}
      BY <2>2
    <3> QED BY <3>1, <3>2
  <2>3. \A t \in with : \E x \in SUBSET S : add[x] = t
    OBVIOUS
  <2> QED BY <2>1, <2>2, <2>3, Fun_IsBij
<1>4. IsFiniteSet(with) /\ Cardinality(with) = 2 ^ n
  <2>1. ExistsBijection(SUBSET S, with)
    BY <1>3 DEF ExistsBijection
  <2> QED BY <1>2, <2>1, FS_Bijection
<1>5. SUBSET T = (SUBSET S) \cup with
  <2>1. ASSUME NEW x \in SUBSET T, n + 1 \in x PROVE x \in with
    <3>1. x \ {n + 1} \in SUBSET S /\ x = (x \ {n + 1}) \cup {n + 1}
      BY <2>1
    <3> QED BY <3>1
  <2>2. ASSUME NEW x \in SUBSET T, n + 1 \notin x PROVE x \in SUBSET S
    BY <2>2
  <2>3. S \subseteq T /\ n + 1 \in T
    OBVIOUS
  <2>4. ASSUME NEW x \in with PROVE x \in SUBSET T
    <3>1. PICK y \in SUBSET S : x = y \cup {n + 1}
      OBVIOUS
    <3> HIDE DEF S, T
    <3> QED BY <2>3, <3>1
  <2>5. SUBSET S \subseteq SUBSET T
    <3> HIDE DEF S, T
    <3> QED BY <2>3
  <2> DEFINE small == SUBSET S
             large == SUBSET T
  <2>6. \A x : x \in large <=> x \in small \/ x \in with
    BY <2>1, <2>2, <2>4, <2>5
  <2>7. large = small \cup with
    <3> HIDE DEF small, large, with
    <3> QED BY <2>6
  <2> QED BY <2>7
<1>6. (SUBSET S) \cap with = {}
  <2>1. ASSUME NEW x \in SUBSET S, x \in with PROVE FALSE
    <3>1. n + 1 \in x
      BY <2>1
    <3>2. n + 1 \notin S
      OBVIOUS
    <3> QED BY <3>1, <3>2
  <2> DEFINE small == SUBSET S
  <2>2. \A x \in small : x \notin with
    BY <2>1
  <2>3. small \cap with = {}
    <3> HIDE DEF small, with
    <3> QED BY <2>2
  <2> QED BY <2>3
<1> HIDE DEF S, T, with
<1>7. Cardinality((SUBSET S) \cup with) = 2 ^ n + 2 ^ n - Cardinality({})
  BY <1>2, <1>4, <1>6, FS_Union
<1>8. Cardinality({}) = 0 /\ 2 ^ n \in Nat
  BY <1>2, FS_EmptySet, FS_CardinalityType
<1>9. 2 ^ (n + 1) = 2 ^ n + 2 ^ n - 0
  BY <1>2, <1>5, <1>7, <1>8
<1> QED BY <1>8, <1>9

\* Halving l times and once more is halving l + 1 times.
LEMMA Halving ==
    ASSUME NEW q \in Nat, NEW l \in Nat
    PROVE  /\ (q \div 2 ^ l) \div 2 = q \div 2 ^ (l + 1)
           /\ q \div 2 ^ l \in Nat /\ q \div 2 ^ 0 = q /\ 2 ^ l \in Nat \ {0}
<1>1. 2 ^ 0 = 1
  OBVIOUS
<1> DEFINE S == {k \in 0 .. l + 1 : 2 ^ k \in Nat \ {0}}
<1>2. 0 \in S
  BY <1>1
<1>3. ASSUME NEW k \in 0 .. l, k \in S
      PROVE  k + 1 \in S
  <2>1. 2 ^ (k + 1) = 2 * 2 ^ k
    BY Doubling
  <2> DEFINE w == 2 ^ k
  <2>2. w \in Nat \ {0}
    BY <1>3
  <2> HIDE DEF w
  <2>3. 2 * w \in Nat \ {0}
    BY <2>2
  <2> QED BY <2>1, <2>3 DEF w
<1>4. l \in S /\ l + 1 \in Nat
  <2>1. l + 1 \in Nat /\ (l + 1) - 1 = l
    OBVIOUS
  <2> HIDE DEF S
  <2>2. \A k \in 0 .. l + 1 : k \in S
    BY <1>2, <1>3, <2>1, UpTo
  <2> QED BY <2>1, <2>2
<1>5. 2 ^ (l + 1) = 2 * 2 ^ l /\ 2 ^ l \in Nat \ {0}
  BY <1>4, Doubling
<1>6. \A a \in Nat \ {0} : (q \div a) \div 2 = q \div (2 * a) /\ q \div a \in Nat
  <2> SUFFICES ASSUME NEW a \in Nat \ {0}
               PROVE  (q \div a) \div 2 = q \div (2 * a) /\ q \div a \in Nat
    OBVIOUS
  <2> DEFINE k == q \div a
             r == q % a
             j == k \div 2
             s == k % 2
  <2>1. q = a * k + r /\ k \in Nat /\ r \in 0 .. a - 1
    OBVIOUS
  <2>2. k = 2 * j + s /\ j \in Nat /\ s \in 0 .. 1
    BY <2>1
  <2> HIDE DEF k, r, j, s
  <2>3. q = (2 * a) * j + (a * s + r)
    BY <2>1, <2>2
  <2>4. a * s + r \in 0 .. 2 * a - 1
    BY <2>1, <2>2
  <2> DEFINE b == 2 * a
             t == a * s + r
  <2>5. b \in Nat \ {0} /\ t \in 0 .. b - 1 /\ q = b * j + t
    BY <2>3, <2>4
  <2> HIDE DEF b, t
  <2>6. q \div b = j
    BY <2>2, <2>5
  <2> QED BY <2>1, <2>6 DEF b, k, j
<1>7. q \div 1 = q
  OBVIOUS
<1> DEFINE w == 2 ^ l
<1>8. w \in Nat \ {0} /\ 2 ^ (l + 1) = 2 * w
  BY <1>5
<1> HIDE DEF w
<1>9. (q \div w) \div 2 = q \div 2 ^ (l + 1) /\ q \div w \in Nat
  BY <1>6, <1>8
<1> QED BY <1>1, <1>5, <1>7, <1>9 DEF w

\* Division keeps the order.
LEMMA DivisionOrdered ==
    ASSUME NEW a \in Nat, NEW b \in Nat, NEW w \in Nat \ {0}, a <= b
    PROVE  a \div w <= b \div w
<1> DEFINE p == a \div w
           q == b \div w
<1>1. p \in Nat /\ p * w <= a /\ q \in Nat /\ b < q * w + w
  BY SMT
<1> HIDE DEF p, q
<1>2. ASSUME q < p
      PROVE  FALSE
  <2>1. PICK d \in Nat : p = q + 1 + d
    <3>1. p - q - 1 \in Nat /\ p = q + 1 + (p - q - 1)
      BY <1>1, <1>2
    <3>2. QED
      BY <3>1
  <2>2. p * w = q * w + w + d * w /\ d * w \in Nat /\ q * w \in Nat
    BY <1>1, <2>1
  <2>3. QED
    BY <1>1, <2>2
<1>3. QED
  BY <1>1, <1>2 DEF p, q

\* Sequences laid end to end: f is what is joined after each of the n sequences.
IsJoin(f, n, S, seqs) ==
    f \in [0 .. n -> Seq(S)] /\ f[0] = <<>> /\ \A k \in 1 .. n : f[k] = f[k - 1] \o seqs[k]

\* The recursion FlattenSeq is made of.
Joining(h, n, seqs) == [k \in 1 .. n |-> IF k = 1 THEN seqs[k] ELSE h[k - 1] \o seqs[k]]

\* It joins them one by one.
LEMMA Concatenated ==
    ASSUME NEW S, NEW n \in Nat \ {0}, NEW seqs \in [1 .. n -> Seq(S)]
    PROVE  \E f : IsJoin(f, n, S, seqs) /\ (CHOOSE h : h = Joining(h, n, seqs))[n] = f[n]
<1> DEFINE steps == [k \in 1 .. n |-> [x \in Seq(S) |-> x \o seqs[k]]]
           Body(h) == [k \in 1 .. n |-> IF k = 1 THEN seqs[k] ELSE h[k - 1] \o seqs[k]]
<1>1. steps \in [1 .. n -> [Seq(S) -> Seq(S)]]
  OBVIOUS
<1>2. PICK f : IsRun(f, n, Seq(S), <<>>, steps)
  <2> HIDE DEF steps
  <2>1. <<>> \in Seq(S) /\ n \in Nat
    OBVIOUS
  <2>2. QED
    BY <1>1, <2>1, Runs
<1>3. ASSUME NEW k \in 1 .. n
      PROVE  f[k] = f[k - 1] \o seqs[k]
  <2>1. k - 1 \in 0 .. n /\ f[k - 1] \in Seq(S)
    BY <1>2 DEF IsRun
  <2>2. f[k] = steps[k][f[k - 1]]
    BY <1>2 DEF IsRun
  <2>3. QED
    BY <2>1, <2>2
<1>4. IsJoin(f, n, S, seqs)
  <2> HIDE DEF steps
  <2>1. QED
    BY <1>2, <1>3 DEF IsRun, IsJoin
<1> DEFINE g == [k \in 1 .. n |-> f[k]]
<1>5. g = Body(g)
  <2>1. ASSUME NEW k \in 1 .. n
        PROVE  g[k] = Body(g)[k]
    <3>1. CASE k = 1
      <4>1. f[k] = f[k - 1] \o seqs[k] /\ k - 1 = 0 /\ seqs[k] \in Seq(S)
        BY <1>3, <3>1
      <4>2. <<>> \o seqs[k] = seqs[k]
        BY <4>1, ConcatEmptySeq
      <4>3. f[k - 1] = <<>>
        BY <1>4, <4>1 DEF IsJoin
      <4>4. f[k] = seqs[k]
        BY <4>1, <4>2, <4>3
      <4>5. QED
        BY <3>1, <4>4
    <3>2. CASE k # 1
      <4>1. k - 1 \in 1 .. n
        BY <3>2
      <4>2. QED
        BY <1>3, <3>2, <4>1
    <3>3. QED
      BY <3>1, <3>2
  <2>2. DOMAIN g = 1 .. n /\ DOMAIN Body(g) = 1 .. n
    OBVIOUS
  <2>3. g = [k \in 1 .. n |-> g[k]] /\ Body(g) = [k \in 1 .. n |-> Body(g)[k]]
    OBVIOUS
  <2> HIDE DEF g, Body
  <2>4. QED
    BY <2>1, <2>3
<1> DEFINE fl == CHOOSE h : h = Body(h)
<1>6. fl = Body(fl)
  <2> HIDE DEF g, Body
  <2>1. QED
    BY <1>5
<1>8. (CHOOSE h : h = Joining(h, n, seqs)) = fl
  BY Zenon DEF Joining
<1>9. n \in {k \in 0 .. n : k = 0 \/ fl[k] = f[k]}
  <2> DEFINE T == {k \in 0 .. n : k = 0 \/ fl[k] = f[k]}
  <2>1. 0 \in T
    OBVIOUS
  <2>2. ASSUME NEW k \in 0 .. n - 1, k \in T
        PROVE  k + 1 \in T
    <3>1. k + 1 \in 1 .. n /\ (k + 1) - 1 = k
      OBVIOUS
    <3>2. fl[k + 1] = IF k + 1 = 1 THEN seqs[k + 1] ELSE fl[k] \o seqs[k + 1]
      <4> HIDE DEF fl
      <4>1. QED
        BY <1>6, <3>1
    <3>3. f[k + 1] = f[k] \o seqs[k + 1]
      BY <1>3, <3>1
    <3>4. CASE k = 0
      <4>1. f[k] = <<>> /\ seqs[k + 1] \in Seq(S)
        BY <1>4, <3>1, <3>4 DEF IsJoin
      <4>2. <<>> \o seqs[k + 1] = seqs[k + 1]
        BY <4>1, ConcatEmptySeq
      <4>3. fl[k + 1] = f[k + 1]
        <5> HIDE DEF fl
        <5>1. QED
          BY <3>2, <3>3, <3>4, <4>1, <4>2
      <4>4. QED
        BY <3>1, <4>3
    <3>5. CASE k # 0
      <4>1. fl[k] = f[k]
        BY <2>2, <3>5
      <4>2. k + 1 # 1
        BY <3>5
      <4>3. fl[k + 1] = f[k + 1]
        <5> HIDE DEF fl
        <5>1. QED
          BY <3>2, <3>3, <4>1, <4>2
      <4>4. QED
        BY <3>1, <4>3
    <3>6. QED
      BY <3>4, <3>5
  <2>3. \A k \in 0 .. n : k \in T
    <3> HIDE DEF T
    <3>1. QED
      BY <2>1, <2>2, UpTo
  <2>4. n \in 0 .. n
    OBVIOUS
  <2>5. QED
    <3> HIDE DEF T
    <3>1. n \in T
      BY <2>3, <2>4
    <3>2. QED
      BY <3>1 DEF T
<1>10. QED
  <2>1. n # 0 /\ fl[n] = f[n]
    <3> HIDE DEF fl
    <3>1. QED
      BY <1>9
  <2> HIDE DEF fl
  <2>2. QED
    BY <1>4, <1>8, <2>1

\* Powers of two.
LEMMA Powers ==
    ASSUME NEW a \in Nat, NEW b \in Nat
    PROVE  2 ^ (a + b) = 2 ^ a * 2 ^ b
<1> DEFINE S == {k \in 0 .. b : 2 ^ (a + k) = 2 ^ a * 2 ^ k}
           w == 2 ^ a
<1>1. w \in Nat
  BY Halving
<1>2. 0 \in S
  <2>1. 2 ^ 0 = 1 /\ a + 0 = a /\ w * 1 = w
    BY <1>1
  <2>2. QED
    BY <2>1
<1>3. ASSUME NEW k \in 0 .. b - 1, k \in S
      PROVE  k + 1 \in S
  <2>1. a + (k + 1) = (a + k) + 1 /\ a + k \in Nat /\ k \in Nat /\ k + 1 \in 0 .. b
    OBVIOUS
  <2>2. 2 ^ ((a + k) + 1) = 2 * 2 ^ (a + k) /\ 2 ^ (k + 1) = 2 * 2 ^ k /\ 2 ^ k \in Nat
    BY <2>1, Doubling
  <2>3. 2 ^ (a + k) = w * 2 ^ k
    BY <1>3
  <2> DEFINE x == 2 ^ k
             y == 2 ^ (k + 1)
             z == 2 ^ (a + k)
  <2>4. x \in Nat /\ y = 2 * x /\ z = w * x /\ 2 ^ (a + (k + 1)) = 2 * z
    BY <2>1, <2>2, <2>3
  <2> HIDE DEF x, y, z, w
  <2>5. 2 * z = w * y
    BY <1>1, <2>4
  <2>6. 2 ^ (a + (k + 1)) = 2 ^ a * 2 ^ (k + 1)
    BY <2>4, <2>5 DEF w, y
  <2>7. QED
    BY <2>1, <2>6
<1>4. b \in S
  <2> HIDE DEF S
  <2>1. \A k \in 0 .. b : k \in S
    BY <1>2, <1>3, UpTo
  <2>2. QED
    BY <2>1
<1>5. QED
  BY <1>4

\* Multiples.
LEMMA Multiples ==
    ASSUME NEW q \in Nat, NEW w \in Nat \ {0}
    PROVE  (q * w) \div w = q /\ q * w \in Nat
<1> DEFINE n == q * w
           r == n \div w
<1>1. n \in Nat
  OBVIOUS
<1>2. r \in Nat /\ r * w <= n /\ n < r * w + w
  <2> HIDE DEF n
  <2>1. QED
    BY <1>1
<1> HIDE DEF r
<1>3. r <= q
  <2>1. ASSUME q < r
        PROVE  FALSE
    <3>1. PICK d \in Nat : r = q + 1 + d
      <4>1. r - q - 1 \in Nat /\ r = q + 1 + (r - q - 1)
        BY <1>2, <2>1
      <4>2. QED
        BY <4>1
    <3>2. r * w = q * w + w + d * w /\ d * w \in Nat
      BY <3>1
    <3>3. QED
      BY <1>1, <1>2, <3>2
  <2>2. QED
    BY <1>2, <2>1
<1>4. q <= r
  <2>1. ASSUME r < q
        PROVE  FALSE
    <3>1. PICK d \in Nat : q = r + 1 + d
      <4>1. q - r - 1 \in Nat /\ q = r + 1 + (q - r - 1)
        BY <1>2, <2>1
      <4>2. QED
        BY <4>1
    <3>2. q * w = r * w + w + d * w /\ d * w \in Nat
      BY <1>2, <3>1
    <3>3. QED
      BY <1>1, <1>2, <3>2
  <2>2. QED
    BY <1>2, <2>1
<1>5. QED
  BY <1>1, <1>2, <1>3, <1>4 DEF r

\* Between multiples.
LEMMA Between ==
    ASSUME NEW w \in Nat \ {0}, NEW a \in Nat, NEW c \in Nat, NEW e \in Nat, a * w <= e, e < c * w
    PROVE  e \div w \in Nat /\ a <= e \div w /\ e \div w < c
<1> DEFINE q == e \div w
<1>1. q \in Nat /\ q * w <= e /\ e < q * w + w
  OBVIOUS
<1> HIDE DEF q
<1>2. a <= q
  <2>1. ASSUME q < a
        PROVE  FALSE
    <3>1. PICK d \in Nat : a = q + 1 + d
      <4>1. a - q - 1 \in Nat /\ a = q + 1 + (a - q - 1)
        BY <1>1, <2>1
      <4>2. QED
        BY <4>1
    <3>2. a * w = q * w + w + d * w /\ d * w \in Nat
      BY <1>1, <3>1
    <3>3. QED
      BY <1>1, <3>2
  <2>2. QED
    BY <1>1, <2>1
<1>3. q < c
  <2>1. ASSUME c <= q
        PROVE  FALSE
    <3>1. PICK d \in Nat : q = c + d
      <4>1. q - c \in Nat /\ q = c + (q - c)
        BY <1>1, <2>1
      <4>2. QED
        BY <4>1
    <3>2. q * w = c * w + d * w /\ d * w \in Nat /\ c * w \in Nat
      BY <3>1
    <3>3. QED
      BY <1>1, <3>2
  <2>2. QED
    BY <1>1, <2>1
<1>4. QED
  BY <1>1, <1>2, <1>3 DEF q

\* A power of two over one.
LEMMA PowersDivide ==
    ASSUME NEW h \in Nat, NEW l \in 0 .. h, NEW b \in Nat
    PROVE  /\ (b * 2 ^ h) \div 2 ^ l = b * 2 ^ (h - l) /\ b * 2 ^ h = (b * 2 ^ (h - l)) * 2 ^ l
           /\ 2 ^ h \div 2 ^ l = 2 ^ (h - l)
           /\ 2 ^ h = 2 ^ (h - l) * 2 ^ l
           /\ 2 ^ h \in Nat \ {0} /\ 2 ^ l \in Nat \ {0} /\ 2 ^ (h - l) \in Nat \ {0}
<1> DEFINE k == h - l
           x == 2 ^ h
           y == 2 ^ k
           w == 2 ^ l
<1>1. k \in Nat /\ l \in Nat /\ k + l = h
  OBVIOUS
<1>2. x \in Nat \ {0} /\ y \in Nat \ {0} /\ w \in Nat \ {0}
  <2> HIDE DEF k
  <2>1. QED
    BY <1>1, Halving
<1>3. x = y * w
  <2> HIDE DEF k
  <2>1. 2 ^ (k + l) = 2 ^ k * 2 ^ l
    BY <1>1, Powers
  <2>2. QED
    BY <1>1, <2>1
<1> HIDE DEF x, y, w
<1>4. b * x = (b * y) * w /\ b * y \in Nat
  BY <1>2, <1>3
<1>5. (b * x) \div w = b * y
  BY <1>2, <1>4, Multiples
<1>6. x \div w = y
  BY <1>2, <1>3, Multiples
<1>7. QED
  BY <1>2, <1>3, <1>4, <1>5, <1>6 DEF x, y, w, k
=============================================================================
