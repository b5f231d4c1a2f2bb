------------------------------ MODULE FillProofs ------------------------------
(***************************************************************************)
(* Proofs about Fill, for all sizes of blocks, floors, widths and limits,  *)
(* whatever the program has run and touched when it halts.                 *)
(*                                                                         *)
(* The solver first: dividing by each size in turn exhausts any number of  *)
(* rows, and taking a block of JUMPs never so that one row is left         *)
(* exhausts any gap but one; so a plan is always found and its counts are  *)
(* powers of two (PlanIsFound), and the one that is run reaches the        *)
(* witness that was asked for (PlanIs).                                    *)
(*                                                                         *)
(* Then its run. The cycles add up to the plan (CyclesAddUpIs), and a      *)
(* frame only ever holds what the dummies of its table leave in it (Clean) *)
(* so that a row reads the same words in every traversal and writes what   *)
(* is there already (DummyIs, FramesKept). With those FillInv is           *)
(* inductive: where in the plan the run is, how far its counts have got,   *)
(* and which frames are still untouched.                                   *)
(***************************************************************************)
EXTENDS Fill, Induction

-----------------------------------------------------------------------------
(***************************************************************************)
(* Totals and powers of two.                                               *)
(***************************************************************************)

\* The recursion of a total.
Summing(sum, f, n) == [k \in 0 .. n |-> IF k = 0 THEN 0 ELSE sum[k - 1] + f[k]]

\* The sums on the way to a total.
Partial(f) == CHOOSE sum : sum = Summing(sum, f, Len(f))

\* They are sums, and the total is the last.
LEMMA PartialIs ==
    ASSUME NEW n \in Nat, NEW f \in [1 .. n -> Nat]
    PROVE  IsSum(Partial(f), n, f) /\ Total(f) = Partial(f)[n]
<1> DEFINE h == Partial(f)
<1>1. Len(f) = n
  BY f \in Seq(Nat)
<1>2. PICK g : IsSum(g, n, f)
  BY Sums
<1>3. ASSUME NEW k \in 0 .. n
      PROVE  g[k] = IF k = 0 THEN 0 ELSE g[k - 1] + f[k]
  <2>1. k = 0 \/ k \in 1 .. n
    OBVIOUS
  <2>2. QED
    BY <1>2, <2>1 DEF IsSum
<1>4. g = Summing(g, f, n)
  <2>1. g = [k \in 0 .. n |-> g[k]]
    BY <1>2 DEF IsSum
  <2>2. QED
    BY <1>3, <2>1 DEF Summing
<1>5. h = Summing(h, f, n)
  BY <1>1, <1>4 DEF Partial
<1>6. Total(f) = h[n]
  <2>1. Total(f) = (CHOOSE sum : sum = Summing(sum, f, Len(f)))[Len(f)]
    BY Zenon DEF Total, Summing
  <2>2. QED
    BY <1>1, <2>1 DEF Partial
<1> HIDE DEF h
<1>7. \A k \in 0 .. n : h[k] = IF k = 0 THEN 0 ELSE h[k - 1] + f[k]
  BY <1>5 DEF Summing
<1> DEFINE S == {k \in 0 .. n : h[k] \in Nat}
<1>8. h[0] = 0
  <2>1. 0 \in 0 .. n
    OBVIOUS
  <2>2. h[0] = IF 0 = 0 THEN 0 ELSE h[0 - 1] + f[0]
    BY <1>7, <2>1, Zenon
  <2>3. QED
    BY <2>2
<1>9. ASSUME NEW k \in 1 .. n
      PROVE  h[k] = h[k - 1] + f[k]
  <2>1. k \in 0 .. n /\ k # 0
    OBVIOUS
  <2>2. QED
    BY <1>7, <2>1
<1>10. ASSUME NEW k \in 0 .. n - 1, k \in S
       PROVE  k + 1 \in S
  <2>1. k + 1 \in 1 .. n /\ k + 1 \in 0 .. n /\ (k + 1) - 1 = k
    OBVIOUS
  <2>2. h[k + 1] = h[k] + f[k + 1]
    BY <1>9, <2>1
  <2>3. QED
    BY <1>10, <2>1, <2>2
<1>11. \A k \in 0 .. n : k \in S
  <2>1. 0 \in S
    BY <1>8
  <2> HIDE DEF S
  <2>2. QED
    BY <1>10, <2>1, UpTo
<1>12. h \in [0 .. n -> Nat]
  <2>1. h = [k \in 0 .. n |-> IF k = 0 THEN 0 ELSE h[k - 1] + f[k]]
    BY <1>5 DEF Summing
  <2>2. h = [k \in 0 .. n |-> h[k]]
    BY <1>7, <2>1
  <2>3. QED
    BY <1>11, <2>2
<1>13. QED
  BY <1>6, <1>8, <1>9, <1>12 DEF IsSum, h

\* Powers of two grow.
LEMMA PowersGrow ==
    ASSUME NEW n \in Nat
    PROVE  /\ 2 ^ n \in Nat \ {0} /\ n < 2 ^ n
           /\ \A j \in 0 .. n : 2 ^ j \in Nat \ {0} /\ (j < n => 2 ^ j < 2 ^ n)
<1> DEFINE P(m) == 2 ^ m \in Nat \ {0} /\ m < 2 ^ m /\ \A j \in 0 .. m : 2 ^ j \in Nat \ {0} /\ (j < m => 2 ^ j < 2 ^ m)
           S == {m \in 0 .. n : P(m)}
<1>1. 0 \in S
  <2>1. 2 ^ 0 = 1 /\ 0 \in 0 .. n
    OBVIOUS
  <2>2. \A j \in 0 .. 0 : j = 0
    OBVIOUS
  <2>3. \A j \in 0 .. 0 : 2 ^ j \in Nat \ {0} /\ (j < 0 => 2 ^ j < 2 ^ 0)
    BY <2>1, <2>2
  <2>4. P(0)
    BY <2>1, <2>3
  <2> HIDE DEF P
  <2>5. QED
    BY <2>1, <2>4
<1>2. ASSUME NEW m \in 0 .. n - 1, m \in S
      PROVE  m + 1 \in S
  <2> DEFINE w == 2 ^ m
             v == 2 ^ (m + 1)
  <2>1. v = 2 * w /\ w \in Nat \ {0} /\ m < w
    BY <1>2, Doubling
  <2>2. \A j \in 0 .. m : 2 ^ j \in Nat \ {0} /\ 2 ^ j <= w
    BY <1>2
  <2> HIDE DEF w
  <2>3. v \in Nat \ {0} /\ m + 1 < v /\ w < v
    BY <2>1
  <2> HIDE DEF v
  <2>4. ASSUME NEW j \in 0 .. m + 1
        PROVE  2 ^ j \in Nat \ {0} /\ (j < m + 1 => 2 ^ j < v)
    <3>1. CASE j = m + 1
      BY <2>3, <3>1 DEF v
    <3>2. CASE j # m + 1
      <4>1. j \in 0 .. m
        BY <3>2
      <4>2. QED
        BY <2>1, <2>2, <2>3, <4>1
    <3>3. QED
      BY <3>1, <3>2
  <2>5. QED
    BY <2>3, <2>4 DEF v
<1>3. \A m \in 0 .. n : m \in S
  <2> HIDE DEF S
  <2>1. QED
    BY <1>1, <1>2, UpTo
<1>4. n \in S
  BY <1>3
<1>5. QED
  BY <1>4

\* The logarithm of a number, rounded up.
LEMMA LogIs ==
    ASSUME NEW n \in Nat
    PROVE  /\ Log2Ceil(n) \in 0 .. n /\ 2 ^ Log2Ceil(n) >= n
           /\ \A j \in 0 .. Log2Ceil(n) - 1 : 2 ^ j < n
<1> DEFINE T == {k \in 0 .. n : 2 ^ k >= n}
<1>1. \A k \in 0 .. n : 2 ^ k \in Nat
  BY PowersGrow
<1>2. n \in T
  BY PowersGrow
<1>3. PICK k \in T : \A m \in T : k <= m
  <2>1. T \in SUBSET Nat /\ T # {}
    BY <1>2
  <2> HIDE DEF T
  <2>2. QED
    BY <2>1, LeastElement
<1>4. \A j \in 0 .. k - 1 : 2 ^ j < n
  <2>1. ASSUME NEW j \in 0 .. k - 1
        PROVE  2 ^ j < n
    <3>1. j \in 0 .. n /\ j \notin T
      BY <1>3
    <3>2. 2 ^ j \in Nat
      BY <1>1, <3>1
    <3>3. QED
      BY <3>1, <3>2
  <2>2. QED
    BY <2>1
<1>5. k \in 0 .. n /\ 2 ^ k >= n
  BY <1>3
<1>6. QED
  BY <1>4, <1>5, Zenon DEF Log2Ceil

\* A number rounded up to a power of two.
LEMMA CeilIs ==
    ASSUME NEW n \in Nat
    PROVE  /\ CeilPow2(n) \in Nat \ {0} /\ CeilPow2(n) >= n
           /\ n > 0 => CeilPow2(n) < 2 * n
<1> DEFINE k == Log2Ceil(n)
<1>1. k \in 0 .. n /\ 2 ^ k >= n /\ \A j \in 0 .. k - 1 : 2 ^ j < n
  BY LogIs
<1>2. CeilPow2(n) = 2 ^ k
  BY DEF CeilPow2
<1> HIDE DEF k
<1>3. 2 ^ k \in Nat \ {0}
  BY <1>1, PowersGrow
<1>4. ASSUME n > 0
      PROVE  2 ^ k < 2 * n
  <2>1. CASE k = 0
    BY <1>4, <2>1
  <2>2. CASE k # 0
    <3>1. k - 1 \in 0 .. k - 1 /\ k - 1 \in Nat /\ (k - 1) + 1 = k
      BY <1>1, <2>2
    <3>2. 2 ^ (k - 1) < n /\ 2 ^ k = 2 * 2 ^ (k - 1) /\ 2 ^ (k - 1) \in Nat
      BY <1>1, <3>1, Doubling
    <3>3. QED
      BY <3>2
  <2>3. QED
    BY <2>1, <2>2
<1>5. QED
  BY <1>1, <1>2, <1>3, <1>4

\* A power of two stays as it is.
LEMMA CeilOfPower ==
    ASSUME NEW k \in Nat
    PROVE  CeilPow2(2 ^ k) = 2 ^ k
<1> DEFINE w == 2 ^ k
           l == Log2Ceil(w)
<1>1. w \in Nat \ {0}
  BY PowersGrow
<1>2. l \in 0 .. w /\ 2 ^ l >= w /\ \A j \in 0 .. l - 1 : 2 ^ j < w
  BY <1>1, LogIs
<1>3. CeilPow2(w) = 2 ^ l
  BY DEF CeilPow2
<1> HIDE DEF l
<1>4. ~ (k < l)
  <2>1. ASSUME k < l
        PROVE  FALSE
    <3>1. k \in 0 .. l - 1
      BY <1>2, <2>1
    <3>2. 2 ^ k < w
      BY <1>2, <3>1
    <3>3. QED
      BY <1>1, <3>2
  <2>2. QED
    BY <2>1
<1>5. ~ (l < k)
  <2>1. ASSUME l < k
        PROVE  FALSE
    <3>1. l \in 0 .. k
      BY <1>2, <2>1
    <3>2. 2 ^ l < 2 ^ k /\ 2 ^ l \in Nat
      BY <2>1, <3>1, PowersGrow
    <3>3. QED
      BY <1>1, <1>2, <3>2
  <2>2. QED
    BY <2>1
<1>6. l = k
  BY <1>2, <1>4, <1>5
<1>7. QED
  BY <1>3, <1>6

-----------------------------------------------------------------------------
(***************************************************************************)
(* Decompositions into blocks.                                             *)
(***************************************************************************)

\* The block sizes.
LEMMA SizesAre ==
    /\ Len(Sizes) \in Nat /\ Len(Sizes) >= 2 /\ DOMAIN Sizes = 1 .. Len(Sizes)
    /\ Sizes \in [1 .. Len(Sizes) -> Nat \ {0}]
    /\ Sizes[Len(Sizes)] = 1 /\ Sizes[Len(Sizes) - 1] = 2
<1>1. Sizes \in Seq(Nat \ {0}) /\ Len(Sizes) >= 2 /\ Sizes[Len(Sizes)] = 1
  BY FillAssumption DEF Last
<1>2. Len(Sizes) \in Nat /\ DOMAIN Sizes = 1 .. Len(Sizes) /\ Sizes \in [1 .. Len(Sizes) -> Nat \ {0}]
  BY <1>1
<1>3. Len(Sizes) - 1 \in 1 .. Len(Sizes) - 1 /\ (Len(Sizes) - 1) + 1 = Len(Sizes)
  BY <1>1, <1>2
<1>4. Sizes[Len(Sizes) - 1] = 2 * Sizes[(Len(Sizes) - 1) + 1]
  BY <1>3, FillAssumption
<1>5. QED
  BY <1>1, <1>2, <1>3, <1>4

\* l is what is left of rows after each size, d the traversals, each of e rows more
\* than the block has dummies.
Exhausts(l, rows, d, e) ==
    /\ l \in [0 .. Len(Sizes) -> Nat] /\ l[0] = rows /\ l[Len(Sizes)] = 0
    /\ d \in [1 .. Len(Sizes) -> Nat]
    /\ \A k \in 1 .. Len(Sizes) : l[k - 1] = d[k] * (Sizes[k] + e) + l[k]

\* The recursion of decompose.
Remaining(l, fill) == [k \in 0 .. Len(Sizes) |-> IF k = 0 THEN fill ELSE l[k - 1] % Sizes[k]]

\* The traversals of a fill deliver it exactly.
LEMMA DecomposeIs ==
    ASSUME NEW fill \in Nat
    PROVE  \E l : Exhausts(l, fill, Decompose(fill), 0)
<1> DEFINE n == Len(Sizes)
           taking == [k \in 1 .. n |-> [x \in Nat |-> x % Sizes[k]]]
           l == CHOOSE f : f = Remaining(f, fill)
<1>1. n \in Nat /\ n >= 2 /\ DOMAIN Sizes = 1 .. n /\ Sizes \in [1 .. n -> Nat \ {0}] /\ Sizes[n] = 1
  BY SizesAre
<1> HIDE DEF n
<1>2. \A x \in Nat, s \in Nat \ {0} :
        x % s \in Nat /\ x \div s \in Nat /\ x = (x \div s) * s + (x % s) /\ x % 1 = 0
  OBVIOUS
<1>3. taking \in [1 .. n -> [Nat -> Nat]]
  <2>1. ASSUME NEW k \in 1 .. n
        PROVE  [x \in Nat |-> x % Sizes[k]] \in [Nat -> Nat]
    BY <1>1, <1>2
  <2>2. QED
    BY <2>1
<1>4. PICK g : IsRun(g, n, Nat, fill, taking)
  <2> HIDE DEF taking
  <2>1. QED
    BY <1>1, <1>3, Runs
<1>5. g \in [0 .. n -> Nat] /\ g[0] = fill
  BY <1>4 DEF IsRun
<1>6. ASSUME NEW k \in 1 .. n
      PROVE  g[k] = g[k - 1] % Sizes[k]
  <2>1. k - 1 \in 0 .. n /\ g[k - 1] \in Nat
    BY <1>1, <1>5
  <2>2. g[k] = taking[k][g[k - 1]]
    BY <1>4 DEF IsRun
  <2>3. QED
    BY <2>1, <2>2
<1>7. g = Remaining(g, fill)
  <2>1. ASSUME NEW k \in 0 .. n
        PROVE  g[k] = IF k = 0 THEN fill ELSE g[k - 1] % Sizes[k]
    <3>1. k = 0 \/ k \in 1 .. n
      BY <1>1
    <3>2. QED
      BY <1>5, <1>6, <3>1
  <2>2. g = [k \in 0 .. n |-> g[k]]
    BY <1>5
  <2>3. QED
    BY <2>1, <2>2 DEF Remaining, n
<1>8. l = Remaining(l, fill)
  BY <1>7
<1>9. Decompose(fill) = [k \in DOMAIN Sizes |-> l[k - 1] \div Sizes[k]]
  <2>1. Decompose(fill) = [k \in DOMAIN Sizes |->
                             (CHOOSE f : f = Remaining(f, fill))[k - 1] \div Sizes[k]]
    BY Zenon DEF Decompose, Remaining
  <2>2. QED
    BY <2>1
<1> HIDE DEF l, taking
<1>10. \A k \in 0 .. n : l[k] = IF k = 0 THEN fill ELSE l[k - 1] % Sizes[k]
  BY <1>8 DEF Remaining, n
<1>11. l[0] = fill
  <2>1. 0 \in 0 .. n
    BY <1>1
  <2>2. l[0] = IF 0 = 0 THEN fill ELSE l[0 - 1] % Sizes[0]
    BY <1>10, <2>1, Zenon
  <2>3. QED
    BY <2>2
<1>12. ASSUME NEW k \in 1 .. n
       PROVE  l[k] = l[k - 1] % Sizes[k]
  <2>1. k \in 0 .. n /\ k # 0
    BY <1>1
  <2>2. QED
    BY <1>10, <2>1
<1> DEFINE S == {k \in 0 .. n : l[k] \in Nat}
<1>13. \A k \in 0 .. n : k \in S
  <2>1. 0 \in S
    BY <1>1, <1>11
  <2>2. ASSUME NEW k \in 0 .. n - 1, k \in S
        PROVE  k + 1 \in S
    <3>1. k + 1 \in 1 .. n /\ k + 1 \in 0 .. n /\ (k + 1) - 1 = k
      BY <1>1
    <3>2. l[k + 1] = l[k] % Sizes[k + 1] /\ Sizes[k + 1] \in Nat \ {0}
      BY <1>1, <1>12, <3>1
    <3>3. QED
      BY <1>2, <2>2, <3>1, <3>2
  <2> HIDE DEF S
  <2>3. QED
    BY <1>1, <2>1, <2>2, UpTo
<1>14. l \in [0 .. n -> Nat]
  <2>1. l = [k \in 0 .. n |-> IF k = 0 THEN fill ELSE l[k - 1] % Sizes[k]]
    BY <1>8 DEF Remaining, n
  <2>2. l = [k \in 0 .. n |-> l[k]]
    BY <1>10, <2>1
  <2>3. QED
    BY <1>13, <2>2
<1> DEFINE d == Decompose(fill)
<1>15. ASSUME NEW k \in 1 .. n
       PROVE  d[k] \in Nat /\ l[k - 1] = d[k] * (Sizes[k] + 0) + l[k]
  <2>1. k - 1 \in 0 .. n /\ l[k - 1] \in Nat /\ Sizes[k] \in Nat \ {0}
    BY <1>1, <1>14
  <2>2. d[k] = l[k - 1] \div Sizes[k] /\ l[k] = l[k - 1] % Sizes[k] /\ Sizes[k] + 0 = Sizes[k]
    BY <1>1, <1>9, <1>12, <2>1
  <2>3. QED
    BY <1>2, <2>1, <2>2
<1>16. d \in [1 .. n -> Nat]
  <2>1. d = [k \in 1 .. n |-> d[k]]
    BY <1>1, <1>9
  <2>2. QED
    BY <1>15, <2>1
<1>17. l[n] = 0
  <2>1. n \in 1 .. n /\ n - 1 \in 0 .. n
    BY <1>1
  <2>2. l[n] = l[n - 1] % 1 /\ l[n - 1] \in Nat
    BY <1>1, <1>12, <1>14, <2>1
  <2>3. QED
    BY <1>2, <2>2
<1> HIDE DEF d
<1>18. Exhausts(l, fill, d, 0)
  BY <1>11, <1>14, <1>15, <1>16, <1>17 DEF Exhausts, n
<1>19. QED
  BY <1>18 DEF d

\* The recursion of decompose_jump.
RemainingOfJump(l, gap) ==
    [k \in 0 .. Len(Sizes) |->
        IF k = 0 THEN gap ELSE l[k - 1] - StepsOf(l[k - 1], Sizes[k]) * (Sizes[k] + 1)]

\* What a block takes, never leaving one row; after blocks of two, and of one, an even
\* number, and nothing.
LEMMA StepsAre ==
    ASSUME NEW x \in Nat, NEW s \in Nat \ {0}
    PROVE  /\ StepsOf(x, s) \in Nat
           /\ StepsOf(x, s) * (s + 1) \in Nat
           /\ x - StepsOf(x, s) * (s + 1) \in Nat
           /\ x # 1 => x - StepsOf(x, s) * (s + 1) # 1
           /\ x # 1 /\ s = 2 => x - StepsOf(x, s) * (s + 1) \in {0, 2, 4}
           /\ x \in {0, 2, 4} /\ s = 1 => x - StepsOf(x, s) * (s + 1) = 0
<1> DEFINE w == s + 1
           q == x \div w
           r == x % w
<1>1. w \in Nat /\ w >= 2 /\ q \in Nat /\ r \in 0 .. w - 1 /\ x = q * w + r
  <2>1. \A y \in Nat, v \in Nat \ {0} : y \div v \in Nat /\ y % v \in 0 .. v - 1 /\ y = (y \div v) * v + (y % v)
    OBVIOUS
  <2>2. w \in Nat /\ w \in Nat \ {0} /\ w >= 2
    OBVIOUS
  <2> HIDE DEF w
  <2>3. QED
    BY <2>1, <2>2
<1>2. StepsOf(x, s) = IF q > 0 /\ r = 1 THEN q - 1 ELSE q
  BY DEF StepsOf
<1>3. s = 2 => w = 3
  OBVIOUS
<1>4. s = 1 => w = 2
  OBVIOUS
<1> DEFINE u == StepsOf(x, s)
<1> HIDE DEF w, q, r, u
<1>5. \A a, b \in Nat : a > 0 => (a - 1) * b = a * b - b
  BY Z3
<1>6. q * w \in Nat
  BY <1>1
<1>7. CASE q > 0 /\ r = 1
  <2>1. u = q - 1
    BY <1>2, <1>7 DEF u
  <2>2. u * w = q * w - w
    BY <1>1, <1>5, <1>7, <2>1
  <2> DEFINE z == q * w
             y == u * w
  <2>3. z >= w /\ z \in Nat
    <3>1. \A a, b \in Nat : a > 0 => a * b >= b
      BY Z3
    <3>2. QED
      BY <1>1, <1>6, <1>7, <3>1
  <2>4. y = z - w /\ x = z + r
    BY <1>1, <2>2
  <2> HIDE DEF z, y
  <2>5. y \in Nat /\ x - y = w + 1
    BY <1>1, <1>7, <2>3, <2>4
  <2>6. u \in Nat
    BY <1>1, <1>7, <2>1
  <2>7. u * w \in Nat /\ x - u * w \in Nat /\ x - u * w = w + 1
    BY <1>1, <2>5 DEF y
  <2>8. ~ (x \in {0, 2, 4} /\ s = 1)
    <3>1. ASSUME w = 2, x \in {0, 2, 4}
          PROVE  FALSE
      <4>1. x = q * 2 + 1
        BY <1>1, <1>7, <3>1
      <4>2. QED
        BY <1>1, <3>1, <4>1
    <3>2. QED
      BY <1>4, <3>1
  <2>9. QED
    BY <1>1, <1>3, <2>6, <2>7, <2>8 DEF u, w
<1>8. CASE ~ (q > 0 /\ r = 1)
  <2>1. u = q
    BY <1>2, <1>8 DEF u
  <2> DEFINE y == u * w
  <2>2. y \in Nat /\ x = y + r
    BY <1>1, <1>6, <2>1
  <2>3. q = 0 => y = 0
    BY <1>1, <2>1
  <2> HIDE DEF y
  <2>4. x - y = r
    BY <1>1, <2>2
  <2>5. x # 1 => r # 1
    BY <1>1, <1>8, <2>2, <2>3
  <2>6. w = 2 /\ x \in {0, 2, 4} => r = 0
    BY <1>1, <2>5
  <2>7. w = 3 /\ r # 1 => r \in {0, 2, 4}
    BY <1>1
  <2>8. u \in Nat
    BY <1>1, <2>1
  <2>9. u * w \in Nat /\ x - u * w \in Nat /\ x - u * w = r
    BY <1>1, <2>2, <2>4 DEF y
  <2>10. QED
    BY <1>1, <1>3, <1>4, <2>5, <2>6, <2>7, <2>8, <2>9 DEF u, w
<1>9. QED
  BY <1>7, <1>8

\* Every gap but one is reached, with the closing jumps counted.
LEMMA DecomposeJumpIs ==
    ASSUME NEW gap \in Nat
    PROVE  IF gap = 1 THEN DecomposeJump(gap) = None
           ELSE \E l : Exhausts(l, gap, DecomposeJump(gap), 1)
<1> DEFINE n == Len(Sizes)
           taking == [k \in 1 .. n |-> [x \in Nat |-> x - StepsOf(x, Sizes[k]) * (Sizes[k] + 1)]]
           l == CHOOSE f : f = RemainingOfJump(f, gap)
<1>1. n \in Nat /\ n >= 2 /\ DOMAIN Sizes = 1 .. n /\ Sizes \in [1 .. n -> Nat \ {0}]
      /\ Sizes[n] = 1 /\ Sizes[n - 1] = 2
  BY SizesAre
<1> HIDE DEF n
<1>2. taking \in [1 .. n -> [Nat -> Nat]]
  <2>1. ASSUME NEW k \in 1 .. n
        PROVE  [x \in Nat |-> x - StepsOf(x, Sizes[k]) * (Sizes[k] + 1)] \in [Nat -> Nat]
    <3>1. Sizes[k] \in Nat \ {0}
      BY <1>1
    <3>2. ASSUME NEW x \in Nat
          PROVE  x - StepsOf(x, Sizes[k]) * (Sizes[k] + 1) \in Nat
      BY <3>1, StepsAre
    <3>3. QED
      BY <3>2
  <2>2. QED
    BY <2>1
<1>3. PICK g : IsRun(g, n, Nat, gap, taking)
  <2> HIDE DEF taking
  <2>1. QED
    BY <1>1, <1>2, Runs
<1>4. g \in [0 .. n -> Nat] /\ g[0] = gap
  BY <1>3 DEF IsRun
<1>5. ASSUME NEW k \in 1 .. n
      PROVE  g[k] = g[k - 1] - StepsOf(g[k - 1], Sizes[k]) * (Sizes[k] + 1)
  <2>1. k - 1 \in 0 .. n /\ g[k - 1] \in Nat
    BY <1>1, <1>4
  <2>2. g[k] = taking[k][g[k - 1]]
    BY <1>3 DEF IsRun
  <2>3. QED
    BY <2>1, <2>2
<1>6. g = RemainingOfJump(g, gap)
  <2>1. ASSUME NEW k \in 0 .. n
        PROVE  g[k] = IF k = 0 THEN gap ELSE g[k - 1] - StepsOf(g[k - 1], Sizes[k]) * (Sizes[k] + 1)
    <3>1. k = 0 \/ k \in 1 .. n
      BY <1>1
    <3>2. QED
      BY <1>4, <1>5, <3>1
  <2>2. g = [k \in 0 .. n |-> g[k]]
    BY <1>4
  <2>3. QED
    BY <2>1, <2>2 DEF RemainingOfJump, n
<1>7. l = RemainingOfJump(l, gap)
  BY <1>6
<1>8. DecomposeJump(gap) = IF gap = 1 \/ l[n] # 0 THEN None
                           ELSE [k \in DOMAIN Sizes |-> StepsOf(l[k - 1], Sizes[k])]
  <2>1. DecomposeJump(gap) =
          IF gap = 1 \/ (CHOOSE f : f = RemainingOfJump(f, gap))[Len(Sizes)] # 0 THEN None
          ELSE [k \in DOMAIN Sizes |-> StepsOf((CHOOSE f : f = RemainingOfJump(f, gap))[k - 1], Sizes[k])]
    BY Zenon DEF DecomposeJump, RemainingOfJump
  <2>2. QED
    BY <2>1 DEF n
<1> HIDE DEF l, taking
<1>9. \A k \in 0 .. n :
        l[k] = IF k = 0 THEN gap ELSE l[k - 1] - StepsOf(l[k - 1], Sizes[k]) * (Sizes[k] + 1)
  BY <1>7 DEF RemainingOfJump, n
<1>10. l[0] = gap
  <2>1. 0 \in 0 .. n
    BY <1>1
  <2>2. l[0] = IF 0 = 0 THEN gap ELSE l[0 - 1] - StepsOf(l[0 - 1], Sizes[0]) * (Sizes[0] + 1)
    BY <1>9, <2>1, Zenon
  <2>3. QED
    BY <2>2
<1>11. ASSUME NEW k \in 1 .. n
       PROVE  l[k] = l[k - 1] - StepsOf(l[k - 1], Sizes[k]) * (Sizes[k] + 1)
  <2>1. k \in 0 .. n /\ k # 0
    BY <1>1
  <2>2. QED
    BY <1>9, <2>1
<1> SUFFICES ASSUME gap # 1
             PROVE  \E f : Exhausts(f, gap, DecomposeJump(gap), 1)
  BY <1>8
<1> DEFINE S == {k \in 0 .. n : l[k] \in Nat /\ l[k] # 1}
<1>12. \A k \in 0 .. n : k \in S
  <2>1. 0 \in S
    BY <1>1, <1>10
  <2>2. ASSUME NEW k \in 0 .. n - 1, k \in S
        PROVE  k + 1 \in S
    <3>1. k + 1 \in 1 .. n /\ k + 1 \in 0 .. n /\ (k + 1) - 1 = k
      BY <1>1
    <3>2. /\ l[k + 1] = l[k] - StepsOf(l[k], Sizes[k + 1]) * (Sizes[k + 1] + 1)
          /\ Sizes[k + 1] \in Nat \ {0} /\ l[k] \in Nat /\ l[k] # 1
      BY <1>1, <1>11, <2>2, <3>1
    <3>3. /\ l[k] - StepsOf(l[k], Sizes[k + 1]) * (Sizes[k + 1] + 1) \in Nat
          /\ l[k] - StepsOf(l[k], Sizes[k + 1]) * (Sizes[k + 1] + 1) # 1
      BY <3>2, StepsAre
    <3>4. QED
      BY <3>1, <3>2, <3>3
  <2> HIDE DEF S
  <2>3. QED
    BY <1>1, <2>1, <2>2, UpTo
<1>13. l \in [0 .. n -> Nat]
  <2>1. l = [k \in 0 .. n |-> IF k = 0 THEN gap ELSE l[k - 1] - StepsOf(l[k - 1], Sizes[k]) * (Sizes[k] + 1)]
    BY <1>7 DEF RemainingOfJump, n
  <2>2. l = [k \in 0 .. n |-> l[k]]
    BY <1>9, <2>1
  <2>3. QED
    BY <1>12, <2>2
<1>14. l[n] = 0
  <2>1. n - 1 \in 1 .. n /\ n \in 1 .. n /\ (n - 1) - 1 \in 0 .. n /\ n - 1 \in 0 .. n
    BY <1>1
  <2> DEFINE x == l[(n - 1) - 1]
             y == l[n - 1]
  <2>2. x \in Nat /\ x # 1 /\ y \in Nat
    BY <1>12, <2>1
  <2>3. y = x - StepsOf(x, 2) * (2 + 1)
    BY <1>1, <1>11, <2>1
  <2>4. l[n] = y - StepsOf(y, 1) * (1 + 1)
    BY <1>1, <1>11, <2>1
  <2> HIDE DEF x, y
  <2>5. y \in {0, 2, 4}
    BY <2>2, <2>3, StepsAre
  <2>6. y - StepsOf(y, 1) * (1 + 1) = 0
    BY <2>2, <2>5, StepsAre
  <2>7. QED
    BY <2>4, <2>6
<1> DEFINE d == DecomposeJump(gap)
<1>15. d = [k \in 1 .. n |-> StepsOf(l[k - 1], Sizes[k])]
  BY <1>1, <1>8, <1>14
<1>16. ASSUME NEW k \in 1 .. n
       PROVE  d[k] \in Nat /\ l[k - 1] = d[k] * (Sizes[k] + 1) + l[k]
  <2>1. k - 1 \in 0 .. n /\ l[k - 1] \in Nat /\ Sizes[k] \in Nat \ {0}
    BY <1>1, <1>13
  <2>2. d[k] = StepsOf(l[k - 1], Sizes[k]) /\ l[k] = l[k - 1] - d[k] * (Sizes[k] + 1)
    BY <1>11, <1>15
  <2>3. d[k] \in Nat /\ d[k] * (Sizes[k] + 1) \in Nat
    BY <2>1, <2>2, StepsAre
  <2> DEFINE p == d[k] * (Sizes[k] + 1)
  <2> HIDE DEF p, d
  <2>4. l[k - 1] = p + l[k]
    BY <2>1, <2>2, <2>3 DEF p
  <2>5. QED
    BY <2>3, <2>4 DEF p
<1>17. d \in [1 .. n -> Nat]
  <2>1. d = [k \in 1 .. n |-> d[k]]
    BY <1>15
  <2>2. QED
    BY <1>16, <2>1
<1> HIDE DEF d
<1>18. Exhausts(l, gap, d, 1)
  BY <1>10, <1>13, <1>14, <1>16, <1>17 DEF Exhausts, n
<1>19. QED
  BY <1>18 DEF d

-----------------------------------------------------------------------------
(***************************************************************************)
(* Kinds of block, and what a plan asks of them.                           *)
(***************************************************************************)

\* The kind of block of a table and a size.
KindOf(t, k) == (t - 1) * Len(Sizes) + k
PlaceOf(i) == ((i - 1) % Len(Sizes)) + 1

\* A kind is a table and a size.
LEMMA KindIs ==
    /\ \A t \in Tables, k \in 1 .. Len(Sizes) :
          KindOf(t, k) \in Kinds /\ TableOf(KindOf(t, k)) = t /\ PlaceOf(KindOf(t, k)) = k
    /\ \A i \in Kinds : TableOf(i) \in Tables /\ PlaceOf(i) \in 1 .. Len(Sizes)
                        /\ KindOf(TableOf(i), PlaceOf(i)) = i
<1> DEFINE n == Len(Sizes)
<1>1. n \in Nat /\ n >= 2
  BY SizesAre
<1> HIDE DEF n
<1>2. ASSUME NEW t \in Tables, NEW k \in 1 .. n
      PROVE  KindOf(t, k) \in Kinds /\ TableOf(KindOf(t, k)) = t /\ PlaceOf(KindOf(t, k)) = k
  <2> DEFINE a == t - 1
             b == k - 1
             p == a * n
  <2>1. a \in 0 .. 5 /\ b \in 0 .. n - 1 /\ a + 1 = t /\ b + 1 = k
    BY <1>1 DEF Tables
  <2> HIDE DEF a, b
  <2>2. p \in Nat /\ p <= 5 * n
    BY <1>1, <2>1
  <2>3. KindOf(t, k) = p + k
    BY DEF KindOf, n, a
  <2>4. (KindOf(t, k) - 1) = p + b
    <3> HIDE DEF p
    <3>1. QED
      BY <1>1, <2>1, <2>2, <2>3
  <2>5. (p + b) \div n = a /\ (p + b) % n = b
    <3>1. \A y \in Nat, v \in Nat \ {0} : y \div v \in Nat /\ y % v \in 0 .. v - 1 /\ y = (y \div v) * v + (y % v)
      OBVIOUS
    <3> DEFINE x == p + b
               q == x \div n
               r == x % n
    <3>2. x \in Nat /\ n \in Nat \ {0}
      BY <1>1, <2>1, <2>2
    <3>3. q \in Nat /\ r \in 0 .. n - 1 /\ x = q * n + r
      <4> HIDE DEF x
      <4>1. QED
        BY <3>1, <3>2
    <3>4. a * n <= x /\ x < (a + 1) * n
      <4>1. (a + 1) * n = p + n
        BY <1>1, <2>1
      <4> HIDE DEF p
      <4>2. p <= x /\ x < p + n
        BY <1>1, <2>1, <2>2
      <4>3. QED
        BY <4>1, <4>2 DEF p
    <3>5. a <= q /\ q < a + 1
      <4> HIDE DEF x
      <4>1. QED
        BY <2>1, <3>2, <3>4, Between DEF q
    <3>6. q = a
      <4> HIDE DEF q
      <4>1. QED
        BY <2>1, <3>3, <3>5
    <3>7. r = b
      <4>1. x = a * n + r
        BY <3>3, <3>6
      <4>2. a * n = p /\ x = p + b
        OBVIOUS
      <4> HIDE DEF p, x, r
      <4>3. QED
        BY <1>1, <2>1, <2>2, <3>3, <4>1, <4>2
    <3>8. QED
      BY <3>6, <3>7
  <2>6. TableOf(KindOf(t, k)) = t
    <3>1. TableOf(KindOf(t, k)) = ((KindOf(t, k) - 1) \div n) + 1
      BY DEF TableOf, n
    <3> HIDE DEF p
    <3>2. QED
      BY <2>1, <2>4, <2>5, <3>1
  <2>7. PlaceOf(KindOf(t, k)) = k
    <3>1. PlaceOf(KindOf(t, k)) = ((KindOf(t, k) - 1) % n) + 1
      BY DEF PlaceOf, n
    <3> HIDE DEF p
    <3>2. QED
      BY <2>1, <2>4, <2>5, <3>1
  <2>8. KindOf(t, k) \in Kinds
    <3>1. p + k \in 1 .. 6 * n
      <4> HIDE DEF p
      <4>1. QED
        BY <1>1, <2>2
    <3>2. QED
      BY <2>3, <3>1 DEF Kinds, n
  <2>9. QED
    BY <2>6, <2>7, <2>8
<1>3. ASSUME NEW i \in Kinds
      PROVE  TableOf(i) \in Tables /\ PlaceOf(i) \in 1 .. n /\ KindOf(TableOf(i), PlaceOf(i)) = i
  <2> DEFINE x == i - 1
             q == x \div n
             r == x % n
  <2>1. i \in 1 .. 6 * n
    BY DEF Kinds, n
  <2>2. x \in Nat /\ x < 6 * n /\ 0 * n <= x
    BY <1>1, <2>1
  <2>3. q \in Nat /\ q < 6
    <3> HIDE DEF x
    <3>1. QED
      BY <1>1, <2>2, Between DEF q
  <2>4. r \in 0 .. n - 1 /\ x = q * n + r
    <3>1. \A y \in Nat, v \in Nat \ {0} : y % v \in 0 .. v - 1 /\ y = (y \div v) * v + (y % v)
      OBVIOUS
    <3> HIDE DEF x
    <3>2. QED
      BY <1>1, <2>2, <3>1 DEF q, r
  <2>5. TableOf(i) = q + 1 /\ PlaceOf(i) = r + 1
    BY DEF TableOf, PlaceOf, n
  <2>6. KindOf(TableOf(i), PlaceOf(i)) = ((q + 1) - 1) * n + (r + 1)
    BY <2>5 DEF KindOf, n
  <2> HIDE DEF q, r
  <2>7. (q + 1) - 1 = q /\ q * n \in Nat
    BY <1>1, <2>3
  <2> DEFINE p == q * n
  <2>8. p \in Nat /\ x = p + r /\ KindOf(TableOf(i), PlaceOf(i)) = p + (r + 1)
    BY <2>4, <2>6, <2>7
  <2> HIDE DEF p
  <2>9. p + (r + 1) = i
    BY <2>1, <2>4, <2>8
  <2>10. q + 1 \in Tables /\ r + 1 \in 1 .. n
    BY <1>1, <2>3, <2>4 DEF Tables
  <2>11. QED
    BY <2>5, <2>8, <2>9, <2>10
<1>4. QED
  BY <1>2, <1>3 DEF n

\* Totals add up.
LEMMA TotalsAdd ==
    ASSUME NEW n \in Nat, NEW f \in [1 .. n -> Nat], NEW e \in [1 .. n -> Nat], NEW h \in [1 .. n -> Nat],
           \A i \in 1 .. n : h[i] = f[i] + e[i]
    PROVE  Total(h) = Total(f) + Total(e) /\ Total(f) \in Nat /\ Total(e) \in Nat /\ Total(h) \in Nat
<1> DEFINE p == Partial(f)
           q == Partial(e)
           r == Partial(h)
<1>1. /\ IsSum(p, n, f) /\ Total(f) = p[n]
      /\ IsSum(q, n, e) /\ Total(e) = q[n]
      /\ IsSum(r, n, h) /\ Total(h) = r[n]
  BY PartialIs
<1> HIDE DEF p, q, r
<1> DEFINE S == {k \in 0 .. n : r[k] = p[k] + q[k]}
<1>2. \A k \in 0 .. n : p[k] \in Nat /\ q[k] \in Nat /\ r[k] \in Nat
  BY <1>1 DEF IsSum
<1>3. 0 \in S
  BY <1>1 DEF IsSum
<1>4. ASSUME NEW k \in 0 .. n - 1, k \in S
      PROVE  k + 1 \in S
  <2>1. k + 1 \in 1 .. n /\ (k + 1) - 1 = k /\ k \in 0 .. n /\ k + 1 \in 0 .. n
    OBVIOUS
  <2>2. p[k + 1] = p[k] + f[k + 1] /\ q[k + 1] = q[k] + e[k + 1] /\ r[k + 1] = r[k] + h[k + 1]
    BY <1>1, <2>1 DEF IsSum
  <2>3. h[k + 1] = f[k + 1] + e[k + 1] /\ f[k + 1] \in Nat /\ e[k + 1] \in Nat
    BY <2>1
  <2>4. r[k] = p[k] + q[k] /\ p[k] \in Nat /\ q[k] \in Nat
    BY <1>2, <1>4, <2>1
  <2>5. r[k + 1] = p[k + 1] + q[k + 1]
    BY <2>2, <2>3, <2>4, SMTT(60)
  <2>6. QED
    BY <2>1, <2>5
<1>5. \A k \in 0 .. n : k \in S
  <2> HIDE DEF S
  <2>1. QED
    BY <1>3, <1>4, UpTo
<1>6. n \in 0 .. n
  OBVIOUS
<1>7. QED
  BY <1>1, <1>2, <1>5, <1>6

\* What is taken off a number until nothing is left is that number.
LEMMA Telescopes ==
    ASSUME NEW N \in Nat, NEW f \in [1 .. N -> Nat], NEW a \in 0 .. N, NEW m \in 0 .. N - a,
           NEW l \in [0 .. m -> Nat], l[m] = 0,
           \A i \in 1 .. N : i <= a \/ i > a + m => f[i] = 0,
           \A k \in 1 .. m : l[k - 1] = f[a + k] + l[k]
    PROVE  Total(f) = l[0]
<1> DEFINE h == Partial(f)
<1>1. IsSum(h, N, f) /\ Total(f) = h[N]
  BY PartialIs
<1> HIDE DEF h
<1>2. /\ \A k \in 0 .. N : h[k] \in Nat
      /\ h[0] = 0
      /\ \A k \in 0 .. N - 1 : k + 1 \in 1 .. N /\ k \in 0 .. N /\ k + 1 \in 0 .. N /\ h[k + 1] = h[k] + f[k + 1]
  <2>1. \A k \in 0 .. N - 1 : k + 1 \in 1 .. N /\ (k + 1) - 1 = k
    OBVIOUS
  <2>2. QED
    BY <1>1, <2>1 DEF IsSum
<1>3. m \in Nat /\ a \in Nat /\ a + m <= N /\ 0 \in 0 .. m /\ l[0] \in Nat
  OBVIOUS
<1> DEFINE Before == {i \in 0 .. a : h[i] = 0}
           Within == {k \in 0 .. m : h[a + k] + l[k] = l[0]}
           After == {k \in 0 .. N - (a + m) : h[a + m + k] = l[0]}
<1>4. \A i \in 0 .. a : i \in Before
  <2>1. 0 \in Before
    BY <1>2, <1>3
  <2>2. ASSUME NEW i \in 0 .. a - 1, i \in Before
        PROVE  i + 1 \in Before
    <3>1. i \in 0 .. N - 1 /\ i + 1 <= a /\ i + 1 \in 0 .. a
      BY <1>3
    <3>2. f[i + 1] = 0 /\ h[i + 1] = h[i] + f[i + 1]
      BY <1>2, <3>1
    <3>3. QED
      BY <2>2, <3>1, <3>2
  <2> HIDE DEF Before
  <2>3. QED
    BY <1>3, <2>1, <2>2, UpTo
<1>5. \A k \in 0 .. m : k \in Within
  <2>1. 0 \in Within
    <3>1. h[a] = 0 /\ a + 0 = a
      BY <1>3, <1>4
    <3>2. QED
      BY <1>3, <3>1
  <2>2. ASSUME NEW k \in 0 .. m - 1, k \in Within
        PROVE  k + 1 \in Within
    <3>1. a + k \in 0 .. N - 1 /\ (a + k) + 1 = a + (k + 1) /\ k + 1 \in 1 .. m /\ (k + 1) - 1 = k
          /\ k \in 0 .. m /\ k + 1 \in 0 .. m /\ a + (k + 1) \in 1 .. N
      BY <1>3
    <3>2. l[k] = f[a + (k + 1)] + l[k + 1]
      BY <3>1
    <3>3. h[a + (k + 1)] = h[a + k] + f[a + (k + 1)] /\ h[a + k] \in Nat
      BY <1>2, <3>1
    <3>4. h[a + k] + l[k] = l[0] /\ f[a + (k + 1)] \in Nat /\ l[k + 1] \in Nat /\ l[k] \in Nat
      BY <2>2, <3>1
    <3>5. h[a + (k + 1)] + l[k + 1] = l[0]
      <4> DEFINE u == h[a + k]
                 v == f[a + (k + 1)]
                 x == l[k + 1]
                 y == h[a + (k + 1)]
                 w == l[k]
                 z == l[0]
      <4>1. y = u + v /\ u \in Nat /\ v \in Nat /\ x \in Nat /\ w = v + x /\ u + w = z
        BY <3>2, <3>3, <3>4
      <4> HIDE DEF u, v, x, y, z, w
      <4>2. y + x = z
        BY <4>1
      <4>3. QED
        BY <4>2 DEF y, x, z
    <3>6. QED
      BY <3>1, <3>5
  <2> HIDE DEF Within
  <2>3. QED
    BY <1>3, <2>1, <2>2, UpTo
<1>6. \A k \in 0 .. N - (a + m) : k \in After
  <2>1. 0 \in After
    <3>1. m \in 0 .. m /\ (a + m) + 0 = a + m /\ a + m \in 0 .. N
      BY <1>3
    <3>2. h[a + m] + l[m] = l[0] /\ h[a + m] \in Nat
      BY <1>2, <1>5, <3>1
    <3>3. h[a + m] = l[0]
      BY <3>2
    <3>4. QED
      BY <1>3, <3>1, <3>3
  <2>2. ASSUME NEW k \in 0 .. (N - (a + m)) - 1, k \in After
        PROVE  k + 1 \in After
    <3>1. /\ a + m + k \in 0 .. N - 1 /\ (a + m + k) + 1 = a + m + (k + 1) /\ k + 1 \in 0 .. N - (a + m)
          /\ (a + m + k) + 1 \in 1 .. N /\ (a + m + k) + 1 > a + m
      BY <1>3
    <3>2. h[(a + m + k) + 1] = h[a + m + k] + f[(a + m + k) + 1] /\ f[(a + m + k) + 1] = 0
      BY <1>2, <3>1
    <3>3. h[a + m + k] = l[0]
      BY <2>2
    <3>4. h[a + m + (k + 1)] = l[0]
      BY <1>3, <3>1, <3>2, <3>3
    <3>5. QED
      BY <3>1, <3>4
  <2>3. N - (a + m) \in Nat
    BY <1>3
  <2> HIDE DEF After
  <2>4. QED
    BY <2>1, <2>2, <2>3, UpTo
<1>7. N - (a + m) \in 0 .. N - (a + m) /\ a + m + (N - (a + m)) = N
  BY <1>3
<1>8. h[a + m + (N - (a + m))] = l[0]
  BY <1>6, <1>7
<1>9. QED
  BY <1>1, <1>7, <1>8

\* The plans, and what they ask for.
Plans == [Tables -> [1 .. Len(Sizes) -> Nat]]

\* What it asks of a kind.
LEMMA AskedIs ==
    ASSUME NEW plan \in Plans
    PROVE  /\ \A i \in Kinds : Asked(plan, i) \in Nat /\ SizeOf(i) \in Nat \ {0}
           /\ \A t \in Tables, k \in 1 .. Len(Sizes) :
                 Asked(plan, KindOf(t, k)) = plan[t][k] /\ SizeOf(KindOf(t, k)) = Sizes[k]
<1>1. \A i : Asked(plan, i) = plan[TableOf(i)][PlaceOf(i)] /\ SizeOf(i) = Sizes[PlaceOf(i)]
  BY DEF Asked, SizeOf, PlaceOf
<1>2. \A i \in Kinds : TableOf(i) \in Tables /\ PlaceOf(i) \in 1 .. Len(Sizes)
  BY KindIs
<1>3. \A t \in Tables, k \in 1 .. Len(Sizes) : plan[t][k] \in Nat
  BY DEF Plans
<1>4. \A k \in 1 .. Len(Sizes) : Sizes[k] \in Nat \ {0}
  BY SizesAre
<1>5. \A i \in Kinds : Asked(plan, i) \in Nat /\ SizeOf(i) \in Nat \ {0}
  BY <1>1, <1>2, <1>3, <1>4
<1>6. ASSUME NEW t \in Tables, NEW k \in 1 .. Len(Sizes)
      PROVE  Asked(plan, KindOf(t, k)) = plan[t][k] /\ SizeOf(KindOf(t, k)) = Sizes[k]
  <2>1. TableOf(KindOf(t, k)) = t /\ PlaceOf(KindOf(t, k)) = k
    BY KindIs
  <2>2. QED
    BY <1>1, <2>1
<1>7. QED
  BY <1>5, <1>6

\* The rows of one table a plan asks for, e more than the dummies in each traversal.
AskedOf(plan, t, e) ==
    [i \in Kinds |-> IF TableOf(i) = t THEN Asked(plan, i) * (SizeOf(i) + e) ELSE 0]

\* They are what was exhausted.
LEMMA AskedTotal ==
    ASSUME NEW plan \in Plans, NEW t \in Tables, NEW e \in {0, 1}, NEW rows, NEW l,
           Exhausts(l, rows, plan[t], e)
    PROVE  Total(AskedOf(plan, t, e)) = rows /\ AskedOf(plan, t, e) \in [1 .. 6 * Len(Sizes) -> Nat]
<1> DEFINE n == Len(Sizes)
           f == AskedOf(plan, t, e)
           a == (t - 1) * n
<1>1. n \in Nat /\ n >= 2
  BY SizesAre
<1>2. f \in [1 .. 6 * n -> Nat]
  <2>1. \A i \in Kinds : Asked(plan, i) \in Nat /\ SizeOf(i) \in Nat \ {0}
    BY AskedIs
  <2>2. \A x, y \in Nat : x * (y + e) \in Nat
    OBVIOUS
  <2>3. \A i \in Kinds : (IF TableOf(i) = t THEN Asked(plan, i) * (SizeOf(i) + e) ELSE 0) \in Nat
    BY <2>1, <2>2
  <2>4. QED
    BY <2>3 DEF AskedOf, Kinds
<1>3. a \in Nat /\ a <= 5 * n
  <2>1. \A x \in 0 .. 5, y \in Nat : x * y \in Nat /\ x * y <= 5 * y
    BY Z3
  <2>2. t - 1 \in 0 .. 5
    BY DEF Tables
  <2> HIDE DEF n
  <2>3. QED
    BY <1>1, <2>1, <2>2
<1>4. \A k \in 1 .. n : KindOf(t, k) = a + k
  BY DEF KindOf
<1>5. ASSUME NEW k \in 1 .. n
      PROVE  l[k - 1] = f[a + k] + l[k]
  <2>1. KindOf(t, k) \in Kinds /\ TableOf(KindOf(t, k)) = t /\ Asked(plan, KindOf(t, k)) = plan[t][k]
        /\ SizeOf(KindOf(t, k)) = Sizes[k]
    BY AskedIs, KindIs
  <2>2. f[KindOf(t, k)] = plan[t][k] * (Sizes[k] + e)
    BY <2>1 DEF AskedOf
  <2>3. l[k - 1] = plan[t][k] * (Sizes[k] + e) + l[k]
    BY DEF Exhausts
  <2>4. KindOf(t, k) = a + k
    BY <1>4
  <2> HIDE DEF a, f, n
  <2>5. QED
    BY <2>2, <2>3, <2>4
<1>6. ASSUME NEW i \in 1 .. 6 * n, i <= a \/ i > a + n
      PROVE  f[i] = 0
  <2>1. i \in Kinds
    BY DEF Kinds
  <2>2. TableOf(i) # t
    <3>1. ASSUME TableOf(i) = t
          PROVE  FALSE
      <4>1. PlaceOf(i) \in 1 .. n /\ KindOf(t, PlaceOf(i)) = i
        BY <2>1, <3>1, KindIs
      <4>2. i = a + PlaceOf(i)
        BY <1>4, <4>1
      <4> HIDE DEF a, f, n
      <4>3. QED
        BY <1>1, <1>3, <1>6, <4>1, <4>2
    <3>2. QED
      BY <3>1
  <2>3. QED
    BY <2>1, <2>2 DEF AskedOf
<1>7. l \in [0 .. n -> Nat] /\ l[0] = rows /\ l[n] = 0
  BY DEF Exhausts
<1> HIDE DEF n, f, a
<1>8. 6 * n \in Nat /\ a \in 0 .. 6 * n /\ n \in 0 .. 6 * n - a
  BY <1>1, <1>3
<1>9. \A i \in 1 .. 6 * n : i <= a \/ i > a + n => f[i] = 0
  BY <1>6
<1>10. Total(f) = l[0]
  BY <1>2, <1>5, <1>7, <1>8, <1>9, Telescopes, ZenonT(60)
<1>11. QED
  BY <1>2, <1>7, <1>10 DEF f, n

-----------------------------------------------------------------------------
(***************************************************************************)
(* The solver.                                                             *)
(***************************************************************************)

\* What a table has to reach, and the plan of the tables other than JUMP.
Target(base, floor, t) == Larger(base[t], Larger(MinRows[t], IF t = PAD_TABLE THEN floor ELSE 0))
Others(base, floor) ==
    [t \in Tables |-> IF t = JUMP THEN NoTraversals
                      ELSE Decompose(CeilPow2(Target(base, floor, t)) - base[t])]

\* What JUMP has to reach at first.
JumpTarget(base, floor) == CeilPow2(Larger(Owed(base, Others(base, floor)), MinRows[JUMP]))

\* A plan that fills: every table ends at a power of two, at or above what it has and
\* its floor, and no higher than needed where nothing else decides.
Solved(base, floor, plan) ==
    /\ plan \in Plans
    /\ \A t \in Tables :
          /\ Filled(base, plan)[t] \in Nat
          /\ Filled(base, plan)[t] >= base[t] /\ Filled(base, plan)[t] >= MinRows[t]
          /\ Filled(base, plan)[t] = CeilPow2(Filled(base, plan)[t])
          /\ t \notin {JUMP, PAD_TABLE} => Filled(base, plan)[t] < 2 * Larger(base[t], MinRows[t])
    /\ Filled(base, plan)[PAD_TABLE] >= floor

\* The rows of a table other than JUMP.
LEMMA TargetIs ==
    ASSUME NEW base \in [Tables -> Nat], NEW floor \in Nat, NEW t \in Tables
    PROVE  /\ Target(base, floor, t) \in Nat \ {0}
           /\ Target(base, floor, t) >= base[t] /\ Target(base, floor, t) >= MinRows[t]
           /\ t # PAD_TABLE => Target(base, floor, t) = Larger(base[t], MinRows[t])
           /\ t = PAD_TABLE => Target(base, floor, t) >= floor
           /\ CeilPow2(Target(base, floor, t)) \in Nat
           /\ CeilPow2(Target(base, floor, t)) >= Target(base, floor, t)
           /\ CeilPow2(Target(base, floor, t)) < 2 * Target(base, floor, t)
           /\ CeilPow2(CeilPow2(Target(base, floor, t))) = CeilPow2(Target(base, floor, t))
<1>1. base[t] \in Nat /\ MinRows[t] \in Nat \ {0}
  BY FillAssumption
<1> DEFINE y == Target(base, floor, t)
<1>2. /\ y \in Nat \ {0} /\ y >= base[t] /\ y >= MinRows[t]
      /\ t # PAD_TABLE => y = Larger(base[t], MinRows[t])
      /\ t = PAD_TABLE => y >= floor
  BY <1>1 DEF Target, Larger
<1> HIDE DEF y
<1>3. CeilPow2(y) \in Nat /\ CeilPow2(y) >= y /\ CeilPow2(y) < 2 * y
  BY <1>2, CeilIs
<1>4. CeilPow2(CeilPow2(y)) = CeilPow2(y)
  <2> DEFINE l == Log2Ceil(y)
  <2>1. CeilPow2(y) = 2 ^ l
    BY DEF CeilPow2
  <2>2. l \in Nat
    BY <1>2, LogIs
  <2> HIDE DEF l
  <2>3. QED
    BY <2>1, <2>2, CeilOfPower
<1>5. QED
  BY <1>2, <1>3, <1>4 DEF y

\* Nothing is planned for JUMP yet; the others' fill is exact.
LEMMA OthersAre ==
    ASSUME NEW base \in [Tables -> Nat], NEW floor \in Nat
    PROVE  /\ Others(base, floor) \in Plans
           /\ Others(base, floor)[JUMP] = NoTraversals
           /\ \A t \in Tables \ {JUMP} :
                 \E l : Exhausts(l, CeilPow2(Target(base, floor, t)) - base[t], Others(base, floor)[t], 0)
<1> DEFINE o == Others(base, floor)
           gap(t) == CeilPow2(Target(base, floor, t)) - base[t]
<1>1. ASSUME NEW t \in Tables \ {JUMP}
      PROVE  o[t] = Decompose(gap(t)) /\ gap(t) \in Nat
  <2>1. base[t] \in Nat
    OBVIOUS
  <2>2. CeilPow2(Target(base, floor, t)) \in Nat /\ CeilPow2(Target(base, floor, t)) >= base[t]
    <3>1. /\ Target(base, floor, t) \in Nat /\ Target(base, floor, t) >= base[t]
          /\ CeilPow2(Target(base, floor, t)) \in Nat
          /\ CeilPow2(Target(base, floor, t)) >= Target(base, floor, t)
      BY TargetIs
    <3>2. QED
      BY <2>1, <3>1
  <2>3. QED
    BY <2>1, <2>2 DEF Others
<1>2. ASSUME NEW t \in Tables \ {JUMP}
      PROVE  \E l : Exhausts(l, gap(t), o[t], 0)
  <2> HIDE DEF o, gap
  <2>1. QED
    BY <1>1, DecomposeIs
<1>3. JUMP \in Tables
  BY DEF Tables, JUMP
<1>4. o[JUMP] = NoTraversals
  BY <1>3 DEF Others
<1>5. ASSUME NEW t \in Tables
      PROVE  o[t] \in [1 .. Len(Sizes) -> Nat]
  <2>1. CASE t = JUMP
    BY <1>4, <2>1, SizesAre DEF NoTraversals
  <2>2. CASE t # JUMP
    <3>1. PICK l : Exhausts(l, gap(t), o[t], 0)
      BY <1>2, <2>2
    <3> HIDE DEF o, gap
    <3>2. QED
      BY <3>1 DEF Exhausts
  <2>3. QED
    BY <2>1, <2>2
<1>6. o \in Plans
  BY <1>5 DEF Plans, Others
<1>7. QED
  BY <1>2, <1>4, <1>6

\* What a plan delivers to a table.
LEMMA DeliveredIs ==
    ASSUME NEW plan \in Plans, NEW t \in Tables, NEW rows, NEW l, Exhausts(l, rows, plan[t], 0)
    PROVE  Delivered(plan, t) = rows
<1>1. \A i \in Kinds : Asked(plan, i) \in Nat /\ SizeOf(i) \in Nat
  BY AskedIs
<1>2. \A i \in Kinds : SizeOf(i) + 0 = SizeOf(i)
  BY <1>1
<1>3. AskedOf(plan, t, 0) = [i \in Kinds |-> IF TableOf(i) = t THEN Asked(plan, i) * SizeOf(i) ELSE 0]
  BY <1>2 DEF AskedOf
<1>4. Delivered(plan, t) = Total(AskedOf(plan, t, 0))
  BY <1>3, Zenon DEF Delivered
<1>5. QED
  BY <1>4, AskedTotal

\* With the blocks of JUMP added, it gets what it owed and what they exhaust.
LEMMA JumpIs ==
    ASSUME NEW others \in Plans, others[JUMP] = NoTraversals,
           NEW d \in [1 .. Len(Sizes) -> Nat], NEW rows \in Nat, NEW l, Exhausts(l, rows, d, 1)
    PROVE  /\ [others EXCEPT ![JUMP] = d] \in Plans
           /\ Delivered([others EXCEPT ![JUMP] = d], JUMP) + Traversals([others EXCEPT ![JUMP] = d])
              = Traversals(others) + rows
           /\ Traversals(others) \in Nat
<1> DEFINE plan == [others EXCEPT ![JUMP] = d]
           n == 6 * Len(Sizes)
           one == [i \in Kinds |-> IF TableOf(i) = JUMP THEN Asked(plan, i) ELSE 0]
           dummies == AskedOf(plan, JUMP, 0)
           both == AskedOf(plan, JUMP, 1)
           all == [i \in Kinds |-> Asked(plan, i)]
           before == [i \in Kinds |-> Asked(others, i)]
<1>1. JUMP \in Tables
  BY DEF Tables, JUMP
<1>2. plan \in Plans /\ plan[JUMP] = d /\ \A t \in Tables \ {JUMP} : plan[t] = others[t]
  BY <1>1 DEF Plans
<1> HIDE DEF plan
<1>3. \A i \in Kinds : /\ Asked(plan, i) \in Nat /\ SizeOf(i) \in Nat /\ Asked(others, i) \in Nat
                       /\ TableOf(i) \in Tables /\ PlaceOf(i) \in 1 .. Len(Sizes)
  BY <1>2, AskedIs, KindIs
<1>4. Len(Sizes) \in Nat /\ n \in Nat /\ DOMAIN Sizes = 1 .. Len(Sizes)
  BY SizesAre
<1>5. Kinds = 1 .. n
  BY DEF Kinds
<1>6. one \in [1 .. n -> Nat] /\ all \in [1 .. n -> Nat] /\ before \in [1 .. n -> Nat]
  BY <1>3, <1>5
<1>7. \A x, y, e \in Nat : x * (y + e) \in Nat /\ x * (y + 1) = x * (y + 0) + x
  BY Z3
<1>8. \A i \in Kinds : /\ Asked(plan, i) * (SizeOf(i) + 1) = Asked(plan, i) * (SizeOf(i) + 0) + Asked(plan, i)
                       /\ Asked(plan, i) * (SizeOf(i) + 1) \in Nat
                       /\ Asked(plan, i) * (SizeOf(i) + 0) \in Nat
  BY <1>3, <1>7
<1>9. dummies \in [1 .. n -> Nat] /\ both \in [1 .. n -> Nat]
  BY <1>5, <1>8 DEF AskedOf
<1>10. \A i \in 1 .. n : both[i] = dummies[i] + one[i]
  BY <1>3, <1>5, <1>8 DEF AskedOf
<1>11. ASSUME NEW i \in 1 .. n
       PROVE  all[i] = before[i] + one[i]
  <2>1. i \in Kinds
    BY <1>5
  <2>2. Asked(plan, i) = plan[TableOf(i)][PlaceOf(i)] /\ Asked(others, i) = others[TableOf(i)][PlaceOf(i)]
    BY DEF Asked, PlaceOf
  <2>3. CASE TableOf(i) = JUMP
    <3>1. Asked(others, i) = 0
      BY <1>3, <1>4, <2>1, <2>2, <2>3 DEF NoTraversals
    <3>2. all[i] = Asked(plan, i) /\ before[i] = 0 /\ one[i] = Asked(plan, i) /\ Asked(plan, i) \in Nat
      BY <1>3, <2>1, <2>3, <3>1
    <3> HIDE DEF all, before, one
    <3>3. QED
      BY <3>2
  <2>4. CASE TableOf(i) # JUMP
    <3>1. Asked(plan, i) = Asked(others, i)
      BY <1>2, <1>3, <2>1, <2>2, <2>4
    <3>2. all[i] = Asked(others, i) /\ before[i] = Asked(others, i) /\ one[i] = 0 /\ Asked(others, i) \in Nat
      BY <1>3, <2>1, <2>4, <3>1
    <3> HIDE DEF all, before, one
    <3>3. QED
      BY <3>2
  <2>5. QED
    BY <2>3, <2>4
<1>12. Traversals(plan) = Total(all) /\ Traversals(others) = Total(before)
  BY DEF Traversals
<1>13. Delivered(plan, JUMP) = Total(dummies)
  <2>1. \A i \in Kinds : SizeOf(i) + 0 = SizeOf(i)
    BY <1>3
  <2>2. dummies = [i \in Kinds |-> IF TableOf(i) = JUMP THEN Asked(plan, i) * SizeOf(i) ELSE 0]
    BY <2>1 DEF AskedOf
  <2>3. QED
    BY <2>2, Zenon DEF Delivered
<1>14. Total(both) = rows
  BY <1>1, <1>2, AskedTotal
<1> HIDE DEF n, one, dummies, both, all, before
<1>15. Total(both) = Total(dummies) + Total(one) /\ Total(dummies) \in Nat /\ Total(one) \in Nat
  BY <1>4, <1>6, <1>9, <1>10, TotalsAdd, ZenonT(60)
<1>16. Total(all) = Total(before) + Total(one) /\ Total(before) \in Nat
  BY <1>4, <1>6, <1>11, TotalsAdd
<1>17. Delivered(plan, JUMP) + Traversals(plan) = Traversals(others) + rows /\ Traversals(others) \in Nat
  BY <1>12, <1>13, <1>14, <1>15, <1>16
<1>18. QED
  BY <1>2, <1>17 DEF plan

\* What the traversals and a table's blocks are, for any plan.
LEMMA FilledIs ==
    ASSUME NEW base \in [Tables -> Nat], NEW plan \in Plans
    PROVE  /\ Traversals(plan) \in Nat /\ \A t \in Tables : Delivered(plan, t) \in Nat
           /\ \A t \in Tables : Filled(base, plan)[t] \in Nat
           /\ \A t \in Tables \ {JUMP} : Filled(base, plan)[t] = base[t] + Delivered(plan, t)
           /\ Filled(base, plan)[JUMP] = base[JUMP] + Delivered(plan, JUMP) + Traversals(plan)
<1> DEFINE n == 6 * Len(Sizes)
<1>1. Len(Sizes) \in Nat /\ n \in Nat /\ Kinds = 1 .. n
  BY SizesAre DEF Kinds
<1>2. \A i \in Kinds : Asked(plan, i) \in Nat /\ SizeOf(i) \in Nat
  BY AskedIs
<1>3. ASSUME NEW f \in [1 .. n -> Nat]
      PROVE  Total(f) \in Nat
  <2> HIDE DEF n
  <2>1. IsSum(Partial(f), n, f) /\ Total(f) = Partial(f)[n]
    BY <1>1, PartialIs
  <2>2. n \in 0 .. n
    BY <1>1
  <2>3. QED
    BY <2>1, <2>2 DEF IsSum
<1>4. Traversals(plan) \in Nat
  <2>1. [i \in Kinds |-> Asked(plan, i)] \in [1 .. n -> Nat]
    BY <1>1, <1>2
  <2> HIDE DEF n
  <2>2. QED
    BY <1>3, <2>1 DEF Traversals
<1>5. ASSUME NEW t \in Tables
      PROVE  Delivered(plan, t) \in Nat
  <2>1. \A x, y \in Nat : x * y \in Nat
    OBVIOUS
  <2>2. \A i \in Kinds : (IF TableOf(i) = t THEN Asked(plan, i) * SizeOf(i) ELSE 0) \in Nat
    BY <1>2, <2>1
  <2>3. [i \in Kinds |-> IF TableOf(i) = t THEN Asked(plan, i) * SizeOf(i) ELSE 0] \in [1 .. n -> Nat]
    BY <1>1, <2>2
  <2> HIDE DEF n
  <2>4. QED
    BY <1>3, <2>3 DEF Delivered
<1>6. JUMP \in Tables
  BY DEF Tables, JUMP
<1>7. \A t \in Tables : Filled(base, plan)[t] = base[t] + Delivered(plan, t) + (IF t = JUMP THEN Traversals(plan) ELSE 0)
  BY DEF Filled
<1>8. QED
  BY <1>4, <1>5, <1>6, <1>7

\* The solver (filler.rs, solve) always finds a plan: the gap of JUMP is closed after a
\* few doublings of its target. The plan takes every table to a power of two.
THEOREM PlanIsFound ==
    ASSUME NEW base \in [Tables -> Nat], NEW floor \in Nat
    PROVE  Solved(base, floor, Solve(base, floor)) /\ Solve(base, floor) # None
<1> DEFINE others == Others(base, floor)
           owed == Owed(base, others)
           c == JumpTarget(base, floor)
           gap(k) == 2 ^ k * c - owed
           Settled(k) == DecomposeJump(gap(k)) # None
           first == CHOOSE k \in 0 .. MaxDoublings :
                      Settled(k) /\ \A j \in 0 .. k - 1 : DecomposeJump(gap(j)) = None
<1>1. Solve(base, floor) = IF \E k \in 0 .. MaxDoublings : Settled(k)
                           THEN [others EXCEPT ![JUMP] = DecomposeJump(gap(first))] ELSE None
  BY ZenonT(60) DEF Solve, Others, Target, JumpTarget
<1>2. JUMP \in Tables /\ PAD_TABLE \in Tables /\ JUMP # PAD_TABLE
  BY DEF Tables, JUMP, PAD_TABLE, SET
<1>3. base[JUMP] \in Nat /\ MinRows[JUMP] \in Nat \ {0}
  BY <1>2, FillAssumption
<1>4. others \in Plans /\ others[JUMP] = NoTraversals
  BY OthersAre
<1>5. owed \in Nat /\ owed = base[JUMP] + Traversals(others) /\ Traversals(others) \in Nat
  <2> HIDE DEF others
  <2>1. Traversals(others) \in Nat
    BY <1>4, FilledIs
  <2>2. QED
    BY <1>3, <2>1 DEF Owed
<1>6. c \in Nat \ {0} /\ c >= owed /\ c >= MinRows[JUMP] /\ \E l \in Nat : c = 2 ^ l
  <2> DEFINE x == Larger(owed, MinRows[JUMP])
  <2>1. x \in Nat /\ x >= owed /\ x >= MinRows[JUMP]
    <3> HIDE DEF owed
    <3>1. QED
      BY <1>3, <1>5 DEF Larger
  <2>2. c = CeilPow2(x)
    BY DEF JumpTarget
  <2> HIDE DEF x, c, owed
  <2>3. c \in Nat \ {0} /\ c >= x
    BY <2>1, <2>2, CeilIs
  <2>4. Log2Ceil(x) \in Nat /\ c = 2 ^ Log2Ceil(x)
    BY <2>1, <2>2, LogIs DEF CeilPow2
  <2>5. QED
    BY <1>3, <1>5, <2>1, <2>3, <2>4
<1> HIDE DEF c, owed, others
<1>7. ASSUME NEW k \in Nat
      PROVE  gap(k) \in Nat /\ 2 ^ k * c >= c /\ 2 ^ k * c \in Nat
  <2>1. 2 ^ k \in Nat \ {0}
    BY PowersGrow
  <2>2. \A x \in Nat \ {0}, y \in Nat : x * y >= y /\ x * y \in Nat
    BY Z3
  <2> DEFINE w == 2 ^ k
             v == w * c
  <2>3. v >= c /\ v \in Nat
    BY <1>6, <2>1, <2>2
  <2> HIDE DEF w, v
  <2>4. v - owed \in Nat
    BY <1>5, <1>6, <2>3
  <2>5. QED
    BY <2>3, <2>4 DEF v, w
<1>8. ASSUME NEW k \in Nat
      PROVE  IF gap(k) = 1 THEN ~Settled(k)
             ELSE Settled(k) /\ \E l : Exhausts(l, gap(k), DecomposeJump(gap(k)), 1)
  <2> DEFINE x == gap(k)
  <2>1. x \in Nat
    BY <1>7
  <2> HIDE DEF x
  <2>2. IF x = 1 THEN DecomposeJump(x) = None ELSE \E l : Exhausts(l, x, DecomposeJump(x), 1)
    BY <2>1, DecomposeJumpIs
  <2>3. ASSUME NEW l, Exhausts(l, x, DecomposeJump(x), 1)
        PROVE  DecomposeJump(x) # None
    <3> DEFINE d == DecomposeJump(x)
    <3>1. d \in [1 .. Len(Sizes) -> Nat] /\ 1 \in 1 .. Len(Sizes)
      BY <2>3, SizesAre DEF Exhausts
    <3> HIDE DEF d
    <3>2. d # None
      BY <3>1 DEF None
    <3>3. QED
      BY <3>2 DEF d
  <2>4. CASE x = 1
    BY <2>2, <2>4 DEF x
  <2>5. CASE x # 1
    <3>1. PICK l : Exhausts(l, x, DecomposeJump(x), 1)
      BY <2>2, <2>5
    <3>2. DecomposeJump(x) # None
      BY <2>3, <3>1
    <3>3. QED
      BY <2>5, <3>1, <3>2 DEF x
  <2>6. QED
    BY <2>4, <2>5
<1>9. \E k \in 0 .. MaxDoublings : Settled(k)
  <2>1. CASE gap(0) # 1
    <3>1. 0 \in 0 .. MaxDoublings /\ 0 \in Nat
      BY DEF MaxDoublings
    <3> HIDE DEF Settled, gap
    <3>2. Settled(0)
      BY <1>8, <2>1, <3>1
    <3>3. QED
      BY <3>1, <3>2
  <2>2. CASE gap(0) = 1
    <3>1. 1 \in 0 .. MaxDoublings /\ 1 \in Nat /\ 2 ^ 0 = 1 /\ 2 ^ 1 = 2
      BY DEF MaxDoublings
    <3>2. gap(1) # 1
      <4>1. 1 * c - owed = 1
        BY <2>2, <3>1
      <4>2. gap(1) = 2 * c - owed
        BY <3>1
      <4> HIDE DEF gap
      <4>3. QED
        BY <1>5, <1>6, <4>1, <4>2
    <3> HIDE DEF Settled, gap
    <3>3. Settled(1)
      BY <1>8, <3>1, <3>2
    <3>4. QED
      BY <3>1, <3>3
  <2>3. QED
    BY <2>1, <2>2
<1>10. first \in 0 .. MaxDoublings /\ Settled(first)
  <2> DEFINE Unsettled(j) == DecomposeJump(gap(j)) = None
  <2>1. \A j : Unsettled(j) <=> ~Settled(j)
    OBVIOUS
  <2>2. first = CHOOSE k \in 0 .. MaxDoublings : Settled(k) /\ \A j \in 0 .. k - 1 : Unsettled(j)
    OBVIOUS
  <2> HIDE DEF Settled, Unsettled, gap, first
  <2> DEFINE T == {k \in 0 .. MaxDoublings : Settled(k)}
  <2>3. T \in SUBSET Nat /\ T # {}
    BY <1>9
  <2>4. PICK k \in T : \A m \in T : k <= m
    <3> HIDE DEF T
    <3>1. QED
      BY <2>3, LeastElement
  <2>5. ASSUME NEW j \in 0 .. k - 1
        PROVE  Unsettled(j)
    <3>1. j \in 0 .. MaxDoublings /\ ~(k <= j)
      BY DEF MaxDoublings
    <3>2. QED
      BY <2>1, <2>4, <3>1
  <2>6. k \in 0 .. MaxDoublings /\ Settled(k) /\ \A j \in 0 .. k - 1 : Unsettled(j)
    BY <2>5
  <2>7. QED
    BY <2>2, <2>6, Zenon
<1> DEFINE d == DecomposeJump(gap(first))
           plan == [others EXCEPT ![JUMP] = d]
<1>11. Solve(base, floor) = plan
  BY <1>1, <1>9
<1>12. first \in Nat
  <2> HIDE DEF first
  <2>1. QED
    BY <1>10 DEF MaxDoublings
<1> HIDE DEF first
<1>13. PICK l : Exhausts(l, gap(first), d, 1)
  <2> HIDE DEF Settled, gap
  <2>1. QED
    BY <1>8, <1>10, <1>12
<1> HIDE DEF d
<1>14. d \in [1 .. Len(Sizes) -> Nat] /\ gap(first) \in Nat
  <2>1. d \in [1 .. Len(Sizes) -> Nat]
    BY <1>13 DEF Exhausts
  <2>2. QED
    BY <1>7, <1>12, <2>1
<1>15. plan \in Plans /\ Delivered(plan, JUMP) + Traversals(plan) = Traversals(others) + gap(first)
  <2> HIDE DEF gap
  <2>1. QED
    BY <1>4, <1>13, <1>14, JumpIs
<1>16. \A t \in Tables \ {JUMP} : plan[t] = others[t]
  BY <1>4 DEF Plans
<1> HIDE DEF plan
<1>17. /\ Traversals(plan) \in Nat /\ \A t \in Tables : Delivered(plan, t) \in Nat
       /\ \A t \in Tables : Filled(base, plan)[t] \in Nat
       /\ \A t \in Tables \ {JUMP} : Filled(base, plan)[t] = base[t] + Delivered(plan, t)
       /\ Filled(base, plan)[JUMP] = base[JUMP] + Delivered(plan, JUMP) + Traversals(plan)
  BY <1>15, FilledIs
<1>18. Filled(base, plan)[JUMP] = 2 ^ first * c
  <2> DEFINE v == 2 ^ first * c
             x == Delivered(plan, JUMP)
             y == Traversals(plan)
             z == Traversals(others)
             b == base[JUMP]
  <2>1. gap(first) = v - owed /\ v \in Nat /\ owed = b + z /\ x + y = z + gap(first)
    BY <1>5, <1>7, <1>12, <1>15
  <2>2. x \in Nat /\ y \in Nat /\ z \in Nat /\ b \in Nat
    BY <1>2, <1>3, <1>5, <1>17
  <2> DEFINE w == gap(first)
  <2>3. w = v - owed /\ x + y = z + w
    BY <2>1
  <2> HIDE DEF v, x, y, z, b, w, gap
  <2>4. (b + x) + y = v
    BY <2>1, <2>2, <2>3
  <2>5. Filled(base, plan)[JUMP] = b + x + y
    BY <1>17 DEF b, x, y
  <2>6. QED
    BY <2>4, <2>5 DEF v
<1>19. ASSUME NEW t \in Tables \ {JUMP}
       PROVE  Filled(base, plan)[t] = CeilPow2(Target(base, floor, t))
  <2>1. PICK m : Exhausts(m, CeilPow2(Target(base, floor, t)) - base[t], others[t], 0)
    BY OthersAre DEF others
  <2>2. Delivered(plan, t) = CeilPow2(Target(base, floor, t)) - base[t]
    BY <1>15, <1>16, <2>1, DeliveredIs
  <2>3. CeilPow2(Target(base, floor, t)) \in Nat /\ base[t] \in Nat
    BY TargetIs
  <2>4. Filled(base, plan)[t] = base[t] + Delivered(plan, t)
    BY <1>17
  <2>5. QED
    BY <2>2, <2>3, <2>4
<1>20. ASSUME NEW t \in Tables
       PROVE  /\ Filled(base, plan)[t] >= base[t] /\ Filled(base, plan)[t] >= MinRows[t]
              /\ Filled(base, plan)[t] = CeilPow2(Filled(base, plan)[t])
              /\ t \notin {JUMP, PAD_TABLE} => Filled(base, plan)[t] < 2 * Larger(base[t], MinRows[t])
  <2>1. CASE t = JUMP
    <3> DEFINE v == 2 ^ first * c
    <3>1. v >= c /\ v \in Nat
      BY <1>7, <1>12
    <3>2. PICK m \in Nat : c = 2 ^ m
      BY <1>6
    <3>3. v = 2 ^ (first + m)
      BY <1>12, <3>2, Powers
    <3>4. CeilPow2(v) = v
      <4>1. first + m \in Nat
        BY <1>12
      <4>2. QED
        BY <3>3, <4>1, CeilOfPower
    <3>5. Filled(base, plan)[JUMP] = v
      BY <1>18
    <3> HIDE DEF v
    <3>6. v >= base[JUMP] /\ v >= MinRows[JUMP]
      BY <1>3, <1>5, <1>6, <3>1
    <3>7. QED
      BY <2>1, <3>4, <3>5, <3>6
  <2>2. CASE t # JUMP
    <3> DEFINE y == Target(base, floor, t)
               v == CeilPow2(y)
    <3>1. /\ y \in Nat /\ y >= base[t] /\ y >= MinRows[t] /\ v \in Nat /\ v >= y /\ v < 2 * y
          /\ CeilPow2(v) = v /\ (t # PAD_TABLE => y = Larger(base[t], MinRows[t]))
      BY TargetIs
    <3>2. Filled(base, plan)[t] = v
      BY <1>19, <2>2
    <3>3. base[t] \in Nat /\ MinRows[t] \in Nat
      BY FillAssumption
    <3> HIDE DEF v, y
    <3>4. QED
      BY <3>1, <3>2, <3>3
  <2>3. QED
    BY <2>1, <2>2
<1>21. Filled(base, plan)[PAD_TABLE] >= floor
  <2> DEFINE y == Target(base, floor, PAD_TABLE)
  <2>1. y \in Nat /\ y >= floor /\ CeilPow2(y) \in Nat /\ CeilPow2(y) >= y
    BY <1>2, TargetIs
  <2>2. Filled(base, plan)[PAD_TABLE] = CeilPow2(y)
    BY <1>2, <1>19
  <2> HIDE DEF y
  <2>3. QED
    BY <2>1, <2>2
<1>22. plan # None
  BY <1>2, <1>15 DEF Plans, None
<1>23. QED
  BY <1>11, <1>15, <1>17, <1>20, <1>21, <1>22 DEF Solved

-----------------------------------------------------------------------------
(***************************************************************************)
(* The plan that is run.                                                   *)
(***************************************************************************)

\* The rows PAD_TABLE is asked for, one plan after the other.
Raised(base, x) == 2 * Filled(base, Solve(base, x))[PAD_TABLE]
Raising(h, base) == [i \in 0 .. MaxLogRows + 1 |-> IF i = 0 THEN 0 ELSE Raised(base, h[i - 1])]

\* They are raised until no table is large enough.
IsRaised(h, base) ==
    /\ \A i \in 0 .. MaxLogRows + 1 : h[i] \in Nat
    /\ h[MaxLogRows + 1] > 2 ^ MaxLogRows

\* There are such floors, and the last is past every table.
LEMMA FloorsAre ==
    ASSUME NEW base \in [Tables -> Nat]
    PROVE  IsRaised(CHOOSE h : h = Raising(h, base), base)
<1> DEFINE n == MaxLogRows + 1
           h == CHOOSE f : f = Raising(f, base)
           rise == [x \in Nat |-> Raised(base, x)]
<1>1. MaxLogRows \in Nat /\ n \in Nat /\ n > 0
  BY FillAssumption
<1>2. ASSUME NEW x \in Nat
      PROVE  Raised(base, x) \in Nat /\ Raised(base, x) >= 2 * x /\ Raised(base, x) >= 2
  <2> DEFINE y == Filled(base, Solve(base, x))[PAD_TABLE]
  <2>1. PAD_TABLE \in Tables
    BY DEF PAD_TABLE, SET, Tables
  <2>2. y \in Nat /\ y >= MinRows[PAD_TABLE] /\ y >= x /\ MinRows[PAD_TABLE] \in Nat \ {0}
    BY <2>1, PlanIsFound, FillAssumption DEF Solved
  <2>3. Raised(base, x) = 2 * y
    BY DEF Raised
  <2> HIDE DEF y
  <2>4. QED
    BY <2>2, <2>3
<1>3. rise \in [Nat -> Nat]
  BY <1>2
<1>4. PICK g : IsIteration(g, n, Nat, 0, rise)
  <2> HIDE DEF rise, n
  <2>1. QED
    BY <1>1, <1>3, Iterates
<1>5. g \in [0 .. n -> Nat] /\ g[0] = 0
  BY <1>4 DEF IsIteration
<1>6. ASSUME NEW i \in 1 .. n
      PROVE  g[i] = Raised(base, g[i - 1])
  <2>1. i - 1 \in 0 .. n /\ g[i - 1] \in Nat
    BY <1>1, <1>5
  <2>2. g[i] = rise[g[i - 1]]
    BY <1>4 DEF IsIteration
  <2>3. QED
    BY <2>1, <2>2
<1>7. g = Raising(g, base)
  <2>1. ASSUME NEW i \in 0 .. n
        PROVE  g[i] = IF i = 0 THEN 0 ELSE Raised(base, g[i - 1])
    <3>1. i = 0 \/ i \in 1 .. n
      BY <1>1
    <3>2. QED
      BY <1>5, <1>6, <3>1
  <2>2. g = [i \in 0 .. n |-> g[i]]
    BY <1>5
  <2>3. QED
    BY <2>1, <2>2 DEF Raising
<1>8. h = Raising(h, base)
  BY <1>7
<1> HIDE DEF h, rise
<1>9. \A i \in 0 .. n : h[i] = IF i = 0 THEN 0 ELSE Raised(base, h[i - 1])
  BY <1>8 DEF Raising
<1> HIDE DEF n
<1>10. h[0] = 0
  <2>1. 0 \in 0 .. n
    BY <1>1
  <2>2. h[0] = IF 0 = 0 THEN 0 ELSE Raised(base, h[0 - 1])
    BY <1>9, <2>1, Zenon
  <2>3. QED
    BY <2>2
<1> DEFINE S == {i \in 0 .. n : h[i] \in Nat /\ (i > 0 => h[i] >= 2 ^ i)}
<1>11. \A i \in 0 .. n : i \in S
  <2>1. 0 \in S
    BY <1>1, <1>10
  <2>2. ASSUME NEW i \in 0 .. n - 1, i \in S
        PROVE  i + 1 \in S
    <3>1. i + 1 \in 0 .. n /\ i + 1 # 0 /\ (i + 1) - 1 = i /\ i \in Nat /\ i + 1 > 0
      BY <1>1
    <3>2. h[i + 1] = Raised(base, h[i])
      BY <1>9, <3>1
    <3>3. h[i] \in Nat /\ (i > 0 => h[i] >= 2 ^ i)
      BY <2>2
    <3>4. h[i + 1] \in Nat /\ h[i + 1] >= 2 * h[i] /\ h[i + 1] >= 2
      BY <1>2, <3>2, <3>3
    <3>5. h[i + 1] >= 2 ^ (i + 1)
      <4> DEFINE v == 2 ^ i
                 w == 2 ^ (i + 1)
      <4>1. w = 2 * v /\ v \in Nat
        BY <3>1, Doubling
      <4>2. i = 0 => v = 1
        OBVIOUS
      <4>3. i > 0 => h[i] >= v
        BY <3>3
      <4> HIDE DEF v, w
      <4>4. h[i + 1] >= w
        BY <3>1, <3>3, <3>4, <4>1, <4>2, <4>3
      <4>5. QED
        BY <4>4 DEF w
    <3>6. QED
      BY <3>1, <3>4, <3>5
  <2> HIDE DEF S
  <2>3. QED
    BY <1>1, <2>1, <2>2, UpTo
<1>12. \A i \in 0 .. n : h[i] \in Nat
  BY <1>11
<1>13. h[n] > 2 ^ MaxLogRows
  <2>1. n \in 0 .. n /\ MaxLogRows \in 0 .. n /\ MaxLogRows < n
    BY <1>1 DEF n
  <2>2. h[n] >= 2 ^ n /\ h[n] \in Nat
    BY <1>1, <1>11, <2>1
  <2>3. 2 ^ n \in Nat /\ 2 ^ MaxLogRows \in Nat /\ 2 ^ MaxLogRows < 2 ^ n
    BY <1>1, <2>1, PowersGrow
  <2>4. QED
    BY <2>2, <2>3
<1>14. QED
  BY <1>12, <1>13 DEF IsRaised, n, h

\* A plan that was found fills, and reaches the witness asked for.
Planned(base, start, plan) ==
    /\ \E floor \in Nat : Solved(base, floor, plan)
    /\ CommittedLog(start + Frames(plan) * CELLS, Filled(base, plan)) >= MinLog

\* The plan that is found fills, and reaches the witness asked for.
LEMMA PlanIs ==
    ASSUME NEW base \in [Tables -> Nat], NEW start \in Nat, Plan(base, start) # None
    PROVE  Planned(base, start, Plan(base, start))
<1> DEFINE h == CHOOSE f : f = Raising(f, base)
           Refused(i) == h[i] > 2 ^ MaxLogRows \/ Solve(base, h[i]) = None
           Reaches(i) == /\ Solve(base, h[i]) # None
                         /\ CommittedLog(start + Frames(Solve(base, h[i])) * CELLS,
                                         Filled(base, Solve(base, h[i]))) >= MinLog
           last == CHOOSE i \in 0 .. MaxLogRows + 1 :
                     /\ Refused(i) \/ Reaches(i)
                     /\ \A j \in 0 .. i - 1 : ~Refused(j) /\ ~Reaches(j)
<1>1. Plan(base, start) = IF Refused(last) THEN None ELSE Solve(base, h[last])
  BY Zenon DEF Plan, Raising, Raised
<1>2. /\ \A i \in 0 .. MaxLogRows + 1 : h[i] \in Nat
      /\ h[MaxLogRows + 1] > 2 ^ MaxLogRows
  BY FloorsAre DEF IsRaised
<1>3. MaxLogRows + 1 \in Nat
  BY FillAssumption
<1> HIDE DEF h
<1>4. Refused(MaxLogRows + 1)
  BY <1>2
<1> HIDE DEF Refused, Reaches
<1>5. last \in 0 .. MaxLogRows + 1 /\ (Refused(last) \/ Reaches(last))
  <2> DEFINE T == {i \in 0 .. MaxLogRows + 1 : Refused(i) \/ Reaches(i)}
  <2>1. T \in SUBSET Nat /\ T # {}
    BY <1>3, <1>4
  <2>2. PICK k \in T : \A m \in T : k <= m
    <3> HIDE DEF T
    <3>1. QED
      BY <2>1, LeastElement
  <2>3. ASSUME NEW j \in 0 .. k - 1
        PROVE  ~Refused(j) /\ ~Reaches(j)
    <3>1. j \in 0 .. MaxLogRows + 1 /\ ~(k <= j)
      BY <1>3
    <3>2. QED
      BY <2>2, <3>1
  <2>4. /\ k \in 0 .. MaxLogRows + 1
        /\ Refused(k) \/ Reaches(k)
        /\ \A j \in 0 .. k - 1 : ~Refused(j) /\ ~Reaches(j)
    BY <2>3
  <2>5. QED
    BY <2>4, Zenon
<1> HIDE DEF last
<1>6. Reaches(last) /\ Plan(base, start) = Solve(base, h[last])
  BY <1>1, <1>5
<1>7. h[last] \in Nat
  BY <1>2, <1>5
<1> DEFINE plan == Plan(base, start)
<1>8. Solved(base, h[last], plan)
  BY <1>6, <1>7, PlanIsFound
<1>9. CommittedLog(start + Frames(plan) * CELLS, Filled(base, plan)) >= MinLog
  BY <1>6 DEF Reaches
<1>10. QED
  BY <1>7, <1>8, <1>9 DEF Planned

-----------------------------------------------------------------------------
(***************************************************************************)
(* The blocks in the code.                                                 *)
(***************************************************************************)

\* No two sizes are the same.
LEMMA SizesDiffer ==
    \A j, k \in 1 .. Len(Sizes) : Sizes[j] = Sizes[k] => j = k
<1> DEFINE n == Len(Sizes)
<1>1. n \in Nat /\ n >= 2 /\ Sizes \in [1 .. n -> Nat \ {0}]
  BY SizesAre
<1>2. \A k \in 1 .. n - 1 : Sizes[k] = 2 * Sizes[k + 1]
  BY FillAssumption
<1> HIDE DEF n
<1>3. ASSUME NEW j \in 1 .. n, NEW k \in 1 .. n, j < k
      PROVE  Sizes[k] < Sizes[j]
  <2> DEFINE S == {d \in 0 .. k - j : d > 0 => Sizes[j + d] < Sizes[j]}
  <2>1. 0 \in S
    BY <1>3
  <2>2. ASSUME NEW d \in 0 .. (k - j) - 1, d \in S
        PROVE  d + 1 \in S
    <3>1. j + d \in 1 .. n - 1 /\ (j + d) + 1 = j + (d + 1) /\ d + 1 \in 0 .. k - j
          /\ j + (d + 1) \in 1 .. n /\ j + d \in 1 .. n
      BY <1>1, <1>3
    <3>2. Sizes[j + d] = 2 * Sizes[j + (d + 1)]
      BY <1>2, <3>1
    <3>3. Sizes[j + d] \in Nat \ {0} /\ Sizes[j + (d + 1)] \in Nat \ {0} /\ Sizes[j] \in Nat \ {0}
      BY <1>1, <3>1
    <3>4. d > 0 => Sizes[j + d] < Sizes[j]
      BY <2>2
    <3>5. d = 0 => Sizes[j + d] = Sizes[j]
      OBVIOUS
    <3> DEFINE x == Sizes[j + d]
               y == Sizes[j + (d + 1)]
               z == Sizes[j]
    <3>6. x = 2 * y /\ x \in Nat /\ y \in Nat \ {0} /\ z \in Nat /\ (d > 0 => x < z) /\ (d = 0 => x = z)
      BY <3>2, <3>3, <3>4, <3>5
    <3> HIDE DEF x, y, z
    <3>7. y < z
      BY <3>6
    <3>8. QED
      BY <3>1, <3>7 DEF y, z
  <2>3. k - j \in Nat /\ k - j \in 0 .. k - j /\ k - j > 0 /\ j + (k - j) = k
    BY <1>3
  <2> HIDE DEF S
  <2>4. \A d \in 0 .. k - j : d \in S
    BY <2>1, <2>2, <2>3, UpTo
  <2>5. k - j \in S
    BY <2>3, <2>4
  <2>6. Sizes[j + (k - j)] < Sizes[j]
    BY <2>3, <2>5 DEF S
  <2>7. QED
    BY <2>3, <2>6
<1>4. ASSUME NEW j \in 1 .. n, NEW k \in 1 .. n, Sizes[j] = Sizes[k]
      PROVE  j = k
  <2>1. Sizes[j] \in Nat /\ Sizes[k] \in Nat
    BY <1>1
  <2>2. ~(j < k) /\ ~(k < j)
    BY <1>3, <1>4, <2>1
  <2>3. QED
    BY <2>2
<1>5. QED
  BY <1>4 DEF n

\* The recursion of the blocks' places.
Laying(p) == [i \in Kinds |-> IF i = 1 THEN 1 ELSE p[i - 1] + SizeOf(i - 1) + 1]

\* The blocks follow each other.
Laid(bs) ==
    /\ DOMAIN bs = Kinds
    /\ \A i \in Kinds : bs[i].size = SizeOf(i) /\ bs[i].table = TableOf(i) /\ bs[i].pc \in Nat
    /\ \A i, j \in Kinds : i < j => bs[i].pc + SizeOf(i) < bs[j].pc

\* The blocks of a program do.
LEMMA EmittedIs == Laid(Emitted)
<1> DEFINE n == 6 * Len(Sizes)
           pcs == CHOOSE p : p = Laying(p)
           next == [i \in 1 .. n |-> [x \in Nat |-> IF i = 1 THEN 1 ELSE x + SizeOf(i - 1) + 1]]
<1>1. n \in Nat /\ n >= 12 /\ Kinds = 1 .. n
  BY SizesAre DEF Kinds
<1>2. \A i \in Kinds : SizeOf(i) \in Nat \ {0}
  <2>1. \A i \in Kinds : PlaceOf(i) \in 1 .. Len(Sizes) /\ SizeOf(i) = Sizes[PlaceOf(i)]
    BY KindIs DEF SizeOf, PlaceOf
  <2>2. QED
    BY <2>1, SizesAre
<1> HIDE DEF n
<1>3. next \in [1 .. n -> [Nat -> Nat]]
  <2>1. ASSUME NEW i \in 1 .. n
        PROVE  [x \in Nat |-> IF i = 1 THEN 1 ELSE x + SizeOf(i - 1) + 1] \in [Nat -> Nat]
    <3>1. i # 1 => i - 1 \in Kinds
      BY <1>1
    <3>2. i # 1 => SizeOf(i - 1) \in Nat
      BY <1>2, <3>1
    <3>3. ASSUME NEW x \in Nat
          PROVE  (IF i = 1 THEN 1 ELSE x + SizeOf(i - 1) + 1) \in Nat
      BY <3>2
    <3>4. QED
      BY <3>3
  <2>2. QED
    BY <2>1
<1>4. PICK g : IsRun(g, n, Nat, 0, next)
  <2> HIDE DEF next
  <2>1. QED
    BY <1>1, <1>3, Runs
<1>5. ASSUME NEW i \in 1 .. n
      PROVE  g[i] = IF i = 1 THEN 1 ELSE g[i - 1] + SizeOf(i - 1) + 1
  <2>1. i - 1 \in 0 .. n /\ g[i - 1] \in Nat
    BY <1>1, <1>4 DEF IsRun
  <2>2. g[i] = next[i][g[i - 1]]
    BY <1>4 DEF IsRun
  <2>3. QED
    BY <2>1, <2>2
<1> DEFINE f == [i \in Kinds |-> g[i]]
<1>6. f = Laying(f)
  <2>1. ASSUME NEW i \in Kinds
        PROVE  f[i] = IF i = 1 THEN 1 ELSE f[i - 1] + SizeOf(i - 1) + 1
    <3>1. f[i] = g[i] /\ (i # 1 => i - 1 \in Kinds)
      BY <1>1
    <3>2. i # 1 => f[i - 1] = g[i - 1]
      BY <3>1
    <3>3. QED
      BY <1>1, <1>5, <3>1, <3>2
  <2>2. f = [i \in Kinds |-> f[i]]
    OBVIOUS
  <2> HIDE DEF f
  <2>3. QED
    BY <2>1, <2>2 DEF Laying
<1>7. pcs = Laying(pcs)
  <2> HIDE DEF f
  <2>1. QED
    BY <1>6
<1>8. Emitted = [i \in Kinds |-> [pc |-> pcs[i], size |-> SizeOf(i), table |-> TableOf(i)]]
  BY Zenon DEF Emitted, Laying
<1> HIDE DEF pcs, f, next
<1>9. \A i \in Kinds : pcs[i] = IF i = 1 THEN 1 ELSE pcs[i - 1] + SizeOf(i - 1) + 1
  BY <1>7 DEF Laying
<1>10. 1 \in Kinds /\ pcs[1] = 1
  BY <1>1, <1>9
<1>11. ASSUME NEW i \in Kinds, i + 1 \in Kinds
       PROVE  pcs[i + 1] = pcs[i] + SizeOf(i) + 1
  <2>1. (i + 1) - 1 = i /\ i + 1 # 1
    BY <1>1
  <2>2. pcs[i + 1] = IF i + 1 = 1 THEN 1 ELSE pcs[(i + 1) - 1] + SizeOf((i + 1) - 1) + 1
    BY <1>9, <1>11, Zenon
  <2>3. QED
    BY <2>1, <2>2
<1>12. \A i \in Kinds : pcs[i] \in Nat
  <2> DEFINE S == {d \in 0 .. n - 1 : pcs[d + 1] \in Nat}
  <2>1. 0 \in S
    BY <1>1, <1>10
  <2>2. ASSUME NEW d \in 0 .. (n - 1) - 1, d \in S
        PROVE  d + 1 \in S
    <3>1. d + 1 \in Kinds /\ (d + 1) + 1 \in Kinds /\ d + 1 \in 0 .. n - 1
      BY <1>1
    <3>2. pcs[(d + 1) + 1] = pcs[d + 1] + SizeOf(d + 1) + 1 /\ SizeOf(d + 1) \in Nat /\ pcs[d + 1] \in Nat
      BY <1>2, <1>11, <2>2, <3>1
    <3>3. QED
      BY <3>1, <3>2
  <2>3. \A d \in 0 .. n - 1 : d \in S
    <3> HIDE DEF S
    <3>1. n - 1 \in Nat
      BY <1>1
    <3>2. QED
      BY <2>1, <2>2, <3>1, UpTo
  <2>4. ASSUME NEW i \in Kinds
        PROVE  pcs[i] \in Nat
    <3>1. i - 1 \in 0 .. n - 1 /\ (i - 1) + 1 = i
      BY <1>1
    <3>2. QED
      BY <2>3, <3>1
  <2>5. QED
    BY <2>4
<1>13. ASSUME NEW i \in Kinds, NEW j \in Kinds, i < j
       PROVE  pcs[i] + SizeOf(i) < pcs[j]
  <2>1. i \in 1 .. n /\ j \in 1 .. n
    BY <1>1
  <2> DEFINE S == {d \in 0 .. j - i : d > 0 => pcs[i] + SizeOf(i) < pcs[i + d]}
  <2>2. 0 \in S
    BY <1>1, <1>13, <2>1
  <2>3. ASSUME NEW d \in 0 .. (j - i) - 1, d \in S
        PROVE  d + 1 \in S
    <3> DEFINE e == i + d
    <3>1. e \in Kinds /\ e + 1 \in Kinds /\ e + 1 = i + (d + 1) /\ d + 1 \in 0 .. j - i /\ (d = 0 => e = i) /\ d \in Nat
      BY <1>1, <1>13, <2>1
    <3>2. d > 0 => pcs[i] + SizeOf(i) < pcs[e]
      BY <2>3
    <3> HIDE DEF e
    <3>3. pcs[e + 1] = pcs[e] + SizeOf(e) + 1 /\ SizeOf(e) \in Nat /\ pcs[e] \in Nat
      BY <1>2, <1>11, <1>12, <3>1
    <3>4. pcs[i] \in Nat /\ SizeOf(i) \in Nat
      BY <1>2, <1>12
    <3>5. pcs[i] + SizeOf(i) < pcs[e + 1]
      BY <3>1, <3>2, <3>3, <3>4
    <3>6. QED
      BY <3>1, <3>5
  <2>4. j - i \in Nat /\ j - i \in 0 .. j - i /\ j - i > 0 /\ i + (j - i) = j
    BY <1>13, <2>1
  <2> HIDE DEF S
  <2>5. \A d \in 0 .. j - i : d \in S
    BY <2>2, <2>3, <2>4, UpTo
  <2>6. j - i \in S
    BY <2>4, <2>5
  <2>7. pcs[i] + SizeOf(i) < pcs[i + (j - i)]
    BY <2>4, <2>6 DEF S
  <2>8. QED
    BY <2>4, <2>7
<1>14. DOMAIN Emitted = Kinds /\ \A i \in Kinds : Emitted[i] = [pc |-> pcs[i], size |-> SizeOf(i), table |-> TableOf(i)]
  BY <1>8
<1>15. \A i \in Kinds : Emitted[i].pc = pcs[i] /\ Emitted[i].size = SizeOf(i) /\ Emitted[i].table = TableOf(i)
  BY <1>14
<1>16. QED
  BY <1>12, <1>13, <1>14, <1>15 DEF Laid

\* A block is found by its table and its size.
LEMMA BlockIs ==
    \A i \in Kinds : BlockOf(Emitted, i) = Emitted[i]
<1>1. Laid(Emitted)
  BY EmittedIs
<1>2. DOMAIN Emitted = Kinds /\ \A i \in Kinds : Emitted[i].size = SizeOf(i) /\ Emitted[i].table = TableOf(i)
  BY <1>1 DEF Laid
<1>3. ToSet(Emitted) = {Emitted[i] : i \in Kinds}
  BY <1>2 DEF ToSet
<1>4. ASSUME NEW i \in Kinds, NEW j \in Kinds, TableOf(i) = TableOf(j), SizeOf(i) = SizeOf(j)
      PROVE  i = j
  <2>1. /\ TableOf(i) \in Tables /\ PlaceOf(i) \in 1 .. Len(Sizes) /\ KindOf(TableOf(i), PlaceOf(i)) = i
        /\ TableOf(j) \in Tables /\ PlaceOf(j) \in 1 .. Len(Sizes) /\ KindOf(TableOf(j), PlaceOf(j)) = j
    BY KindIs
  <2>2. SizeOf(i) = Sizes[PlaceOf(i)] /\ SizeOf(j) = Sizes[PlaceOf(j)]
    BY DEF SizeOf, PlaceOf
  <2>3. PlaceOf(i) = PlaceOf(j)
    BY <1>4, <2>1, <2>2, SizesDiffer
  <2>4. QED
    BY <1>4, <2>1, <2>3
<1>5. ASSUME NEW i \in Kinds
      PROVE  BlockOf(Emitted, i) = Emitted[i]
  <2> DEFINE Is(b) == b.table = TableOf(i) /\ b.size = SizeOf(i)
  <2>1. BlockOf(Emitted, i) = CHOOSE b \in ToSet(Emitted) : Is(b)
    BY DEF BlockOf
  <2>2. Emitted[i] \in ToSet(Emitted) /\ Is(Emitted[i])
    BY <1>2, <1>3
  <2>3. ASSUME NEW b \in ToSet(Emitted), Is(b)
        PROVE  b = Emitted[i]
    <3>1. PICK j \in Kinds : b = Emitted[j]
      BY <1>3
    <3>2. TableOf(j) = TableOf(i) /\ SizeOf(j) = SizeOf(i)
      BY <1>2, <2>3, <3>1
    <3>3. QED
      BY <1>4, <3>1, <3>2
  <2> HIDE DEF Is
  <2>4. (CHOOSE b \in ToSet(Emitted) : Is(b)) \in ToSet(Emitted) /\ Is(CHOOSE b \in ToSet(Emitted) : Is(b))
    BY <2>2
  <2>5. QED
    BY <2>1, <2>3, <2>4
<1>6. QED
  BY <1>5

\* The block that a place of the code is in, and its last row.
LEMMA BlockAtIs ==
    ASSUME NEW i \in Kinds, NEW o \in 0 .. SizeOf(i), blocks = Emitted
    PROVE  /\ BlockAt(Emitted[i].pc + o) = Emitted[i]
           /\ Closes(Emitted[i].pc + o) <=> o = SizeOf(i)
<1> DEFINE p == Emitted[i].pc + o
           Has(b) == p \in b.pc .. b.pc + b.size
<1>1. Laid(Emitted)
  BY EmittedIs
<1>2. /\ DOMAIN Emitted = Kinds
      /\ \A j \in Kinds : Emitted[j].size = SizeOf(j) /\ Emitted[j].pc \in Nat
      /\ \A j, k \in Kinds : j < k => Emitted[j].pc + SizeOf(j) < Emitted[k].pc
  BY <1>1 DEF Laid
<1>3. \A j \in Kinds : SizeOf(j) \in Nat /\ j \in Nat
  <2>1. \A j \in Kinds : PlaceOf(j) \in 1 .. Len(Sizes) /\ SizeOf(j) = Sizes[PlaceOf(j)]
    BY KindIs DEF SizeOf, PlaceOf
  <2>2. QED
    BY <2>1, SizesAre DEF Kinds
<1>4. ToSet(Emitted) = {Emitted[j] : j \in Kinds}
  BY <1>2 DEF ToSet
<1>5. BlockAt(p) = CHOOSE b \in ToSet(Emitted) : Has(b)
  BY DEF BlockAt
<1>6. Emitted[i] \in ToSet(Emitted) /\ Has(Emitted[i])
  <2>1. Emitted[i].pc \in Nat /\ SizeOf(i) \in Nat /\ Emitted[i].size = SizeOf(i)
    BY <1>2, <1>3
  <2>2. QED
    BY <1>4, <2>1
<1>7. ASSUME NEW b \in ToSet(Emitted), Has(b)
      PROVE  b = Emitted[i]
  <2>1. PICK j \in Kinds : b = Emitted[j]
    BY <1>4
  <2> DEFINE x == Emitted[i].pc
             y == Emitted[j].pc
  <2>2. /\ x \in Nat /\ y \in Nat /\ SizeOf(i) \in Nat /\ SizeOf(j) \in Nat
        /\ i < j => x + SizeOf(i) < y
        /\ j < i => y + SizeOf(j) < x
    BY <1>2, <1>3
  <2>3. x + o \in y .. y + SizeOf(j)
    BY <1>2, <1>7, <2>1
  <2> HIDE DEF x, y
  <2>4. ~(i < j) /\ ~(j < i)
    BY <2>2, <2>3
  <2>5. i = j
    BY <1>3, <2>4
  <2>6. QED
    BY <2>1, <2>5
<1>8. BlockAt(p) = Emitted[i]
  <2> HIDE DEF Has
  <2>1. (CHOOSE b \in ToSet(Emitted) : Has(b)) \in ToSet(Emitted) /\ Has(CHOOSE b \in ToSet(Emitted) : Has(b))
    BY <1>6
  <2>2. QED
    BY <1>5, <1>7, <2>1
<1>9. Closes(p) <=> o = SizeOf(i)
  <2>1. Closes(p) <=> p = Emitted[i].pc + SizeOf(i)
    BY <1>2, <1>8 DEF Closes
  <2>2. Emitted[i].pc \in Nat /\ SizeOf(i) \in Nat
    BY <1>2, <1>3
  <2>3. QED
    BY <2>1, <2>2
<1>10. QED
  BY <1>8, <1>9

-----------------------------------------------------------------------------
(***************************************************************************)
(* The cycles of a plan.                                                   *)
(***************************************************************************)

\* A total with one more number.
LEMMA TotalGrows ==
    ASSUME NEW n \in Nat, NEW f \in [1 .. n -> Nat], NEW e \in [1 .. n + 1 -> Nat],
           \A i \in 1 .. n : e[i] = f[i]
    PROVE  Total(e) = Total(f) + e[n + 1] /\ Total(f) \in Nat
<1> DEFINE p == Partial(f)
           q == Partial(e)
<1>1. IsSum(p, n, f) /\ Total(f) = p[n]
  BY PartialIs
<1>2. IsSum(q, n + 1, e) /\ Total(e) = q[n + 1]
  <2>1. n + 1 \in Nat
    OBVIOUS
  <2>2. QED
    BY <2>1, PartialIs
<1> HIDE DEF p, q
<1> DEFINE S == {k \in 0 .. n : p[k] = q[k]}
<1>3. \A k \in 0 .. n : k \in S
  <2>1. 0 \in S
    BY <1>1, <1>2 DEF IsSum
  <2>2. ASSUME NEW k \in 0 .. n - 1, k \in S
        PROVE  k + 1 \in S
    <3>1. k + 1 \in 1 .. n /\ (k + 1) - 1 = k /\ k + 1 \in 0 .. n /\ k + 1 \in 1 .. n + 1
      OBVIOUS
    <3>2. p[k + 1] = p[k] + f[k + 1] /\ q[k + 1] = q[k] + e[k + 1] /\ e[k + 1] = f[k + 1]
      BY <1>1, <1>2, <3>1 DEF IsSum
    <3>3. QED
      BY <2>2, <3>1, <3>2
  <2> HIDE DEF S
  <2>3. QED
    BY <2>1, <2>2, UpTo
<1>4. n + 1 \in 1 .. n + 1 /\ (n + 1) - 1 = n /\ n \in 0 .. n
  OBVIOUS
<1>5. q[n + 1] = q[n] + e[n + 1] /\ p[n] \in Nat
  BY <1>1, <1>2, <1>4 DEF IsSum
<1>6. p[n] = q[n]
  BY <1>3, <1>4
<1>7. QED
  BY <1>1, <1>2, <1>5, <1>6

\* The cycle of a kind; its kinds' numbers; numbers of kinds that are nought where
\* nothing is asked for.
CycleOf(plan, i) == [pc |-> Emitted[i].pc, size |-> SizeOf(i), n |-> Asked(plan, i)]
Counted(plan) == [i \in Kinds |-> IF Asked(plan, i) > 0 THEN 1 ELSE 0]
Through(f, k, n) == [q \in 1 .. n |-> f[k[q]]]
Shares(plan) == {f \in [Kinds -> Nat] : \A i \in Kinds : Asked(plan, i) = 0 => f[i] = 0}

\* k is the kinds of the cycles of the first i kinds, there being n of them.
KindsUpTo(k, n, cs, plan, i) ==
    /\ n \in Nat /\ k \in [1 .. n -> Kinds]
    /\ DOMAIN cs = 1 .. n /\ Len(cs) = n
    /\ \A q \in 1 .. n : cs[q] = CycleOf(plan, k[q]) /\ Asked(plan, k[q]) > 0
    /\ \A f \in Shares(plan) : Total(Through(f, k, n)) = Partial(f)[i]

\* The recursion of cycles.
Walking(h, plan) ==
    [i \in 0 .. 6 * Len(Sizes) |->
        IF i = 0 THEN <<>>
        ELSE IF Asked(plan, i) = 0 THEN h[i - 1]
        ELSE Append(h[i - 1], [pc |-> BlockOf(Emitted, i).pc, size |-> SizeOf(i), n |-> Asked(plan, i)])]

\* One more kind.
LEMMA NextKind ==
    ASSUME NEW plan \in Plans, NEW i \in 0 .. 6 * Len(Sizes) - 1,
           NEW k, NEW n, NEW X, NEW cs \in Seq(X), KindsUpTo(k, n, cs, plan, i),
           NEW ds, CycleOf(plan, i + 1) \in X,
           ds = IF Asked(plan, i + 1) = 0 THEN cs ELSE Append(cs, CycleOf(plan, i + 1))
    PROVE  \E j : KindsUpTo(j, n + Counted(plan)[i + 1], ds, plan, i + 1)
<1> DEFINE N == 6 * Len(Sizes)
<1>1. N \in Nat /\ Kinds = 1 .. N /\ i + 1 \in Kinds /\ (i + 1) - 1 = i
  BY SizesAre DEF Kinds
<1>2. Asked(plan, i + 1) \in Nat
  BY <1>1, AskedIs
<1>3. /\ n \in Nat /\ k \in [1 .. n -> Kinds]
      /\ DOMAIN cs = 1 .. n /\ Len(cs) = n
      /\ \A q \in 1 .. n : cs[q] = CycleOf(plan, k[q]) /\ Asked(plan, k[q]) > 0
      /\ \A f \in Shares(plan) : Total(Through(f, k, n)) = Partial(f)[i]
  BY DEF KindsUpTo
<1> HIDE DEF N
<1>4. ASSUME NEW f \in Shares(plan)
      PROVE  Partial(f)[i + 1] = Partial(f)[i] + f[i + 1] /\ f \in [1 .. N -> Nat]
  <2>1. f \in [1 .. N -> Nat]
    BY <1>1 DEF Shares
  <2>2. IsSum(Partial(f), N, f)
    BY <1>1, <2>1, PartialIs
  <2>3. QED
    BY <1>1, <2>1, <2>2 DEF IsSum
<1>5. CASE Asked(plan, i + 1) = 0
  <2>1. Counted(plan)[i + 1] = 0 /\ n + 0 = n /\ ds = cs
    BY <1>1, <1>3, <1>5 DEF Counted
  <2>2. ASSUME NEW f \in Shares(plan)
        PROVE  Total(Through(f, k, n)) = Partial(f)[i + 1]
    <3>1. f[i + 1] = 0
      BY <1>1, <1>5 DEF Shares
    <3>2. i \in 0 .. N /\ f \in [1 .. N -> Nat]
      BY <1>1, <1>4
    <3>3. Partial(f)[i] \in Nat
      <4>1. IsSum(Partial(f), N, f)
        BY <1>1, <3>2, PartialIs
      <4>2. QED
        BY <3>2, <4>1 DEF IsSum
    <3>4. QED
      BY <1>3, <1>4, <3>1, <3>3
  <2>3. KindsUpTo(k, n, cs, plan, i + 1)
    BY <1>3, <2>2 DEF KindsUpTo
  <2>4. QED
    BY <2>1, <2>3
<1>6. CASE Asked(plan, i + 1) # 0
  <2> DEFINE j == [q \in 1 .. n + 1 |-> IF q <= n THEN k[q] ELSE i + 1]
  <2>1. Counted(plan)[i + 1] = 1 /\ Asked(plan, i + 1) > 0
    BY <1>1, <1>2, <1>6 DEF Counted
  <2>2. ds = Append(cs, CycleOf(plan, i + 1))
    BY <1>6
  <2>3. DOMAIN ds = 1 .. n + 1 /\ Len(ds) = n + 1
        /\ ds[n + 1] = CycleOf(plan, i + 1) /\ \A q \in 1 .. n : ds[q] = cs[q]
    <3> DEFINE z == CycleOf(plan, i + 1)
    <3>1. z \in X
      OBVIOUS
    <3> HIDE DEF z
    <3>2. ds = Append(cs, z)
      BY <2>2 DEF z
    <3>3. Len(ds) = n + 1 /\ ds \in Seq(X) /\ ds[n + 1] = z /\ \A q \in 1 .. n : ds[q] = cs[q]
      BY <1>3, <3>1, <3>2
    <3>4. DOMAIN ds = 1 .. Len(ds)
      <4>1. ds \in Seq(X)
        BY <3>3
      <4>2. QED
        BY <4>1
    <3>5. QED
      BY <3>3, <3>4 DEF z
  <2>4. j \in [1 .. n + 1 -> Kinds]
    BY <1>1, <1>3
  <2>5. (\A q \in 1 .. n : j[q] = k[q]) /\ j[n + 1] = i + 1
    BY <1>3
  <2> HIDE DEF j
  <2>6. ASSUME NEW q \in 1 .. n + 1
        PROVE  ds[q] = CycleOf(plan, j[q]) /\ Asked(plan, j[q]) > 0
    <3>1. q \in 1 .. n \/ q = n + 1
      BY <1>3
    <3>2. CASE q \in 1 .. n
      BY <1>3, <2>3, <2>5, <3>2
    <3>3. CASE q = n + 1
      BY <2>1, <2>3, <2>5, <3>3
    <3>4. QED
      BY <3>1, <3>2, <3>3
  <2>7. ASSUME NEW f \in Shares(plan)
        PROVE  Total(Through(f, j, n + 1)) = Partial(f)[i + 1]
    <3> DEFINE a == Through(f, k, n)
               b == Through(f, j, n + 1)
    <3>1. f \in [Kinds -> Nat]
      BY DEF Shares
    <3>2. a \in [1 .. n -> Nat] /\ b \in [1 .. n + 1 -> Nat]
      BY <1>3, <2>4, <3>1 DEF Through
    <3>3. \A q \in 1 .. n : b[q] = a[q]
      BY <1>3, <2>5 DEF Through
    <3>4. b[n + 1] = f[i + 1]
      BY <1>3, <2>5 DEF Through
    <3>5. Total(a) = Partial(f)[i]
      BY <1>3
    <3> HIDE DEF a, b
    <3>6. Total(b) = Total(a) + b[n + 1]
      BY <1>3, <3>2, <3>3, TotalGrows
    <3>7. Total(b) = Partial(f)[i + 1]
      BY <1>4, <3>4, <3>5, <3>6
    <3>8. QED
      BY <3>7 DEF b
  <2>8. n + 1 \in Nat
    BY <1>3
  <2>9. KindsUpTo(j, n + 1, ds, plan, i + 1)
    BY <2>3, <2>4, <2>6, <2>7, <2>8 DEF KindsUpTo
  <2>10. QED
    BY <2>1, <2>9
<1>7. QED
  BY <1>5, <1>6

\* The kinds of the cycles of a plan.
CycleKinds(k, plan) ==
    /\ Frames(plan) \in Nat /\ k \in [1 .. Frames(plan) -> Kinds]
    /\ DOMAIN Cycles(Emitted, plan) = 1 .. Frames(plan) /\ Len(Cycles(Emitted, plan)) = Frames(plan)
    /\ \A q \in 1 .. Frames(plan) :
          Cycles(Emitted, plan)[q] = CycleOf(plan, k[q]) /\ Asked(plan, k[q]) > 0
    /\ \A f \in Shares(plan) : Total(Through(f, k, Frames(plan))) = Total(f)

\* A plan has such kinds, in the order its cycles are made.
LEMMA CyclesAre ==
    ASSUME NEW plan \in Plans
    PROVE  \E k : CycleKinds(k, plan)
<1> DEFINE N == 6 * Len(Sizes)
           R == [pc : Nat, size : Nat, n : Nat]
           c == Partial(Counted(plan))
           h == CHOOSE g : g = Walking(g, plan)
           walk == [i \in 1 .. N |-> [x \in Seq(R) |-> IF Asked(plan, i) = 0 THEN x ELSE Append(x, CycleOf(plan, i))]]
<1>1. N \in Nat /\ Kinds = 1 .. N
  BY SizesAre DEF Kinds
<1>2. \A i \in Kinds : CycleOf(plan, i) \in R
  <2>1. \A i \in Kinds : Emitted[i].pc \in Nat
    BY EmittedIs DEF Laid
  <2>2. \A i \in Kinds : Asked(plan, i) \in Nat /\ SizeOf(i) \in Nat
    BY AskedIs
  <2>3. QED
    BY <2>1, <2>2 DEF CycleOf
<1>3. \A i \in Kinds : [pc |-> BlockOf(Emitted, i).pc, size |-> SizeOf(i), n |-> Asked(plan, i)] = CycleOf(plan, i)
  BY BlockIs DEF CycleOf
<1>4. Counted(plan) \in [1 .. N -> Nat]
  BY <1>1 DEF Counted
<1>5. IsSum(c, N, Counted(plan)) /\ Frames(plan) = c[N]
  <2>1. Frames(plan) = Total(Counted(plan))
    BY Zenon DEF Frames, Counted
  <2> HIDE DEF N
  <2>2. QED
    BY <1>1, <1>4, <2>1, PartialIs
<1> HIDE DEF N, R, c
<1>6. walk \in [1 .. N -> [Seq(R) -> Seq(R)]]
  <2>1. ASSUME NEW i \in 1 .. N
        PROVE  [x \in Seq(R) |-> IF Asked(plan, i) = 0 THEN x ELSE Append(x, CycleOf(plan, i))] \in [Seq(R) -> Seq(R)]
    <3> DEFINE z == CycleOf(plan, i)
    <3>1. z \in R
      BY <1>1, <1>2
    <3> HIDE DEF z
    <3>2. \A x \in Seq(R) : (IF Asked(plan, i) = 0 THEN x ELSE Append(x, z)) \in Seq(R)
      BY <3>1
    <3>3. QED
      BY <3>2 DEF z
  <2>2. QED
    BY <2>1
<1>7. PICK g : IsRun(g, N, Seq(R), <<>>, walk)
  <2> HIDE DEF walk
  <2>1. <<>> \in Seq(R)
    OBVIOUS
  <2>2. QED
    BY <1>1, <1>6, <2>1, Runs
<1>8. g \in [0 .. N -> Seq(R)] /\ g[0] = <<>>
  BY <1>7 DEF IsRun
<1>9. ASSUME NEW i \in 1 .. N
      PROVE  g[i] = IF Asked(plan, i) = 0 THEN g[i - 1] ELSE Append(g[i - 1], CycleOf(plan, i))
  <2>1. i - 1 \in 0 .. N
    BY <1>1
  <2>2. g[i - 1] \in Seq(R)
    BY <1>8, <2>1
  <2>3. g[i] = walk[i][g[i - 1]]
    BY <1>7 DEF IsRun
  <2>4. walk[i] = [x \in Seq(R) |-> IF Asked(plan, i) = 0 THEN x ELSE Append(x, CycleOf(plan, i))]
    OBVIOUS
  <2> HIDE DEF walk
  <2>5. QED
    BY <2>2, <2>3, <2>4
<1>10. g = Walking(g, plan)
  <2>1. ASSUME NEW i \in 0 .. N
        PROVE  g[i] = IF i = 0 THEN <<>>
                      ELSE IF Asked(plan, i) = 0 THEN g[i - 1]
                      ELSE Append(g[i - 1], [pc |-> BlockOf(Emitted, i).pc, size |-> SizeOf(i), n |-> Asked(plan, i)])
    <3>1. CASE i = 0
      BY <1>8, <3>1
    <3>2. CASE i # 0
      <4>1. i \in 1 .. N /\ i \in Kinds
        BY <1>1, <3>2
      <4>2. [pc |-> BlockOf(Emitted, i).pc, size |-> SizeOf(i), n |-> Asked(plan, i)] = CycleOf(plan, i)
        BY <1>3, <4>1
      <4>3. g[i] = IF Asked(plan, i) = 0 THEN g[i - 1] ELSE Append(g[i - 1], CycleOf(plan, i))
        BY <1>9, <4>1
      <4>4. QED
        BY <3>2, <4>2, <4>3, Zenon
    <3>3. QED
      BY <3>1, <3>2
  <2>2. g = [i \in 0 .. N |-> g[i]]
    BY <1>8
  <2>3. Walking(g, plan) = [i \in 0 .. N |->
          IF i = 0 THEN <<>>
          ELSE IF Asked(plan, i) = 0 THEN g[i - 1]
          ELSE Append(g[i - 1], [pc |-> BlockOf(Emitted, i).pc, size |-> SizeOf(i), n |-> Asked(plan, i)])]
    BY Zenon DEF Walking, N
  <2>4. QED
    BY <2>1, <2>2, <2>3, Zenon
<1>11. h = Walking(h, plan)
  BY <1>10, Zenon
<1>12. Cycles(Emitted, plan) = h[N]
  BY Zenon DEF Cycles, Walking, N
<1> HIDE DEF h
<1>13. \A i \in 0 .. N : h[i] = IF i = 0 THEN <<>>
          ELSE IF Asked(plan, i) = 0 THEN h[i - 1]
          ELSE Append(h[i - 1], [pc |-> BlockOf(Emitted, i).pc, size |-> SizeOf(i), n |-> Asked(plan, i)])
  <2>1. h = [i \in 0 .. N |-> IF i = 0 THEN <<>>
          ELSE IF Asked(plan, i) = 0 THEN h[i - 1]
          ELSE Append(h[i - 1], [pc |-> BlockOf(Emitted, i).pc, size |-> SizeOf(i), n |-> Asked(plan, i)])]
    BY <1>11, Zenon DEF Walking, N
  <2>2. QED
    BY <2>1, Zenon
<1>14. h[0] = <<>>
  <2>1. 0 \in 0 .. N
    BY <1>1
  <2>2. QED
    BY <1>13, <2>1, Zenon
<1>15. ASSUME NEW i \in 0 .. N - 1
       PROVE  h[i + 1] = IF Asked(plan, i + 1) = 0 THEN h[i] ELSE Append(h[i], CycleOf(plan, i + 1))
  <2>1. i + 1 \in 0 .. N /\ i + 1 # 0 /\ (i + 1) - 1 = i /\ i + 1 \in Kinds
    BY <1>1
  <2>2. h[i + 1] = IF i + 1 = 0 THEN <<>>
          ELSE IF Asked(plan, i + 1) = 0 THEN h[(i + 1) - 1]
          ELSE Append(h[(i + 1) - 1], [pc |-> BlockOf(Emitted, i + 1).pc, size |-> SizeOf(i + 1), n |-> Asked(plan, i + 1)])
    BY <1>13, <2>1, Zenon
  <2>3. [pc |-> BlockOf(Emitted, i + 1).pc, size |-> SizeOf(i + 1), n |-> Asked(plan, i + 1)] = CycleOf(plan, i + 1)
    BY <1>3, <2>1, Zenon
  <2>4. QED
    BY <2>1, <2>2, <2>3, Zenon
<1> DEFINE S == {i \in 0 .. N : h[i] \in Seq(R) /\ \E k : KindsUpTo(k, c[i], h[i], plan, i)}
<1>16. 0 \in S
  <2>1. c[0] = 0 /\ 0 \in 0 .. N
    BY <1>1, <1>5 DEF IsSum
  <2> DEFINE k == [q \in 1 .. 0 |-> 1]
  <2>2. k \in [1 .. 0 -> Kinds] /\ DOMAIN <<>> = 1 .. 0 /\ Len(<<>>) = 0 /\ ~ \E q \in 1 .. 0 : TRUE
    OBVIOUS
  <2>3. ASSUME NEW f \in Shares(plan)
        PROVE  Total(Through(f, k, 0)) = Partial(f)[0]
    <3>1. f \in [1 .. N -> Nat]
      BY <1>1 DEF Shares
    <3>2. IsSum(Partial(f), N, f)
      BY <1>1, <3>1, PartialIs
    <3>3. Through(f, k, 0) \in [1 .. 0 -> Nat]
      BY DEF Through
    <3> DEFINE e == Through(f, k, 0)
    <3> HIDE DEF e
    <3>4. e \in [1 .. 0 -> Nat]
      BY <3>3 DEF e
    <3>5. IsSum(Partial(e), 0, e) /\ Total(e) = Partial(e)[0]
      BY <3>4, PartialIs
    <3>6. Total(e) = 0 /\ Partial(f)[0] = 0
      BY <3>2, <3>5 DEF IsSum
    <3>7. QED
      BY <3>6 DEF e
  <2> HIDE DEF k
  <2>4. KindsUpTo(k, 0, <<>>, plan, 0)
    BY <2>2, <2>3 DEF KindsUpTo
  <2>5. KindsUpTo(k, c[0], h[0], plan, 0)
    BY <1>14, <2>1, <2>4
  <2>6. h[0] \in Seq(R)
    BY <1>14
  <2>7. QED
    BY <2>1, <2>5, <2>6
<1>17. ASSUME NEW i \in 0 .. N - 1, i \in S
       PROVE  i + 1 \in S
  <2>1. i + 1 \in 1 .. N /\ i + 1 \in 0 .. N /\ (i + 1) - 1 = i /\ i + 1 \in Kinds
    BY <1>1
  <2>2. PICK k : KindsUpTo(k, c[i], h[i], plan, i)
    BY <1>17
  <2>3. c[i + 1] = c[i] + Counted(plan)[i + 1]
    BY <1>5, <2>1 DEF IsSum
  <2> DEFINE z == CycleOf(plan, i + 1)
             cs == h[i]
             ds == h[i + 1]
  <2>4. z \in R /\ cs \in Seq(R)
    BY <1>2, <1>17, <2>1
  <2>5. ds = IF Asked(plan, i + 1) = 0 THEN cs ELSE Append(cs, z)
    BY <1>15
  <2>6. ds \in Seq(R)
    <3> HIDE DEF z, cs, ds
    <3>1. QED
      BY <2>4, <2>5
  <2>7. \E j : KindsUpTo(j, c[i] + Counted(plan)[i + 1], ds, plan, i + 1)
    <3>1. i \in 0 .. 6 * Len(Sizes) - 1
      BY DEF N
    <3> HIDE DEF cs, ds
    <3>2. KindsUpTo(k, c[i], cs, plan, i)
      BY <2>2 DEF cs
    <3>3. QED
      BY <2>4, <2>5, <3>1, <3>2, NextKind
  <2>8. QED
    BY <2>1, <2>3, <2>6, <2>7
<1>18. \A i \in 0 .. N : i \in S
  <2> HIDE DEF S
  <2>1. QED
    BY <1>1, <1>16, <1>17, UpTo
<1>19. N \in S
  <2>1. N \in 0 .. N
    BY <1>1
  <2> HIDE DEF S
  <2>2. QED
    BY <1>18, <2>1
<1>20. PICK k : KindsUpTo(k, c[N], h[N], plan, N)
  BY <1>19
<1>21. KindsUpTo(k, Frames(plan), Cycles(Emitted, plan), plan, N)
  BY <1>5, <1>12, <1>20
<1>22. ASSUME NEW f \in Shares(plan)
       PROVE  Partial(f)[N] = Total(f)
  <2>1. f \in [1 .. N -> Nat]
    BY <1>1 DEF Shares
  <2>2. QED
    BY <1>1, <2>1, PartialIs
<1>23. CycleKinds(k, plan)
  BY <1>21, <1>22 DEF KindsUpTo, CycleKinds
<1>24. QED
  BY <1>23

-----------------------------------------------------------------------------
(***************************************************************************)
(* What the cycles add up to.                                              *)
(***************************************************************************)

\* The kinds of the cycles of a plan, in their order; the block of one, its traversals.
KindsOf(plan) == CHOOSE k : CycleKinds(k, plan)
KindAt(plan, q) == KindsOf(plan)[q]
PcAt(plan, q) == Emitted[KindAt(plan, q)].pc
SizeAt(plan, q) == SizeOf(KindAt(plan, q))
TableAt(plan, q) == TableOf(KindAt(plan, q))
TurnsAt(plan, q) == Asked(plan, KindAt(plan, q))

\* The rows of a table, and the traversals, of each kind; and of the cycles up to one.
RowsIn(plan, t) == [i \in Kinds |-> IF TableOf(i) = t THEN Asked(plan, i) * SizeOf(i) ELSE 0]
TurnsIn(plan) == [i \in Kinds |-> Asked(plan, i)]
RowsTo(plan, t, q) == Partial(Through(RowsIn(plan, t), KindsOf(plan), Frames(plan)))[q]
TurnsTo(plan, q) == Partial(Through(TurnsIn(plan), KindsOf(plan), Frames(plan)))[q]

\* The cycles of a plan, and what they add up to.
CyclesAddUp(plan) ==
    /\ Frames(plan) \in Nat
    /\ DOMAIN Cycles(Emitted, plan) = 1 .. Frames(plan) /\ Len(Cycles(Emitted, plan)) = Frames(plan)
    /\ \A q \in 1 .. Frames(plan) :
          /\ Cycles(Emitted, plan)[q] = [pc |-> PcAt(plan, q), size |-> SizeAt(plan, q), n |-> TurnsAt(plan, q)]
          /\ KindAt(plan, q) \in Kinds
          /\ TableAt(plan, q) \in Tables /\ PcAt(plan, q) \in Nat
          /\ SizeAt(plan, q) \in Nat \ {0} /\ TurnsAt(plan, q) \in Nat \ {0}
    /\ \A t \in Tables :
          /\ RowsTo(plan, t, 0) = 0 /\ RowsTo(plan, t, Frames(plan)) = Delivered(plan, t)
          /\ \A q \in 0 .. Frames(plan) : RowsTo(plan, t, q) \in Nat
          /\ \A q \in 1 .. Frames(plan) :
                RowsTo(plan, t, q) = RowsTo(plan, t, q - 1)
                                     + (IF TableAt(plan, q) = t THEN TurnsAt(plan, q) * SizeAt(plan, q) ELSE 0)
    /\ TurnsTo(plan, 0) = 0 /\ TurnsTo(plan, Frames(plan)) = Traversals(plan)
    /\ \A q \in 0 .. Frames(plan) : TurnsTo(plan, q) \in Nat
    /\ \A q \in 1 .. Frames(plan) : TurnsTo(plan, q) = TurnsTo(plan, q - 1) + TurnsAt(plan, q)

\* Shares of the kinds, summed up along the cycles.
LEMMA SharesAlong ==
    ASSUME NEW plan \in Plans, NEW f \in Shares(plan), NEW k, CycleKinds(k, plan)
    PROVE  /\ IsSum(Partial(Through(f, k, Frames(plan))), Frames(plan), Through(f, k, Frames(plan)))
           /\ Partial(Through(f, k, Frames(plan)))[Frames(plan)] = Total(f)
<1> DEFINE n == Frames(plan)
           e == Through(f, k, n)
<1>1. n \in Nat /\ k \in [1 .. n -> Kinds] /\ Total(e) = Total(f)
  BY DEF CycleKinds
<1>2. e \in [1 .. n -> Nat]
  BY <1>1 DEF Through, Shares
<1> HIDE DEF n, e
<1>3. IsSum(Partial(e), n, e) /\ Total(e) = Partial(e)[n]
  BY <1>1, <1>2, PartialIs
<1>4. QED
  BY <1>1, <1>3 DEF n, e

\* They add up to what the plan delivers, and to its traversals.
LEMMA CyclesAddUpIs ==
    ASSUME NEW plan \in Plans
    PROVE  CyclesAddUp(plan)
<1> DEFINE n == Frames(plan)
           k == KindsOf(plan)
<1>1. CycleKinds(k, plan)
  BY CyclesAre DEF KindsOf
<1>2. /\ n \in Nat /\ k \in [1 .. n -> Kinds]
      /\ DOMAIN Cycles(Emitted, plan) = 1 .. n /\ Len(Cycles(Emitted, plan)) = n
      /\ \A q \in 1 .. n : Cycles(Emitted, plan)[q] = CycleOf(plan, k[q]) /\ Asked(plan, k[q]) > 0
  BY <1>1 DEF CycleKinds
<1>3. \A i \in Kinds : /\ Asked(plan, i) \in Nat /\ SizeOf(i) \in Nat \ {0} /\ TableOf(i) \in Tables
                       /\ Emitted[i].pc \in Nat
  BY AskedIs, KindIs, EmittedIs DEF Laid
<1>4. \A x, y \in Nat : x * y \in Nat /\ 0 * y = 0
  OBVIOUS
<1>5. ASSUME NEW t \in Tables
      PROVE  RowsIn(plan, t) \in Shares(plan)
  BY <1>3, <1>4 DEF RowsIn, Shares
<1>6. TurnsIn(plan) \in Shares(plan)
  BY <1>3 DEF TurnsIn, Shares
<1>7. ASSUME NEW q \in 1 .. n
      PROVE  /\ Cycles(Emitted, plan)[q] = [pc |-> PcAt(plan, q), size |-> SizeAt(plan, q), n |-> TurnsAt(plan, q)]
             /\ KindAt(plan, q) = k[q] /\ k[q] \in Kinds
             /\ TableAt(plan, q) \in Tables /\ PcAt(plan, q) \in Nat
             /\ SizeAt(plan, q) \in Nat \ {0} /\ TurnsAt(plan, q) \in Nat \ {0}
  <2>1. k[q] \in Kinds
    BY <1>2
  <2> HIDE DEF n
  <2>2. KindAt(plan, q) = k[q] /\ PcAt(plan, q) = Emitted[k[q]].pc /\ SizeAt(plan, q) = SizeOf(k[q])
        /\ TableAt(plan, q) = TableOf(k[q]) /\ TurnsAt(plan, q) = Asked(plan, k[q])
    BY DEF KindAt, PcAt, SizeAt, TableAt, TurnsAt
  <2> HIDE DEF k
  <2>3. Cycles(Emitted, plan)[q] = CycleOf(plan, k[q]) /\ Asked(plan, k[q]) > 0
    BY <1>2
  <2>4. CycleOf(plan, k[q]) = [pc |-> PcAt(plan, q), size |-> SizeAt(plan, q), n |-> TurnsAt(plan, q)]
    BY <2>2 DEF CycleOf
  <2>5. QED
    BY <1>3, <2>1, <2>2, <2>3, <2>4
<1>8. ASSUME NEW t \in Tables
      PROVE  /\ RowsTo(plan, t, 0) = 0 /\ RowsTo(plan, t, n) = Delivered(plan, t)
             /\ \A q \in 0 .. n : RowsTo(plan, t, q) \in Nat
             /\ \A q \in 1 .. n :
                   RowsTo(plan, t, q) = RowsTo(plan, t, q - 1)
                                        + (IF TableAt(plan, q) = t THEN TurnsAt(plan, q) * SizeAt(plan, q) ELSE 0)
  <2> DEFINE f == RowsIn(plan, t)
             e == Through(f, k, n)
             p == Partial(e)
  <2>1. IsSum(p, n, e) /\ p[n] = Total(f)
    <3>1. f \in Shares(plan)
      BY <1>5
    <3> HIDE DEF f, k
    <3>2. QED
      BY <1>1, <3>1, SharesAlong
  <2>2. Total(f) = Delivered(plan, t)
    BY Zenon DEF Delivered, RowsIn
  <2>3. \A q : RowsTo(plan, t, q) = p[q]
    BY DEF RowsTo
  <2>4. ASSUME NEW q \in 1 .. n
        PROVE  e[q] = IF TableAt(plan, q) = t THEN TurnsAt(plan, q) * SizeAt(plan, q) ELSE 0
    <3>1. e[q] = f[k[q]] /\ k[q] \in Kinds
      BY <1>7 DEF Through
    <3>2. f[k[q]] = IF TableOf(k[q]) = t THEN Asked(plan, k[q]) * SizeOf(k[q]) ELSE 0
      BY <3>1 DEF RowsIn
    <3>3. SizeAt(plan, q) = SizeOf(k[q]) /\ TableAt(plan, q) = TableOf(k[q]) /\ TurnsAt(plan, q) = Asked(plan, k[q])
      BY DEF KindAt, SizeAt, TableAt, TurnsAt
    <3> HIDE DEF e, f, k, n
    <3>4. QED
      BY <3>1, <3>2, <3>3
  <2> HIDE DEF p, e, f, k, n
  <2>5. p[0] = 0 /\ (\A q \in 0 .. n : p[q] \in Nat) /\ \A q \in 1 .. n : p[q] = p[q - 1] + e[q]
    BY <2>1 DEF IsSum
  <2>6. QED
    BY <2>1, <2>2, <2>3, <2>4, <2>5
<1>9. /\ TurnsTo(plan, 0) = 0 /\ TurnsTo(plan, n) = Traversals(plan)
      /\ \A q \in 0 .. n : TurnsTo(plan, q) \in Nat
      /\ \A q \in 1 .. n : TurnsTo(plan, q) = TurnsTo(plan, q - 1) + TurnsAt(plan, q)
  <2> DEFINE f == TurnsIn(plan)
             e == Through(f, k, n)
             p == Partial(e)
  <2>1. IsSum(p, n, e) /\ p[n] = Total(f)
    <3> HIDE DEF f, k
    <3>1. QED
      BY <1>1, <1>6, SharesAlong DEF f
  <2>2. Total(f) = Traversals(plan)
    BY Zenon DEF Traversals, TurnsIn
  <2>3. \A q : TurnsTo(plan, q) = p[q]
    BY DEF TurnsTo
  <2>4. ASSUME NEW q \in 1 .. n
        PROVE  e[q] = TurnsAt(plan, q)
    <3>1. e[q] = f[k[q]] /\ k[q] \in Kinds
      BY <1>7 DEF Through
    <3>2. f[k[q]] = Asked(plan, k[q])
      BY <3>1 DEF TurnsIn
    <3>3. TurnsAt(plan, q) = Asked(plan, k[q])
      BY DEF KindAt, TurnsAt
    <3> HIDE DEF e, f, k, n
    <3>4. QED
      BY <3>1, <3>2, <3>3
  <2> HIDE DEF p, e, f, k, n
  <2>5. p[0] = 0 /\ (\A q \in 0 .. n : p[q] \in Nat) /\ \A q \in 1 .. n : p[q] = p[q - 1] + e[q]
    BY <2>1 DEF IsSum
  <2>6. QED
    BY <2>1, <2>2, <2>3, <2>4, <2>5
<1> HIDE DEF k
<1>10. \A q \in 1 .. n : KindAt(plan, q) \in Kinds
  BY <1>7
<1>11. QED
  BY <1>2, <1>7, <1>8, <1>9, <1>10 DEF CyclesAddUp

-----------------------------------------------------------------------------
(***************************************************************************)
(* What a run leaves in the frames and the counts.                         *)
(***************************************************************************)

\* What the dummies of a table leave in the cells of their frame.
Digest(o) == [half |-> o - DIGEST, of |-> <<[x \in DIGEST + 2 .. DIGEST + 5 |-> Zero], <<Zero, Zero>>, Zero>>]
Held(t, o) ==
    IF t = BLAKE2S /\ o \in {DIGEST, DIGEST + 1} THEN Digest(o)
    ELSE IF t = DEREF /\ o = SCRATCH THEN Pi ELSE Zero

\* The frames of a plan are prepared; those after cycle q are untouched; that of q holds
\* what its dummies leave.
Prepared(memory, plan, s) ==
    /\ memory.len = s + Frames(plan) * CELLS
    /\ 0 \in DOMAIN memory.val /\ memory.val[0] = Pi
    /\ \A j \in 1 .. Frames(plan) :
          /\ FrameAt(s, j) + DEST \in DOMAIN memory.val /\ memory.val[FrameAt(s, j) + DEST] = G(PcAt(plan, j))
          /\ FrameAt(s, j) + NEXT_FP \in DOMAIN memory.val /\ memory.val[FrameAt(s, j) + NEXT_FP] = G(FrameAt(s, j))
          /\ FrameAt(s, j) + PTR \in DOMAIN memory.val /\ memory.val[FrameAt(s, j) + PTR] = G(0)
Untouched(val, plan, s, q) ==
    \A j \in q + 1 .. Frames(plan), o \in ZERO .. CELLS - 1 : FrameAt(s, j) + o \notin DOMAIN val
Clean(val, t, f) ==
    \A o \in ZERO .. CELLS - 1 : f + o \in DOMAIN val => val[f + o] = Held(t, o)

\* The cycles still to run are those after q.
RunAt(plan, s, q) ==
    [pc |-> PcAt(plan, q), frame |-> FrameAt(s, q), rows |-> RowsOf(TurnsAt(plan, q), SizeAt(plan, q))]
Ahead(rs, plan, s, q) ==
    /\ rs \in Seq([pc : Nat, frame : Nat, rows : Nat]) /\ Len(rs) = Frames(plan) - q
    /\ \A j \in 1 .. Frames(plan) - q : rs[j] = RunAt(plan, s, q + j)

\* The rows after cycle q, and those in it after a traversals and o dummies of the next.
RowsAfter(rows, base, plan, q) ==
    \A t \in Tables :
        rows[t] = base[t] + RowsTo(plan, t, q) + (IF t = JUMP THEN TurnsTo(plan, q) ELSE 0)
RowsWithin(rows, base, plan, q, a, o) ==
    \A t \in Tables :
        rows[t] = base[t] + (RowsTo(plan, t, q - 1) + (IF TableAt(plan, q) = t THEN a * SizeAt(plan, q) + o ELSE 0))
                          + (IF t = JUMP THEN TurnsTo(plan, q - 1) + a ELSE 0)

\* A row more.
LEMMA RowsStep ==
    ASSUME NEW plan, CyclesAddUp(plan), NEW base \in [Tables -> Nat], NEW rows \in [Tables -> Nat],
           NEW q \in 1 .. Frames(plan), NEW a \in Nat, NEW o \in Nat,
           RowsWithin(rows, base, plan, q, a, o)
    PROVE  /\ RowsWithin([rows EXCEPT ![TableAt(plan, q)] = @ + 1], base, plan, q, a, o + 1)
           /\ o = SizeAt(plan, q) =>
                 /\ RowsWithin([rows EXCEPT ![JUMP] = @ + 1], base, plan, q, a + 1, 0)
                 /\ a + 1 = TurnsAt(plan, q) => RowsAfter([rows EXCEPT ![JUMP] = @ + 1], base, plan, q)
<1> DEFINE u == TableAt(plan, q)
           z == SizeAt(plan, q)
           more == [rows EXCEPT ![u] = @ + 1]
           turned == [rows EXCEPT ![JUMP] = @ + 1]
<1>1. u \in Tables /\ z \in Nat /\ JUMP \in Tables /\ TurnsTo(plan, q - 1) \in Nat
      /\ TurnsTo(plan, q) = TurnsTo(plan, q - 1) + TurnsAt(plan, q)
  <2>1. Frames(plan) \in Nat
    BY DEF CyclesAddUp
  <2>2. q - 1 \in 0 .. Frames(plan) /\ JUMP \in Tables
    BY <2>1 DEF JUMP, Tables
  <2>3. QED
    BY <2>2 DEF CyclesAddUp
<1>2. \A x, y \in Nat : (x + 1) * y = x * y + y /\ x * y \in Nat
  BY Z3
<1>3. a * z \in Nat /\ (a + 1) * z = a * z + z
  BY <1>1, <1>2
<1>4. \A t \in Tables : /\ RowsTo(plan, t, q - 1) \in Nat
                        /\ RowsTo(plan, t, q) = RowsTo(plan, t, q - 1) + (IF u = t THEN TurnsAt(plan, q) * z ELSE 0)
  <2>1. q - 1 \in 0 .. Frames(plan)
    BY DEF CyclesAddUp
  <2>2. QED
    BY <2>1 DEF CyclesAddUp
<1>5. \A t \in Tables :
        rows[t] = base[t] + (RowsTo(plan, t, q - 1) + (IF u = t THEN a * z + o ELSE 0))
                          + (IF t = JUMP THEN TurnsTo(plan, q - 1) + a ELSE 0)
  BY DEF RowsWithin
<1> DEFINE p == a * z
           n == TurnsTo(plan, q - 1)
<1>6. p \in Nat /\ n \in Nat /\ (a + 1) * z = p + z
  BY <1>1, <1>3
<1>7. /\ \A t \in Tables : more[t] = IF t = u THEN rows[t] + 1 ELSE rows[t]
      /\ \A t \in Tables : turned[t] = IF t = JUMP THEN rows[t] + 1 ELSE rows[t]
  OBVIOUS
<1> HIDE DEF u, z, more, turned, p, n
<1>8. ASSUME NEW t \in Tables
      PROVE  more[t] = base[t] + (RowsTo(plan, t, q - 1) + (IF u = t THEN p + (o + 1) ELSE 0))
                               + (IF t = JUMP THEN n + a ELSE 0)
  <2> DEFINE x == RowsTo(plan, t, q - 1)
             b == base[t]
             w == rows[t]
  <2>1. x \in Nat /\ b \in Nat /\ w = b + (x + (IF u = t THEN p + o ELSE 0)) + (IF t = JUMP THEN n + a ELSE 0)
    BY <1>4, <1>5 DEF p, n
  <2>2. more[t] = IF t = u THEN w + 1 ELSE w
    BY <1>7
  <2> HIDE DEF x, b, w
  <2>3. more[t] = b + (x + (IF u = t THEN p + (o + 1) ELSE 0)) + (IF t = JUMP THEN n + a ELSE 0)
    BY <1>6, <2>1, <2>2
  <2>4. QED
    BY <2>3 DEF x, b
<1>9. RowsWithin(more, base, plan, q, a, o + 1)
  BY <1>8 DEF RowsWithin, u, z, p, n
<1>10. ASSUME o = z, NEW t \in Tables
       PROVE  turned[t] = base[t] + (RowsTo(plan, t, q - 1) + (IF u = t THEN (a + 1) * z + 0 ELSE 0))
                                  + (IF t = JUMP THEN n + (a + 1) ELSE 0)
  <2> DEFINE x == RowsTo(plan, t, q - 1)
             b == base[t]
             w == rows[t]
             y == (a + 1) * z
  <2>1. x \in Nat /\ b \in Nat /\ w = b + (x + (IF u = t THEN p + o ELSE 0)) + (IF t = JUMP THEN n + a ELSE 0)
    BY <1>4, <1>5 DEF p, n
  <2>2. turned[t] = IF t = JUMP THEN w + 1 ELSE w
    BY <1>7
  <2>3. y = p + z /\ z \in Nat
    BY <1>1, <1>6
  <2> HIDE DEF x, b, w, y
  <2>4. turned[t] = b + (x + (IF u = t THEN y + 0 ELSE 0)) + (IF t = JUMP THEN n + (a + 1) ELSE 0)
    BY <1>6, <1>10, <2>1, <2>2, <2>3
  <2>5. QED
    BY <2>4 DEF x, b, y
<1>11. o = z => RowsWithin(turned, base, plan, q, a + 1, 0)
  BY <1>10 DEF RowsWithin, u, z, n
<1>12. ASSUME o = z, a + 1 = TurnsAt(plan, q)
       PROVE  RowsAfter(turned, base, plan, q)
  <2>1. ASSUME NEW t \in Tables
        PROVE  turned[t] = base[t] + RowsTo(plan, t, q) + (IF t = JUMP THEN TurnsTo(plan, q) ELSE 0)
    <3> DEFINE x == RowsTo(plan, t, q - 1)
               b == base[t]
               y == (a + 1) * z
               m == TurnsTo(plan, q)
               r == RowsTo(plan, t, q)
    <3>1. turned[t] = b + (x + (IF u = t THEN y + 0 ELSE 0)) + (IF t = JUMP THEN n + (a + 1) ELSE 0)
      BY <1>10, <1>12
    <3>2. r = x + (IF u = t THEN y ELSE 0) /\ x \in Nat /\ b \in Nat /\ y \in Nat /\ m = n + (a + 1)
      BY <1>1, <1>4, <1>6, <1>12 DEF n
    <3> HIDE DEF x, b, y, m, r
    <3>3. turned[t] = b + r + (IF t = JUMP THEN m ELSE 0)
      BY <1>6, <3>1, <3>2
    <3>4. QED
      BY <3>3 DEF b, r, m
  <2>2. QED
    BY <2>1 DEF RowsAfter
<1>13. QED
  BY <1>9, <1>11, <1>12 DEF more, turned, u, z

\* The rows at the start of the next cycle, and when nothing has run.
LEMMA RowsNext ==
    ASSUME NEW plan, CyclesAddUp(plan), NEW base \in [Tables -> Nat], NEW rows \in [Tables -> Nat]
    PROVE  /\ rows = base => RowsAfter(rows, base, plan, 0)
           /\ \A q \in 0 .. Frames(plan) - 1 :
                 RowsAfter(rows, base, plan, q) => RowsWithin(rows, base, plan, q + 1, 0, 0)
           /\ plan \in Plans /\ RowsAfter(rows, base, plan, Frames(plan)) => rows = Filled(base, plan)
<1>1. ASSUME rows = base
      PROVE  RowsAfter(rows, base, plan, 0)
  <2>1. ASSUME NEW t \in Tables
        PROVE  rows[t] = base[t] + RowsTo(plan, t, 0) + (IF t = JUMP THEN TurnsTo(plan, 0) ELSE 0)
    <3>1. RowsTo(plan, t, 0) = 0 /\ TurnsTo(plan, 0) = 0 /\ base[t] \in Nat
      BY DEF CyclesAddUp
    <3>2. QED
      BY <1>1, <3>1
  <2>2. QED
    BY <2>1 DEF RowsAfter
<1>2. ASSUME NEW q \in 0 .. Frames(plan) - 1, RowsAfter(rows, base, plan, q)
      PROVE  RowsWithin(rows, base, plan, q + 1, 0, 0)
  <2>1. (q + 1) - 1 = q /\ q + 1 \in 1 .. Frames(plan) /\ q \in 0 .. Frames(plan)
    <3>1. Frames(plan) \in Nat
      BY DEF CyclesAddUp
    <3>2. QED
      BY <3>1
  <2>2. SizeAt(plan, q + 1) \in Nat /\ 0 * SizeAt(plan, q + 1) + 0 = 0
    BY <2>1 DEF CyclesAddUp
  <2>3. ASSUME NEW t \in Tables
        PROVE  rows[t] = base[t] + (RowsTo(plan, t, (q + 1) - 1)
                                    + (IF TableAt(plan, q + 1) = t THEN 0 * SizeAt(plan, q + 1) + 0 ELSE 0))
                                 + (IF t = JUMP THEN TurnsTo(plan, (q + 1) - 1) + 0 ELSE 0)
    <3>1. RowsTo(plan, t, q) \in Nat /\ TurnsTo(plan, q) \in Nat /\ base[t] \in Nat
      BY <2>1 DEF CyclesAddUp
    <3>2. rows[t] = base[t] + RowsTo(plan, t, q) + (IF t = JUMP THEN TurnsTo(plan, q) ELSE 0)
      BY <1>2 DEF RowsAfter
    <3>3. RowsTo(plan, t, q) + 0 = RowsTo(plan, t, q) /\ TurnsTo(plan, q) + 0 = TurnsTo(plan, q)
      BY <3>1
    <3>4. QED
      BY <2>1, <2>2, <3>2, <3>3
  <2>4. QED
    BY <2>3 DEF RowsWithin
<1>3. ASSUME plan \in Plans, RowsAfter(rows, base, plan, Frames(plan))
      PROVE  rows = Filled(base, plan)
  <2>1. ASSUME NEW t \in Tables
        PROVE  rows[t] = base[t] + Delivered(plan, t) + (IF t = JUMP THEN Traversals(plan) ELSE 0)
    <3>1. RowsTo(plan, t, Frames(plan)) = Delivered(plan, t) /\ TurnsTo(plan, Frames(plan)) = Traversals(plan)
      BY DEF CyclesAddUp
    <3>2. QED
      BY <1>3, <3>1 DEF RowsAfter
  <2>2. rows = [t \in Tables |-> rows[t]]
    OBVIOUS
  <2>3. QED
    BY <2>1, <2>2 DEF Filled
<1>4. QED
  BY <1>1, <1>2, <1>3

-----------------------------------------------------------------------------
(***************************************************************************)
(* The frames.                                                             *)
(***************************************************************************)

\* Frames do not overlap.
LEMMA FramesApart ==
    ASSUME NEW s \in Nat, NEW i \in Nat \ {0}, NEW j \in Nat \ {0}, NEW o \in 0 .. 11, NEW x \in 0 .. 11,
           FrameAt(s, i) + o = FrameAt(s, j) + x
    PROVE  i = j /\ o = x
<1>1. s + (i - 1) * 12 + o = s + (j - 1) * 12 + x
  BY DEF FrameAt, CELLS
<1>2. QED
  BY <1>1

\* A frame is past every cell of the program, and before the end of the memory.
LEMMA FramesInside ==
    ASSUME NEW s \in Nat, NEW n \in Nat, NEW j \in 1 .. n, NEW o \in 0 .. 11
    PROVE  FrameAt(s, j) + o \in Nat /\ FrameAt(s, j) + o >= s /\ FrameAt(s, j) + o < s + n * CELLS
           /\ FrameAt(s, j) \in Nat
BY DEF FrameAt, CELLS

\* The words put in the frames, by frame and offset.
LEMMA FrameWordsAre ==
    ASSUME NEW s \in Nat, NEW n \in Nat, NEW cs, DOMAIN cs = 1 .. n
    PROVE  /\ \A a \in DOMAIN FrameWords(cs, s) : \E j \in 1 .. n, o \in 0 .. 2 : a = FrameAt(s, j) + o
           /\ \A j \in 1 .. n :
                 /\ FrameAt(s, j) + DEST \in DOMAIN FrameWords(cs, s)
                 /\ FrameAt(s, j) + NEXT_FP \in DOMAIN FrameWords(cs, s)
                 /\ FrameAt(s, j) + PTR \in DOMAIN FrameWords(cs, s)
                 /\ FrameWords(cs, s)[FrameAt(s, j) + DEST] = G(cs[j].pc)
                 /\ FrameWords(cs, s)[FrameAt(s, j) + NEXT_FP] = G(FrameAt(s, j))
                 /\ FrameWords(cs, s)[FrameAt(s, j) + PTR] = G(0)
<1> DEFINE D == {FrameAt(s, j) + o : j \in DOMAIN cs, o \in {DEST, NEXT_FP, PTR}}
           W == FrameWords(cs, s)
           Word(j, o) == IF o = DEST THEN G(cs[j].pc) ELSE IF o = NEXT_FP THEN G(FrameAt(s, j)) ELSE G(0)
<1>1. W = [a \in D |-> Word(((a - s) \div CELLS) + 1, (a - s) % CELLS)]
  BY DEF FrameWords
<1>2. DEST = 0 /\ NEXT_FP = 1 /\ PTR = 2 /\ CELLS = 12
  BY DEF DEST, NEXT_FP, PTR, CELLS
<1>3. ASSUME NEW j \in 1 .. n, NEW o \in {DEST, NEXT_FP, PTR}
      PROVE  FrameAt(s, j) + o \in DOMAIN W /\ W[FrameAt(s, j) + o] = Word(j, o)
  <2>1. FrameAt(s, j) + o \in D
    <3>1. \E i \in DOMAIN cs, x \in {DEST, NEXT_FP, PTR} : FrameAt(s, j) + o = FrameAt(s, i) + x
      OBVIOUS
    <3> HIDE DEF W, Word
    <3>2. \A a : (\E i \in DOMAIN cs, x \in {DEST, NEXT_FP, PTR} : a = FrameAt(s, i) + x) => a \in D
      BY SMT
    <3> HIDE DEF D
    <3>3. QED
      BY <3>1, <3>2
  <2> DEFINE a == FrameAt(s, j) + o
  <2>2. a - s = (j - 1) * 12 + o /\ o \in 0 .. 2 /\ j - 1 \in Nat
    BY <1>2 DEF FrameAt
  <2>3. (a - s) \div CELLS = j - 1 /\ (a - s) % CELLS = o
    <3>1. \A x \in Nat, y \in 0 .. 11 : (x * 12 + y) \div 12 = x /\ (x * 12 + y) % 12 = y
      BY Z3
    <3>2. o \in 0 .. 11
      BY <2>2
    <3>3. ((j - 1) * 12 + o) \div 12 = j - 1 /\ ((j - 1) * 12 + o) % 12 = o
      BY <2>2, <3>1, <3>2
    <3> HIDE DEF a
    <3>4. QED
      BY <1>2, <2>2, <3>3
  <2>4. (j - 1) + 1 = j
    OBVIOUS
  <2> HIDE DEF D, a, Word, W
  <2>5. a \in D
    BY <2>1 DEF a
  <2>6. a \in DOMAIN W /\ W[a] = Word(((a - s) \div CELLS) + 1, (a - s) % CELLS)
    BY <1>1, <2>5
  <2>7. W[a] = Word(j, o)
    BY <2>3, <2>4, <2>6
  <2>8. QED
    BY <2>6, <2>7 DEF a
<1>4. ASSUME NEW a \in DOMAIN W
      PROVE  \E j \in 1 .. n, o \in 0 .. 2 : a = FrameAt(s, j) + o
  <2>1. a \in D
    BY <1>1
  <2>2. PICK j \in 1 .. n, o \in {DEST, NEXT_FP, PTR} : a = FrameAt(s, j) + o
    BY <2>1
  <2>3. o \in 0 .. 2
    BY <1>2
  <2>4. QED
    BY <2>2, <2>3
<1> HIDE DEF W
<1>5. ASSUME NEW j \in 1 .. n
      PROVE  /\ FrameAt(s, j) + DEST \in DOMAIN W
             /\ FrameAt(s, j) + NEXT_FP \in DOMAIN W
             /\ FrameAt(s, j) + PTR \in DOMAIN W
             /\ W[FrameAt(s, j) + DEST] = G(cs[j].pc)
             /\ W[FrameAt(s, j) + NEXT_FP] = G(FrameAt(s, j))
             /\ W[FrameAt(s, j) + PTR] = G(0)
  <2>1. Word(j, DEST) = G(cs[j].pc) /\ Word(j, NEXT_FP) = G(FrameAt(s, j)) /\ Word(j, PTR) = G(0)
    BY <1>2
  <2> HIDE DEF Word
  <2>2. QED
    BY <1>3, <2>1
<1>6. QED
  BY <1>4, <1>5 DEF W

\* What a fill starts from.
LEMMA StartIs ==
    ASSUME NEW plan, CyclesAddUp(plan), NEW s \in Nat, s >= 2,
           NEW val, DOMAIN val = {0, 1}, val[0] = Pi,
           NEW cs, cs = Cycles(Emitted, plan)
    PROVE  /\ Prepared([len |-> s + Len(cs) * CELLS, val |-> Put(val, FrameWords(cs, s))], plan, s)
           /\ Untouched(Put(val, FrameWords(cs, s)), plan, s, 0)
           /\ Ahead([i \in DOMAIN cs |-> [pc |-> cs[i].pc, frame |-> FrameAt(s, i),
                                          rows |-> RowsOf(cs[i].n, cs[i].size)]], plan, s, 0)
<1> DEFINE n == Frames(plan)
           W == FrameWords(cs, s)
           v == Put(val, W)
           rs == [i \in DOMAIN cs |-> [pc |-> cs[i].pc, frame |-> FrameAt(s, i), rows |-> RowsOf(cs[i].n, cs[i].size)]]
<1>1. n \in Nat /\ DOMAIN cs = 1 .. n /\ Len(cs) = n
  BY DEF CyclesAddUp
<1>2. \A q \in 1 .. n : cs[q] = [pc |-> PcAt(plan, q), size |-> SizeAt(plan, q), n |-> TurnsAt(plan, q)]
  BY DEF CyclesAddUp
<1>3. \A q \in 1 .. n : cs[q].pc = PcAt(plan, q) /\ cs[q].size = SizeAt(plan, q) /\ cs[q].n = TurnsAt(plan, q)
  <2>1. ASSUME NEW q \in 1 .. n
        PROVE  cs[q].pc = PcAt(plan, q) /\ cs[q].size = SizeAt(plan, q) /\ cs[q].n = TurnsAt(plan, q)
    <3> DEFINE x == PcAt(plan, q)
               y == SizeAt(plan, q)
               z == TurnsAt(plan, q)
    <3>1. cs[q] = [pc |-> x, size |-> y, n |-> z]
      BY <1>2
    <3> HIDE DEF x, y, z
    <3>2. cs[q].pc = x /\ cs[q].size = y /\ cs[q].n = z
      BY <3>1
    <3>3. QED
      BY <3>2 DEF x, y, z
  <2>2. QED
    BY <2>1
<1> HIDE DEF n
<1>4. /\ \A a \in DOMAIN W : \E j \in 1 .. n, o \in 0 .. 2 : a = FrameAt(s, j) + o
      /\ \A j \in 1 .. n :
            /\ FrameAt(s, j) + DEST \in DOMAIN W
            /\ FrameAt(s, j) + NEXT_FP \in DOMAIN W
            /\ FrameAt(s, j) + PTR \in DOMAIN W
            /\ W[FrameAt(s, j) + DEST] = G(cs[j].pc)
            /\ W[FrameAt(s, j) + NEXT_FP] = G(FrameAt(s, j))
            /\ W[FrameAt(s, j) + PTR] = G(0)
  BY <1>1, FrameWordsAre
<1> HIDE DEF W
<1>5. DOMAIN v = {0, 1} \cup DOMAIN W /\ \A a \in DOMAIN v : v[a] = IF a \in {0, 1} THEN val[a] ELSE W[a]
  BY DEF Put
<1> HIDE DEF v
<1>6. \A j \in 1 .. n, o \in 0 .. 11 : FrameAt(s, j) + o \notin {0, 1}
  <2>1. ASSUME NEW j \in 1 .. n, NEW o \in 0 .. 11
        PROVE  FrameAt(s, j) + o \notin {0, 1}
    <3>1. FrameAt(s, j) + o \in Nat /\ FrameAt(s, j) + o >= s
      BY <1>1, FramesInside
    <3>2. QED
      BY <3>1
  <2>2. QED
    BY <2>1
<1>7. DEST \in 0 .. 11 /\ NEXT_FP \in 0 .. 11 /\ PTR \in 0 .. 11
  BY DEF DEST, NEXT_FP, PTR
<1>8. ASSUME NEW j \in 1 .. n
      PROVE  /\ FrameAt(s, j) + DEST \in DOMAIN v /\ v[FrameAt(s, j) + DEST] = G(PcAt(plan, j))
             /\ FrameAt(s, j) + NEXT_FP \in DOMAIN v /\ v[FrameAt(s, j) + NEXT_FP] = G(FrameAt(s, j))
             /\ FrameAt(s, j) + PTR \in DOMAIN v /\ v[FrameAt(s, j) + PTR] = G(0)
  <2>1. /\ FrameAt(s, j) + DEST \notin {0, 1} /\ FrameAt(s, j) + NEXT_FP \notin {0, 1}
        /\ FrameAt(s, j) + PTR \notin {0, 1}
    BY <1>6, <1>7
  <2>2. G(cs[j].pc) = G(PcAt(plan, j))
    BY <1>3
  <2> DEFINE x == FrameAt(s, j) + DEST
             y == FrameAt(s, j) + NEXT_FP
             z == FrameAt(s, j) + PTR
  <2>3. /\ x \in DOMAIN W /\ y \in DOMAIN W /\ z \in DOMAIN W
        /\ W[x] = G(PcAt(plan, j)) /\ W[y] = G(FrameAt(s, j)) /\ W[z] = G(0)
    BY <1>4, <2>2
  <2>4. x \notin {0, 1} /\ y \notin {0, 1} /\ z \notin {0, 1}
    BY <2>1
  <2> HIDE DEF x, y, z
  <2>5. /\ x \in DOMAIN v /\ v[x] = G(PcAt(plan, j))
        /\ y \in DOMAIN v /\ v[y] = G(FrameAt(s, j))
        /\ z \in DOMAIN v /\ v[z] = G(0)
    BY <1>5, <2>3, <2>4
  <2>6. QED
    BY <2>5 DEF x, y, z
<1>9. 0 \in DOMAIN v /\ v[0] = Pi
  BY <1>5
<1>10. Prepared([len |-> s + Len(cs) * CELLS, val |-> v], plan, s)
  <2> DEFINE memory == [len |-> s + Len(cs) * CELLS, val |-> v]
  <2>1. memory.val = v /\ memory.len = s + n * CELLS
    BY <1>1
  <2> HIDE DEF memory
  <2>2. Prepared(memory, plan, s)
    BY <1>8, <1>9, <2>1 DEF Prepared, n
  <2>3. QED
    BY <2>2 DEF memory
<1>11. Untouched(v, plan, s, 0)
  <2>1. ASSUME NEW j \in 0 + 1 .. n, NEW o \in ZERO .. CELLS - 1, FrameAt(s, j) + o \in DOMAIN v
        PROVE  FALSE
    <3>1. j \in 1 .. n /\ j \in Nat \ {0} /\ o \in 3 .. 11 /\ o \in 0 .. 11
      BY <1>1 DEF ZERO, CELLS
    <3>2. FrameAt(s, j) + o \in DOMAIN W
      BY <1>5, <1>6, <2>1, <3>1
    <3>3. PICK i \in 1 .. n, x \in 0 .. 2 : FrameAt(s, j) + o = FrameAt(s, i) + x
      BY <1>4, <3>2
    <3>4. i \in Nat \ {0} /\ x \in 0 .. 11
      BY <1>1
    <3>5. o = x
      BY <3>1, <3>3, <3>4, FramesApart
    <3>6. QED
      BY <3>1, <3>5
  <2>2. QED
    BY <2>1 DEF Untouched, n
<1>12. Ahead(rs, plan, s, 0)
  <2>1. ASSUME NEW q \in 1 .. n
        PROVE  rs[q] = RunAt(plan, s, q) /\ RunAt(plan, s, q) \in [pc : Nat, frame : Nat, rows : Nat]
    <3>1. rs[q] = [pc |-> cs[q].pc, frame |-> FrameAt(s, q), rows |-> RowsOf(cs[q].n, cs[q].size)]
      BY <1>1
    <3>2. rs[q] = RunAt(plan, s, q)
      BY <1>3, <3>1 DEF RunAt
    <3>3. PcAt(plan, q) \in Nat /\ SizeAt(plan, q) \in Nat /\ TurnsAt(plan, q) \in Nat
      BY DEF CyclesAddUp, n
    <3>4. FrameAt(s, q) \in Nat
      <4>1. 0 \in 0 .. 11
        OBVIOUS
      <4>2. QED
        BY <1>1, <4>1, FramesInside
    <3>5. RowsOf(TurnsAt(plan, q), SizeAt(plan, q)) \in Nat
      <4>1. \A x, y \in Nat : x * (y + 1) \in Nat
        OBVIOUS
      <4>2. QED
        BY <3>3, <4>1 DEF RowsOf
    <3>6. QED
      BY <3>2, <3>3, <3>4, <3>5 DEF RunAt
  <2>2. rs \in [1 .. n -> [pc : Nat, frame : Nat, rows : Nat]]
    <3>1. rs = [q \in 1 .. n |-> rs[q]]
      BY <1>1
    <3> HIDE DEF rs
    <3>2. QED
      BY <2>1, <3>1
  <2> HIDE DEF rs
  <2>3. rs \in Seq([pc : Nat, frame : Nat, rows : Nat]) /\ Len(rs) = n
    <3> DEFINE R == [pc : Nat, frame : Nat, rows : Nat]
    <3>1. rs \in [1 .. n -> R]
      BY <2>2
    <3> HIDE DEF R
    <3>2. rs \in Seq(R)
      BY <1>1, <3>1
    <3>3. Len(rs) = n
      BY <1>1, <3>1, <3>2
    <3>4. QED
      BY <3>2, <3>3 DEF R
  <2>4. n - 0 = n /\ \A j \in 1 .. n : 0 + j = j
    BY <1>1
  <2>5. QED
    BY <2>1, <2>3, <2>4 DEF Ahead, n
<1>13. QED
  BY <1>10, <1>11, <1>12 DEF v, W

\* The next cycle.
LEMMA NextIs ==
    ASSUME NEW plan, CyclesAddUp(plan), NEW s \in Nat, NEW q \in 0 .. Frames(plan),
           NEW rs, Ahead(rs, plan, s, q)
    PROVE  /\ rs = <<>> <=> q = Frames(plan)
           /\ rs # <<>> => Head(rs) = RunAt(plan, s, q + 1) /\ Ahead(Tail(rs), plan, s, q + 1)
<1> DEFINE n == Frames(plan)
           R == [pc : Nat, frame : Nat, rows : Nat]
<1>1. n \in Nat
  BY DEF CyclesAddUp
<1>2. rs \in Seq(R) /\ Len(rs) = n - q /\ \A j \in 1 .. n - q : rs[j] = RunAt(plan, s, q + j)
  BY DEF Ahead
<1> HIDE DEF n, R
<1>3. rs = <<>> <=> q = n
  <2>1. rs = <<>> <=> Len(rs) = 0
    BY <1>2
  <2>2. q \in 0 .. n
    BY DEF n
  <2>3. QED
    BY <1>1, <1>2, <2>1, <2>2
<1>4. ASSUME rs # <<>>
      PROVE  Head(rs) = RunAt(plan, s, q + 1) /\ Ahead(Tail(rs), plan, s, q + 1)
  <2>1. q \in 0 .. n
    BY DEF n
  <2>2. q < n /\ 1 \in 1 .. n - q /\ (n - q) - 1 = n - (q + 1)
    BY <1>1, <1>3, <1>4, <2>1
  <2>3. Head(rs) = rs[1]
    BY <1>2, <1>4
  <2>4. Tail(rs) \in Seq(R) /\ Len(Tail(rs)) = Len(rs) - 1
    BY <1>2, <1>4
  <2>5. ASSUME NEW j \in 1 .. n - (q + 1)
        PROVE  Tail(rs)[j] = RunAt(plan, s, (q + 1) + j)
    <3>1. j + 1 \in 1 .. n - q /\ q + (j + 1) = (q + 1) + j /\ j \in 1 .. Len(rs) - 1
      BY <1>1, <1>2, <2>1, <2>2
    <3>2. Tail(rs)[j] = rs[j + 1]
      BY <1>2, <1>4, <3>1
    <3>3. QED
      BY <1>2, <3>1, <3>2
  <2>6. QED
    BY <1>2, <2>2, <2>3, <2>4, <2>5 DEF Ahead, n, R
<1>5. QED
  BY <1>3, <1>4 DEF n

-----------------------------------------------------------------------------
(***************************************************************************)
(* A row of a block.                                                       *)
(***************************************************************************)

\* What a row reads and writes when its frame holds what its dummies leave: it reads the
\* pointer or what is zero, and writes what the frame then holds.
Harmless(t, reads, writes) ==
    /\ reads \subseteq PTR .. CELLS - 1
    /\ \A o \in reads : o = PTR \/ Held(t, o) = Zero
    /\ DOMAIN writes \subseteq ZERO .. CELLS - 1
    /\ \A o \in DOMAIN writes : writes[o] = Held(t, o)

\* The instructions of every table do no harm.
LEMMA DummyIs ==
    ASSUME NEW t \in Tables, Clean(mem.val, t, fp),
           0 \in DOMAIN mem.val, mem.val[0] = Pi,
           fp + PTR \in DOMAIN mem.val, mem.val[fp + PTR] = G(0)
    PROVE  Harmless(t, ReadBy(t), WrittenBy(t))
<1>1. /\ PTR = 2 /\ ZERO = 3 /\ SCRATCH = 4 /\ DIGEST = 6 /\ CELLS = 12
      /\ XOR = 1 /\ MUL = 2 /\ SET = 3 /\ DEREF = 4 /\ JUMP = 5 /\ BLAKE2S = 6
  BY DEF PTR, ZERO, SCRATCH, DIGEST, CELLS, XOR, MUL, SET, DEREF, JUMP, BLAKE2S
<1>2. t \in {XOR, MUL, SET, DEREF, JUMP, BLAKE2S}
  BY <1>1 DEF Tables
<1>3. ASSUME NEW o \in 3 .. 11, Held(t, o) = Zero
      PROVE  At(o) = Zero
  <2>1. fp + o \in DOMAIN mem.val => mem.val[fp + o] = Held(t, o)
    BY <1>1 DEF Clean
  <2>2. QED
    BY <1>3, <2>1 DEF At
<1>4. \A o \in 3 .. 11 : ~(t = BLAKE2S /\ o \in {6, 7}) /\ ~(t = DEREF /\ o = 4) => Held(t, o) = Zero
  BY <1>1 DEF Held
<1>5. \A o \in 3 .. 11 : ~(t = BLAKE2S /\ o \in {6, 7}) /\ ~(t = DEREF /\ o = 4) => At(o) = Zero
  BY <1>3, <1>4
<1>6. CASE t \in {XOR, SET}
  <2>1. ReadBy(t) \subseteq {4}
    BY <1>1, <1>6 DEF ReadBy
  <2>2. WrittenBy(t) = [o \in {4} |-> Zero]
    BY <1>1, <1>6 DEF WrittenBy
  <2>3. Held(t, 4) = Zero
    BY <1>1, <1>4, <1>6
  <2>4. QED
    BY <1>1, <2>1, <2>2, <2>3 DEF Harmless
<1>7. CASE t = MUL
  <2>1. ReadBy(t) = {4}
    BY <1>1, <1>7 DEF ReadBy
  <2>2. WrittenBy(t) = [o \in {4} |-> Square(At(4))]
    BY <1>1, <1>7 DEF WrittenBy
  <2>3. Held(t, 4) = Zero /\ At(4) = Zero
    BY <1>1, <1>4, <1>5, <1>7
  <2>4. Square(At(4)) = Zero
    BY <2>3 DEF Square
  <2>5. QED
    BY <1>1, <2>1, <2>2, <2>3, <2>4 DEF Harmless
<1>8. CASE t = DEREF
  <2>1. ReadBy(t) = {2}
    BY <1>1, <1>8 DEF ReadBy
  <2>2. WrittenBy(t) = [o \in {4} |-> mem.val[At(2).g]]
    BY <1>1, <1>8 DEF WrittenBy
  <2>3. At(2) = G(0)
    BY <1>1 DEF At
  <2>4. At(2).g = 0
    BY <2>3 DEF G
  <2>5. Held(t, 4) = Pi
    BY <1>1, <1>8 DEF Held
  <2>6. QED
    BY <1>1, <2>1, <2>2, <2>4, <2>5 DEF Harmless
<1>9. CASE t = JUMP
  <2>1. ReadBy(t) = {3}
    BY <1>1, <1>9 DEF ReadBy
  <2>2. DOMAIN WrittenBy(t) = {}
    BY <1>1, <1>9 DEF WrittenBy
  <2>3. Held(t, 3) = Zero
    BY <1>1, <1>4, <1>9
  <2>4. QED
    BY <1>1, <2>1, <2>2, <2>3 DEF Harmless
<1>10. CASE t = BLAKE2S
  <2>1. ReadBy(t) = {3, 4, 5} \cup 8 .. 11
    <3>1. ReadBy(t) = {ZERO, SCRATCH, SCRATCH + 1} \cup DIGEST + 2 .. DIGEST + 5
      BY <1>1, <1>10 DEF ReadBy
    <3>2. QED
      BY <1>1, <3>1
  <2> DEFINE message == [o \in DIGEST + 2 .. DIGEST + 5 |-> At(o)]
             chain == <<At(SCRATCH), At(SCRATCH + 1)>>
  <2>2. WrittenBy(t) = [o \in {DIGEST, DIGEST + 1} |-> [half |-> o - DIGEST, of |-> <<message, chain, At(ZERO)>>]]
    BY <1>1, <1>10 DEF WrittenBy
  <2>3. \A o \in {3, 4, 5} \cup 8 .. 11 : Held(t, o) = Zero /\ At(o) = Zero
    BY <1>1, <1>4, <1>5, <1>10
  <2>4. message = [x \in DIGEST + 2 .. DIGEST + 5 |-> Zero]
    <3>1. \A x \in DIGEST + 2 .. DIGEST + 5 : At(x) = Zero
      BY <1>1, <2>3
    <3>2. QED
      BY <3>1
  <2>5. chain = <<Zero, Zero>> /\ At(ZERO) = Zero
    <3>1. At(SCRATCH) = Zero /\ At(SCRATCH + 1) = Zero /\ At(ZERO) = Zero
      BY <1>1, <2>3
    <3>2. QED
      BY <3>1
  <2>6. \A o \in {DIGEST, DIGEST + 1} : [half |-> o - DIGEST, of |-> <<message, chain, At(ZERO)>>] = Digest(o)
    BY <2>4, <2>5 DEF Digest
  <2> HIDE DEF message, chain
  <2>7. \A o \in {DIGEST, DIGEST + 1} : Held(t, o) = Digest(o)
    BY <1>10 DEF Held
  <2>8. DOMAIN WrittenBy(t) = {6, 7} /\ \A o \in {6, 7} : WrittenBy(t)[o] = Held(t, o)
    <3>1. DOMAIN WrittenBy(t) = {DIGEST, DIGEST + 1}
      BY <2>2
    <3>2. \A o \in {DIGEST, DIGEST + 1} : WrittenBy(t)[o] = Held(t, o)
      BY <2>2, <2>6, <2>7
    <3>3. DIGEST = 6 /\ DIGEST + 1 = 7
      BY <1>1
    <3>4. QED
      BY <3>1, <3>2, <3>3
  <2>9. QED
    BY <1>1, <2>1, <2>3, <2>8 DEF Harmless
<1>11. QED
  BY <1>2, <1>6, <1>7, <1>8, <1>9, <1>10

\* Such a row leaves the frames as they were prepared, those ahead untouched, and its
\* own with what its dummies leave; it writes no second value.
LEMMA FramesKept ==
    ASSUME NEW plan, Frames(plan) \in Nat, NEW s \in Nat, NEW q \in 1 .. Frames(plan), NEW t,
           Prepared(mem, plan, s), Untouched(mem.val, plan, s, q), Clean(mem.val, t, fp),
           fp = FrameAt(s, q),
           NEW reads, NEW writes, Harmless(t, reads, writes)
    PROVE  LET touched == Touched(reads, writes)
           IN  /\ ~touched.conflict
               /\ Prepared(touched.mem, plan, s)
               /\ Untouched(touched.mem.val, plan, s, q)
               /\ Clean(touched.mem.val, t, fp)
<1> DEFINE val == mem.val
           len == mem.len
           n == Frames(plan)
           pinned == Put(val, [a \in {fp + o : o \in reads} |-> Zero])
           put == [a \in {fp + o : o \in DOMAIN writes} |-> writes[a - fp]]
           cells == {fp + o : o \in reads \cup DOMAIN writes}
           beyond == {a \in cells : a >= len}
           after == Put(pinned, put)
           size == IF beyond = {} THEN len ELSE 1 + CHOOSE a \in beyond : \A b \in beyond : b <= a
           touched == Touched(reads, writes)
<1>1. /\ touched.conflict <=> \E a \in DOMAIN put \cap DOMAIN pinned : put[a] # pinned[a]
      /\ touched.mem.len = size /\ touched.mem.val = after
      /\ touched.mem = [len |-> size, val |-> after]
  BY DEF Touched
<1>2. PTR = 2 /\ ZERO = 3 /\ CELLS = 12 /\ DEST = 0 /\ NEXT_FP = 1
  BY DEF PTR, ZERO, CELLS, DEST, NEXT_FP
<1>3. /\ reads \subseteq 2 .. 11 /\ (\A o \in reads : o = 2 \/ Held(t, o) = Zero)
      /\ DOMAIN writes \subseteq 3 .. 11 /\ \A o \in DOMAIN writes : writes[o] = Held(t, o)
  BY <1>2 DEF Harmless
<1>4. n \in Nat /\ q \in 1 .. n /\ q \in Nat \ {0} /\ fp \in Nat /\ len = s + n * 12
  <2>1. fp \in Nat
    <3>1. 0 \in 0 .. 11
      OBVIOUS
    <3>2. QED
      BY <3>1, FramesInside
  <2>2. QED
    BY <1>2, <2>1 DEF Prepared
<1>5. \A o \in 0 .. 11 : fp + o < len
  <2>1. ASSUME NEW o \in 0 .. 11
        PROVE  fp + o < len
    <3>1. FrameAt(s, q) + o < s + n * CELLS
      BY <1>4, FramesInside
    <3>2. QED
      BY <1>2, <1>4, <3>1
  <2>2. QED
    BY <2>1
<1>6. \A o \in 3 .. 11 : fp + o \in DOMAIN val => val[fp + o] = Held(t, o)
  BY <1>2 DEF Clean
<1>7. size = len
  <2>1. ASSUME NEW a \in cells
        PROVE  a < len /\ a \in Nat
    <3>1. PICK o \in reads \cup DOMAIN writes : a = fp + o
      OBVIOUS
    <3>2. o \in 0 .. 11
      BY <1>3
    <3>3. QED
      BY <1>4, <1>5, <3>1, <3>2
  <2>2. len \in Nat
    BY <1>4
  <2> HIDE DEF cells, len
  <2>3. beyond = {}
    BY <2>1, <2>2
  <2>4. QED
    BY <2>3
<1>8. /\ DOMAIN pinned = DOMAIN val \cup {fp + o : o \in reads}
      /\ \A a \in DOMAIN val : pinned[a] = val[a]
      /\ \A a \in DOMAIN pinned : a \notin DOMAIN val => pinned[a] = Zero
  BY DEF Put
<1>9. \A o \in DOMAIN writes : put[fp + o] = Held(t, o)
  <2>1. ASSUME NEW o \in DOMAIN writes
        PROVE  put[fp + o] = Held(t, o)
    <3>1. o \in 3 .. 11
      BY <1>3
    <3>2. (fp + o) - fp = o
      BY <1>4, <3>1
    <3>3. put[fp + o] = writes[(fp + o) - fp]
      OBVIOUS
    <3>4. QED
      BY <1>3, <3>2, <3>3
  <2>2. QED
    BY <2>1
<1>10. DOMAIN put = {fp + o : o \in DOMAIN writes}
  OBVIOUS
<1> HIDE DEF put, pinned
<1>11. /\ DOMAIN after = DOMAIN pinned \cup DOMAIN put
       /\ \A a \in DOMAIN pinned : after[a] = pinned[a]
       /\ \A a \in DOMAIN put : a \notin DOMAIN pinned => after[a] = put[a]
  BY DEF Put
<1> HIDE DEF after, size, touched, len, val
<1>12. ASSUME NEW o \in DOMAIN writes, fp + o \in DOMAIN pinned
       PROVE  put[fp + o] = pinned[fp + o]
  <2>1. o \in 3 .. 11 /\ put[fp + o] = Held(t, o)
    BY <1>3, <1>9
  <2>2. CASE fp + o \in DOMAIN val
    BY <1>6, <1>8, <2>1, <2>2
  <2>3. CASE fp + o \notin DOMAIN val
    <3>1. PICK x \in reads : fp + o = fp + x
      BY <1>8, <1>12, <2>3
    <3>2. x \in 2 .. 11
      BY <1>3
    <3>3. x = o
      BY <1>4, <2>1, <3>1, <3>2
    <3>4. Held(t, o) = Zero
      BY <1>3, <2>1, <3>3
    <3>5. QED
      BY <1>8, <1>12, <2>1, <2>3, <3>4
  <2>4. QED
    BY <2>2, <2>3
<1>13. ~touched.conflict
  BY <1>1, <1>10, <1>12
<1>14. \A a \in DOMAIN val : a \in DOMAIN after /\ after[a] = val[a]
  BY <1>8, <1>11
<1>15. Prepared(touched.mem, plan, s)
  <2>1. touched.mem.len = mem.len /\ touched.mem.val = after
    BY <1>1, <1>7 DEF len
  <2>2. /\ 0 \in DOMAIN val /\ val[0] = Pi
        /\ \A j \in 1 .. n :
              /\ FrameAt(s, j) + DEST \in DOMAIN val /\ val[FrameAt(s, j) + DEST] = G(PcAt(plan, j))
              /\ FrameAt(s, j) + NEXT_FP \in DOMAIN val /\ val[FrameAt(s, j) + NEXT_FP] = G(FrameAt(s, j))
              /\ FrameAt(s, j) + PTR \in DOMAIN val /\ val[FrameAt(s, j) + PTR] = G(0)
    BY DEF Prepared, val
  <2> HIDE DEF n
  <2>3. /\ 0 \in DOMAIN after /\ after[0] = Pi
        /\ \A j \in 1 .. n :
              /\ FrameAt(s, j) + DEST \in DOMAIN after /\ after[FrameAt(s, j) + DEST] = G(PcAt(plan, j))
              /\ FrameAt(s, j) + NEXT_FP \in DOMAIN after /\ after[FrameAt(s, j) + NEXT_FP] = G(FrameAt(s, j))
              /\ FrameAt(s, j) + PTR \in DOMAIN after /\ after[FrameAt(s, j) + PTR] = G(0)
    BY <1>14, <2>2
  <2>4. mem.len = s + n * CELLS
    BY DEF Prepared, n
  <2>5. QED
    BY <2>1, <2>3, <2>4 DEF Prepared, n
<1>16. ASSUME NEW a \in DOMAIN after, a \notin DOMAIN val
       PROVE  \E o \in 2 .. 11 : a = fp + o /\ (o \in 3 .. 11 => after[a] = Held(t, o))
  <2>1. CASE a \in DOMAIN pinned
    <3>1. PICK o \in reads : a = fp + o
      BY <1>8, <1>16, <2>1
    <3>2. o \in 2 .. 11 /\ (o = 2 \/ Held(t, o) = Zero)
      BY <1>3
    <3>3. after[a] = Zero
      BY <1>8, <1>11, <1>16, <2>1
    <3>4. o \in 3 .. 11 => after[a] = Held(t, o)
      BY <3>2, <3>3
    <3>5. QED
      BY <3>1, <3>2, <3>4
  <2>2. CASE a \notin DOMAIN pinned
    <3>1. PICK o \in DOMAIN writes : a = fp + o
      BY <1>10, <1>11, <2>2
    <3>2. o \in 3 .. 11 /\ put[a] = Held(t, o)
      BY <1>3, <1>9, <3>1
    <3>3. after[a] = put[a]
      BY <1>11, <2>2
    <3>4. o \in 2 .. 11
      BY <3>2
    <3>5. QED
      BY <3>1, <3>2, <3>3, <3>4
  <2>3. QED
    BY <2>1, <2>2
<1>17. Untouched(after, plan, s, q)
  <2>1. ASSUME NEW j \in q + 1 .. n, NEW o \in 3 .. 11, FrameAt(s, j) + o \in DOMAIN after
        PROVE  FALSE
    <3>1. FrameAt(s, j) + o \notin DOMAIN val
      BY <1>2 DEF Untouched, val
    <3>2. PICK x \in 2 .. 11 : FrameAt(s, j) + o = fp + x
      BY <1>16, <2>1, <3>1
    <3>3. j \in Nat \ {0} /\ q \in Nat \ {0} /\ o \in 0 .. 11 /\ x \in 0 .. 11
      BY <1>4
    <3>4. FrameAt(s, j) + o = FrameAt(s, q) + x
      BY <3>2
    <3>5. j = q
      BY <3>3, <3>4, FramesApart, SMTT(60)
    <3>6. QED
      BY <1>4, <3>5
  <2>2. QED
    BY <1>2, <2>1 DEF Untouched
<1>18. Clean(after, t, fp)
  <2>1. ASSUME NEW o \in 3 .. 11, fp + o \in DOMAIN after
        PROVE  after[fp + o] = Held(t, o)
    <3>1. CASE fp + o \in DOMAIN val
      BY <1>6, <1>14, <3>1
    <3>2. CASE fp + o \notin DOMAIN val
      <4>1. PICK x \in 2 .. 11 : fp + o = fp + x /\ (x \in 3 .. 11 => after[fp + o] = Held(t, x))
        BY <1>16, <2>1, <3>2
      <4>2. x = o
        BY <1>4, <4>1
      <4>3. QED
        BY <4>1, <4>2
    <3>3. QED
      BY <3>1, <3>2
  <2>2. QED
    BY <1>2, <2>1 DEF Clean
<1>19. touched.mem.val = after
  BY <1>1
<1>20. QED
  BY <1>13, <1>15, <1>17, <1>18, <1>19 DEF touched

-----------------------------------------------------------------------------
(***************************************************************************)
(* The inductive invariant.                                                *)
(***************************************************************************)

\* The current cycle is where it was entered.
Rest == left = 0 /\ pc = cycle.pc /\ fp = cycle.frame

\* Cycle q has run, or q is under way, after a traversals and o dummies of the next.
AfterCycle(plan, q) == Rest /\ RowsAfter(counts, halted.counts, plan, q)
InCycle(plan, q, a, o) ==
    /\ q > 0 /\ a < TurnsAt(plan, q) /\ o <= SizeAt(plan, q)
    /\ cycle = [pc |-> PcAt(plan, q), frame |-> FrameAt(halted.len, q)]
    /\ pc = PcAt(plan, q) + o /\ fp = FrameAt(halted.len, q)
    /\ left = RowsOf(TurnsAt(plan, q) - a, SizeAt(plan, q)) - o
    /\ Clean(mem.val, TableAt(plan, q), fp)
    /\ RowsWithin(counts, halted.counts, plan, q, a, o)

\* A fill is somewhere along the plan; at its end the plan has been run.
Filling(plan) ==
    /\ plan # None
    /\ Prepared(mem, plan, halted.len)
    /\ \E q \in 0 .. Frames(plan) :
          /\ Ahead(runs, plan, halted.len, q)
          /\ Untouched(mem.val, plan, halted.len, q)
          /\ AfterCycle(plan, q) \/ \E a, o \in Nat : InCycle(plan, q, a, o)
Ended(plan) ==
    /\ plan # None
    /\ counts = Filled(halted.counts, plan)
    /\ mem.len = halted.len + Frames(plan) * CELLS

\* The plan of the fill: it was found when the chain halted.
PlanOf == Plan(halted.counts, halted.len)

\* The inductive invariant.
FillInv ==
    /\ stage \in {"chain", "fill", "done", "failed"}
    /\ blocks \in {Emitted, <<>>}
    /\ steps \in 0 .. MaxSteps
    /\ halted \in [counts : [Tables -> Nat], len : Nat] /\ halted.len >= 2
    /\ counts \in [Tables -> Nat]
    /\ stage = "chain" => Rest /\ runs = <<>> /\ mem.len = halted.len /\ mem.val = [a \in {0, 1} |-> Pi]
    /\ stage = "fill" => IF blocks = <<>> THEN Rest /\ runs = <<>> ELSE Filling(PlanOf)
    /\ stage = "done" => Rest /\ (blocks # <<>> => Ended(PlanOf))
    /\ stage = "failed" => Rest \/ (left > 0 /\ steps = MaxSteps)

\* The rows left in a cycle.
LEMMA LeftIs ==
    ASSUME NEW n \in Nat \ {0}, NEW z \in Nat \ {0}, NEW a \in 0 .. n - 1, NEW o \in 0 .. z
    PROVE  /\ RowsOf(n - a, z) - o \in Nat \ {0}
           /\ (RowsOf(n - a, z) - o) - 1 = RowsOf(n - a, z) - (o + 1)
           /\ o = z => (RowsOf(n - a, z) - o) - 1 = RowsOf(n - (a + 1), z) - 0
           /\ o = z /\ a + 1 = n => (RowsOf(n - a, z) - o) - 1 = 0
<1> DEFINE p == (n - a) * (z + 1)
           r == (n - (a + 1)) * (z + 1)
<1>1. \A x \in Nat, y \in Nat : x * y \in Nat /\ (x + 1) * y = x * y + y /\ 0 * y = 0
  BY Z3
<1>2. n - (a + 1) \in Nat /\ z + 1 \in Nat /\ n - a = (n - (a + 1)) + 1
  OBVIOUS
<1>3. r \in Nat /\ ((n - (a + 1)) + 1) * (z + 1) = r + (z + 1)
  BY <1>1, <1>2
<1>4. p = r + (z + 1)
  BY <1>2, <1>3
<1>5. a + 1 = n => r = 0
  <2>1. a + 1 = n => n - (a + 1) = 0
    OBVIOUS
  <2>2. QED
    BY <1>1, <1>2, <2>1
<1>6. RowsOf(n - a, z) = p /\ RowsOf(n - (a + 1), z) = r
  BY DEF RowsOf
<1> HIDE DEF p, r
<1>7. p - o \in Nat \ {0} /\ (p - o) - 1 = p - (o + 1) /\ (o = z => (p - o) - 1 = r - 0)
  BY <1>3, <1>4
<1>8. QED
  BY <1>3, <1>5, <1>6, <1>7

\* What the invariant says while a fill runs blocks.
LEMMA FillingIs ==
    ASSUME FillInv, stage = "fill", blocks # <<>>
    PROVE  /\ blocks = Emitted /\ Filling(PlanOf)
           /\ PlanOf \in Plans /\ CyclesAddUp(PlanOf)
           /\ halted.counts \in [Tables -> Nat] /\ halted.len \in Nat /\ halted.len >= 2
<1>1. blocks = Emitted /\ Filling(PlanOf)
      /\ halted.counts \in [Tables -> Nat] /\ halted.len \in Nat /\ halted.len >= 2
  BY DEF FillInv
<1>2. PlanOf # None
  BY <1>1 DEF Filling
<1> DEFINE base == halted.counts
           s == halted.len
<1>3. base \in [Tables -> Nat] /\ s \in Nat /\ Plan(base, s) # None
  BY <1>1, <1>2 DEF PlanOf
<1> HIDE DEF base, s
<1>4. Planned(base, s, Plan(base, s))
  BY <1>3, PlanIs
<1>5. Plan(base, s) \in Plans
  BY <1>4 DEF Planned, Solved
<1>6. PlanOf \in Plans
  BY <1>5 DEF PlanOf, base, s
<1>7. QED
  BY <1>1, <1>6, CyclesAddUpIs

\* In a cycle, rows are left.
LEMMA InCycleIs ==
    ASSUME NEW plan, CyclesAddUp(plan), NEW q \in 0 .. Frames(plan), NEW a \in Nat, NEW o \in Nat,
           InCycle(plan, q, a, o)
    PROVE  /\ q \in 1 .. Frames(plan)
           /\ TurnsAt(plan, q) \in Nat \ {0} /\ SizeAt(plan, q) \in Nat \ {0}
           /\ a \in 0 .. TurnsAt(plan, q) - 1 /\ o \in 0 .. SizeAt(plan, q)
           /\ left = RowsOf(TurnsAt(plan, q) - a, SizeAt(plan, q)) - o
           /\ left \in Nat \ {0}
<1>1. Frames(plan) \in Nat
  BY DEF CyclesAddUp
<1>2. q \in 1 .. Frames(plan) /\ a < TurnsAt(plan, q) /\ o <= SizeAt(plan, q)
      /\ left = RowsOf(TurnsAt(plan, q) - a, SizeAt(plan, q)) - o
  BY <1>1 DEF InCycle
<1>3. TurnsAt(plan, q) \in Nat \ {0} /\ SizeAt(plan, q) \in Nat \ {0}
  BY <1>2 DEF CyclesAddUp
<1>4. a \in 0 .. TurnsAt(plan, q) - 1 /\ o \in 0 .. SizeAt(plan, q)
  BY <1>2, <1>3
<1>5. RowsOf(TurnsAt(plan, q) - a, SizeAt(plan, q)) - o \in Nat \ {0}
  BY <1>3, <1>4, LeftIs
<1>6. QED
  BY <1>2, <1>3, <1>4, <1>5

\* The chain starts in it.
LEMMA InitIs == Init => FillInv
<1> SUFFICES ASSUME Init PROVE FillInv
  OBVIOUS
<1>1. MaxSteps \in Nat /\ MaxMain \in Nat
  BY FillAssumption
<1>2. PICK n \in 2 .. MaxMain :
        /\ mem = [len |-> n, val |-> [a \in {0, 1} |-> Pi]]
        /\ halted = [counts |-> [t \in Tables |-> 0], len |-> n]
  BY DEF Init
<1>3. halted \in [counts : [Tables -> Nat], len : Nat] /\ halted.len = n /\ n >= 2
  BY <1>2
<1>4. mem.len = n /\ mem.val = [a \in {0, 1} |-> Pi]
  BY <1>2
<1>5. stage = "chain" /\ counts = [t \in Tables |-> 0] /\ steps = 0 /\ left = 0 /\ pc = 0 /\ fp = 0
      /\ blocks \in {Emitted, <<>>} /\ runs = <<>> /\ cycle = [pc |-> 0, frame |-> 0]
  BY DEF Init
<1>6. Rest
  BY <1>5 DEF Rest
<1>7. counts \in [Tables -> Nat] /\ steps \in 0 .. MaxSteps
  BY <1>1, <1>5
<1>8. QED
  BY <1>3, <1>4, <1>5, <1>6, <1>7 DEF FillInv

\* The fill was started, or not.
LEMMA HaltKeeps == FillInv /\ Halt => FillInv'
<1> SUFFICES ASSUME FillInv, Halt PROVE FillInv'
  OBVIOUS
<1>1. /\ blocks \in {Emitted, <<>>}
      /\ halted \in [counts : [Tables -> Nat], len : Nat] /\ halted.len \in Nat /\ halted.len >= 2
      /\ Rest /\ runs = <<>> /\ mem.len = halted.len /\ mem.val = [a \in {0, 1} |-> Pi]
  BY DEF FillInv, Halt
<1>2. PICK base \in [Tables -> 0 .. MaxBase] :
        /\ Total(base) <= MaxSteps
        /\ counts' = base /\ steps' = Total(base)
        /\ halted' = [halted EXCEPT !.counts = base]
        /\ \/ stage' = "failed" /\ UNCHANGED <<mem, runs>>
           \/ blocks = <<>> /\ stage' = "fill" /\ UNCHANGED <<mem, runs>>
           \/ /\ blocks # <<>>
              /\ \E plan \in {Plan(base, FirstFrame(mem.len))} :
                    IF plan = None THEN stage' = "failed" /\ UNCHANGED <<mem, runs>>
                    ELSE \E cs \in {Cycles(blocks, plan)} : StartFill(cs, FirstFrame(mem.len))
  BY DEF Halt
<1>3. UNCHANGED <<blocks, cycle, left, pc, fp>>
  BY DEF Halt
<1>4. base \in [Tables -> Nat] /\ MaxSteps \in Nat
  BY FillAssumption
<1>5. Total(base) \in Nat
  <2>1. 6 \in Nat /\ base \in [1 .. 6 -> Nat]
    BY <1>4 DEF Tables
  <2>2. IsSum(Partial(base), 6, base) /\ Total(base) = Partial(base)[6]
    BY <2>1, PartialIs
  <2>3. 6 \in 0 .. 6
    OBVIOUS
  <2>4. QED
    BY <2>2, <2>3 DEF IsSum
<1>6. halted'.counts = base /\ halted'.len = halted.len
      /\ halted' \in [counts : [Tables -> Nat], len : Nat]
  BY <1>1, <1>2, <1>4
<1>7. Rest'
  BY <1>1, <1>3 DEF Rest
<1>8. blocks' \in {Emitted, <<>>} /\ steps' \in 0 .. MaxSteps /\ halted'.len >= 2 /\ counts' \in [Tables -> Nat]
  BY <1>1, <1>2, <1>3, <1>4, <1>5, <1>6
<1>9. CASE stage' = "failed"
  BY <1>6, <1>7, <1>8, <1>9 DEF FillInv
<1>10. CASE blocks = <<>> /\ stage' = "fill" /\ UNCHANGED <<mem, runs>>
  <2>1. runs' = <<>> /\ blocks' = <<>>
    BY <1>1, <1>3, <1>10
  <2>2. QED
    BY <1>6, <1>7, <1>8, <1>10, <2>1 DEF FillInv
<1>11. ASSUME blocks # <<>>, NEW plan, plan = Plan(base, FirstFrame(mem.len)), plan # None,
              NEW cs, cs = Cycles(blocks, plan), StartFill(cs, FirstFrame(mem.len))
       PROVE  FillInv'
  <2> DEFINE s == halted.len
  <2>1. FirstFrame(mem.len) = s /\ blocks = Emitted /\ blocks' # <<>>
    BY <1>1, <1>3, <1>11 DEF FirstFrame
  <2>2. plan = Plan(base, s) /\ cs = Cycles(Emitted, plan) /\ StartFill(cs, s)
    BY <1>11, <2>1
  <2>3. s \in Nat /\ s >= 2
    BY <1>1
  <2>4. PlanOf' = plan
    <3>1. Plan(halted'.counts, halted'.len) = plan
      BY <1>6, <2>2
    <3>2. QED
      BY <3>1 DEF PlanOf
  <2> HIDE DEF s
  <2>5. plan \in Plans
    <3>1. Planned(base, s, Plan(base, s))
      BY <1>4, <1>11, <2>2, <2>3, PlanIs
    <3>2. QED
      BY <2>2, <3>1 DEF Planned, Solved
  <2>6. CyclesAddUp(plan)
    BY <2>5, CyclesAddUpIs
  <2> DEFINE v == mem.val
  <2>7. DOMAIN v = {0, 1} /\ v[0] = Pi
    BY <1>1
  <2>8. /\ stage' = "fill"
        /\ mem' = [len |-> s + Len(cs) * CELLS, val |-> Put(v, FrameWords(cs, s))]
        /\ runs' = [i \in DOMAIN cs |-> [pc |-> cs[i].pc, frame |-> FrameAt(s, i),
                                         rows |-> RowsOf(cs[i].n, cs[i].size)]]
    BY <2>2 DEF StartFill
  <2>9. mem'.val = Put(v, FrameWords(cs, s))
    BY <2>8
  <2> HIDE DEF v
  <2>10. /\ Prepared([len |-> s + Len(cs) * CELLS, val |-> Put(v, FrameWords(cs, s))], plan, s)
         /\ Untouched(Put(v, FrameWords(cs, s)), plan, s, 0)
         /\ Ahead([i \in DOMAIN cs |-> [pc |-> cs[i].pc, frame |-> FrameAt(s, i),
                                        rows |-> RowsOf(cs[i].n, cs[i].size)]], plan, s, 0)
    BY <2>2, <2>3, <2>6, <2>7, StartIs
  <2>11. Prepared(mem', plan, s) /\ Untouched(mem'.val, plan, s, 0) /\ Ahead(runs', plan, s, 0)
    BY <2>8, <2>9, <2>10
  <2>12. RowsAfter(counts', halted'.counts, plan, 0)
    BY <1>2, <1>4, <1>6, <2>6, RowsNext
  <2>13. 0 \in 0 .. Frames(plan)
    BY <2>6 DEF CyclesAddUp
  <2>14. halted'.len = s
    BY <1>6 DEF s
  <2>15. Filling(plan)'
    BY <1>7, <1>11, <2>11, <2>12, <2>13, <2>14 DEF Filling, AfterCycle
  <2>16. Filling(PlanOf)'
    BY <2>4, <2>15
  <2>17. QED
    BY <1>6, <1>8, <2>1, <2>8, <2>16 DEF FillInv
<1>12. QED
  BY <1>2, <1>9, <1>10, <1>11

-----------------------------------------------------------------------------
(***************************************************************************)
(* The steps of the fill.                                                  *)
(***************************************************************************)

\* The plan of a fill does not change while it runs.
LEMMA PlanStays ==
    ASSUME UNCHANGED halted
    PROVE  PlanOf' = PlanOf
BY DEF PlanOf

\* The next cycle is entered at its block, in its frame, which is untouched.
LEMMA EnterKeeps == FillInv /\ EnterCycle => FillInv'
<1> SUFFICES ASSUME FillInv, EnterCycle PROVE FillInv'
  OBVIOUS
<1>1. /\ stage = "fill" /\ left = 0 /\ runs # <<>>
      /\ cycle' = [pc |-> Head(runs).pc, frame |-> Head(runs).frame]
      /\ pc' = cycle'.pc /\ fp' = cycle'.frame
      /\ left' = Head(runs).rows
      /\ runs' = Tail(runs)
      /\ UNCHANGED <<stage, counts, mem, steps, blocks, halted>>
  BY DEF EnterCycle
<1>2. blocks # <<>>
  BY <1>1 DEF FillInv
<1> DEFINE plan == PlanOf
           s == halted.len
<1>3. /\ Filling(plan) /\ plan \in Plans /\ CyclesAddUp(plan)
      /\ halted.counts \in [Tables -> Nat] /\ s \in Nat
  BY <1>1, <1>2, FillingIs
<1>4. plan' = plan
  BY <1>1, PlanStays
<1>5. PICK q \in 0 .. Frames(plan) :
        /\ Ahead(runs, plan, s, q)
        /\ Untouched(mem.val, plan, s, q)
        /\ AfterCycle(plan, q) \/ \E a, o \in Nat : InCycle(plan, q, a, o)
  BY <1>3 DEF Filling
<1>6. plan # None /\ Prepared(mem, plan, s) /\ counts \in [Tables -> Nat]
  BY <1>3 DEF Filling, FillInv
<1> HIDE DEF plan, s
<1>7. AfterCycle(plan, q)
  <2>1. ~\E a, o \in Nat : InCycle(plan, q, a, o)
    BY <1>1, <1>3, InCycleIs
  <2>2. QED
    BY <1>5, <2>1
<1> DEFINE r == q + 1
<1>8. Head(runs) = RunAt(plan, s, r) /\ Ahead(Tail(runs), plan, s, r) /\ q # Frames(plan)
  BY <1>1, <1>3, <1>5, NextIs
<1>9. /\ Frames(plan) \in Nat /\ q \in 0 .. Frames(plan) - 1 /\ r \in 1 .. Frames(plan) /\ r \in 0 .. Frames(plan)
      /\ r > 0 /\ q \in Nat
  <2>1. Frames(plan) \in Nat
    BY <1>3 DEF CyclesAddUp
  <2>2. QED
    BY <1>8, <2>1
<1>10. /\ PcAt(plan, r) \in Nat /\ SizeAt(plan, r) \in Nat \ {0} /\ TurnsAt(plan, r) \in Nat \ {0}
  BY <1>3, <1>9 DEF CyclesAddUp
<1>11. RowsWithin(counts, halted.counts, plan, r, 0, 0)
  <2>1. RowsAfter(counts, halted.counts, plan, q)
    BY <1>7 DEF AfterCycle
  <2>2. QED
    BY <1>3, <1>6, <1>9, <2>1, RowsNext
<1>12. Untouched(mem.val, plan, s, r) /\ Clean(mem.val, TableAt(plan, r), FrameAt(s, r))
  <2>1. \A j \in q + 1 .. Frames(plan), o \in ZERO .. CELLS - 1 : FrameAt(s, j) + o \notin DOMAIN mem.val
    BY <1>5 DEF Untouched
  <2>2. \A j \in r + 1 .. Frames(plan) : j \in q + 1 .. Frames(plan)
    BY <1>9
  <2>3. r \in q + 1 .. Frames(plan)
    BY <1>9
  <2> HIDE DEF r
  <2>4. \A j \in r + 1 .. Frames(plan), o \in ZERO .. CELLS - 1 : FrameAt(s, j) + o \notin DOMAIN mem.val
    BY <2>1, <2>2
  <2>5. \A o \in ZERO .. CELLS - 1 : FrameAt(s, r) + o \notin DOMAIN mem.val
    BY <2>1, <2>3
  <2>6. QED
    BY <2>4, <2>5 DEF Untouched, Clean
<1> HIDE DEF r
<1>13. /\ Head(runs).pc = PcAt(plan, r) /\ Head(runs).frame = FrameAt(s, r)
       /\ Head(runs).rows = RowsOf(TurnsAt(plan, r), SizeAt(plan, r))
  <2> DEFINE x == PcAt(plan, r)
             y == FrameAt(s, r)
             z == RowsOf(TurnsAt(plan, r), SizeAt(plan, r))
  <2>1. Head(runs) = [pc |-> x, frame |-> y, rows |-> z]
    BY <1>8 DEF RunAt
  <2> HIDE DEF x, y, z
  <2>2. Head(runs).pc = x /\ Head(runs).frame = y /\ Head(runs).rows = z
    BY <2>1
  <2>3. QED
    BY <2>2 DEF x, y, z
<1>14. /\ cycle' = [pc |-> PcAt(plan, r), frame |-> FrameAt(s, r)]
       /\ pc' = PcAt(plan, r) /\ fp' = FrameAt(s, r)
  <2> DEFINE x == PcAt(plan, r)
             y == FrameAt(s, r)
  <2>1. cycle' = [pc |-> x, frame |-> y]
    BY <1>1, <1>13
  <2> HIDE DEF x, y
  <2>2. cycle'.pc = x /\ cycle'.frame = y
    BY <2>1
  <2>3. QED
    BY <1>1, <2>1, <2>2 DEF x, y
<1>15. left' = RowsOf(TurnsAt(plan, r) - 0, SizeAt(plan, r)) - 0
  <2>1. TurnsAt(plan, r) - 0 = TurnsAt(plan, r)
    BY <1>10
  <2>2. RowsOf(TurnsAt(plan, r), SizeAt(plan, r)) \in Nat
    <3>1. \A x, y \in Nat : x * (y + 1) \in Nat
      OBVIOUS
    <3>2. QED
      BY <1>10, <3>1 DEF RowsOf
  <2> DEFINE z == RowsOf(TurnsAt(plan, r), SizeAt(plan, r))
  <2>3. left' = z /\ z \in Nat
    BY <1>1, <1>13, <2>2
  <2> HIDE DEF z
  <2>4. left' = z - 0
    BY <2>3
  <2>5. QED
    BY <2>1, <2>4 DEF z
<1>16. halted' = halted /\ mem' = mem /\ counts' = counts /\ runs' = Tail(runs) /\ halted'.len = s
  BY <1>1 DEF s
<1>17. pc' = PcAt(plan, r) + 0 /\ 0 < TurnsAt(plan, r) /\ 0 <= SizeAt(plan, r)
  BY <1>10, <1>14
<1>18. InCycle(plan, r, 0, 0)'
  <2>1. /\ r > 0 /\ 0 < TurnsAt(plan, r) /\ 0 <= SizeAt(plan, r)
        /\ cycle' = [pc |-> PcAt(plan, r), frame |-> FrameAt(halted'.len, r)]
        /\ pc' = PcAt(plan, r) + 0 /\ fp' = FrameAt(halted'.len, r)
        /\ left' = RowsOf(TurnsAt(plan, r) - 0, SizeAt(plan, r)) - 0
        /\ Clean(mem'.val, TableAt(plan, r), fp')
        /\ RowsWithin(counts', halted'.counts, plan, r, 0, 0)
    BY <1>9, <1>11, <1>12, <1>14, <1>15, <1>16, <1>17
  <2>2. QED
    BY <1>4, <2>1 DEF InCycle
<1>19. Filling(plan)'
  <2>1. /\ plan # None /\ Prepared(mem', plan, halted'.len)
        /\ Ahead(runs', plan, halted'.len, r) /\ Untouched(mem'.val, plan, halted'.len, r)
    BY <1>6, <1>8, <1>12, <1>16
  <2>2. 0 \in Nat
    OBVIOUS
  <2>3. QED
    BY <1>4, <1>9, <1>18, <2>1, <2>2 DEF Filling
<1>20. QED
  BY <1>1, <1>2, <1>19 DEF FillInv, plan

\* No cycle is left: the plan has been run.
LEMMA FinishKeeps == FillInv /\ Finish => FillInv'
<1> SUFFICES ASSUME FillInv, Finish PROVE FillInv'
  OBVIOUS
<1>1. /\ stage = "fill" /\ left = 0 /\ runs = <<>> /\ stage' = "done"
      /\ UNCHANGED <<counts, mem, steps, blocks, runs, cycle, left, pc, fp, halted>>
  BY DEF Finish
<1>2. CASE blocks = <<>>
  <2>1. Rest
    BY <1>1, <1>2 DEF FillInv
  <2>2. Rest'
    BY <1>1, <2>1 DEF Rest
  <2>3. QED
    BY <1>1, <1>2, <2>2 DEF FillInv
<1>3. CASE blocks # <<>>
  <2> DEFINE plan == PlanOf
  <2>1. /\ Filling(plan) /\ plan \in Plans /\ CyclesAddUp(plan)
        /\ halted.counts \in [Tables -> Nat] /\ halted.len \in Nat
    BY <1>1, <1>3, FillingIs
  <2>2. plan' = plan
    BY <1>1, PlanStays
  <2>3. PICK q \in 0 .. Frames(plan) :
          /\ Ahead(runs, plan, halted.len, q)
          /\ AfterCycle(plan, q) \/ \E a, o \in Nat : InCycle(plan, q, a, o)
    BY <2>1 DEF Filling
  <2>4. plan # None /\ mem.len = halted.len + Frames(plan) * CELLS /\ counts \in [Tables -> Nat]
    BY <2>1 DEF Filling, FillInv, Prepared
  <2> HIDE DEF plan
  <2>5. AfterCycle(plan, q)
    <3>1. ~\E a, o \in Nat : InCycle(plan, q, a, o)
      BY <1>1, <2>1, InCycleIs
    <3>2. QED
      BY <2>3, <3>1
  <2>6. q = Frames(plan)
    BY <1>1, <2>1, <2>3, NextIs
  <2>7. Rest /\ RowsAfter(counts, halted.counts, plan, Frames(plan))
    BY <2>5, <2>6 DEF AfterCycle
  <2>8. counts = Filled(halted.counts, plan)
    BY <2>1, <2>4, <2>7, RowsNext
  <2>9. Ended(plan)
    BY <2>4, <2>8 DEF Ended
  <2>10. Rest' /\ Ended(plan)'
    <3>1. Rest'
      BY <1>1, <2>7 DEF Rest
    <3>2. Ended(plan)'
      BY <1>1, <2>2, <2>9 DEF Ended
    <3>3. QED
      BY <3>1, <3>2
  <2>11. QED
    BY <1>1, <2>10 DEF FillInv, plan
<1>4. QED
  BY <1>2, <1>3

\* A row of a fill is a row of the cycle under way.
LEMMA RowIs ==
    ASSUME FillInv, stage = "fill", left > 0
    PROVE  /\ blocks = Emitted /\ blocks # <<>>
           /\ \E q \in 1 .. Frames(PlanOf), a, o \in Nat :
                 /\ Ahead(runs, PlanOf, halted.len, q)
                 /\ Untouched(mem.val, PlanOf, halted.len, q)
                 /\ InCycle(PlanOf, q, a, o)
<1>1. blocks # <<>>
  BY DEF FillInv, Rest
<1>2. blocks = Emitted /\ Filling(PlanOf) /\ CyclesAddUp(PlanOf)
  BY <1>1, FillingIs
<1>3. PICK q \in 0 .. Frames(PlanOf) :
        /\ Ahead(runs, PlanOf, halted.len, q)
        /\ Untouched(mem.val, PlanOf, halted.len, q)
        /\ AfterCycle(PlanOf, q) \/ \E a, o \in Nat : InCycle(PlanOf, q, a, o)
  BY <1>2 DEF Filling
<1>4. ~AfterCycle(PlanOf, q)
  BY DEF AfterCycle, Rest
<1>5. PICK a \in Nat, o \in Nat : InCycle(PlanOf, q, a, o)
  BY <1>3, <1>4
<1>6. q \in 1 .. Frames(PlanOf)
  BY <1>2, <1>5, InCycleIs
<1>7. QED
  BY <1>1, <1>2, <1>3, <1>5, <1>6

\* A dummy row: the frame keeps what its dummies leave.
LEMMA DummyKeeps == FillInv /\ Dummy => FillInv'
<1> SUFFICES ASSUME FillInv, Dummy PROVE FillInv'
  OBVIOUS
<1>1. stage = "fill" /\ left > 0 /\ ~Closes(pc)
  BY DEF Dummy
<1> DEFINE plan == PlanOf
           s == halted.len
<1>2. /\ blocks = Emitted /\ blocks # <<>> /\ Filling(plan) /\ plan \in Plans /\ CyclesAddUp(plan)
      /\ halted.counts \in [Tables -> Nat] /\ s \in Nat
  BY <1>1, RowIs, FillingIs
<1>3. PICK q \in 1 .. Frames(plan), a \in Nat, o \in Nat :
        /\ Ahead(runs, plan, s, q)
        /\ Untouched(mem.val, plan, s, q)
        /\ InCycle(plan, q, a, o)
  BY <1>1, RowIs
<1>4. plan # None /\ Prepared(mem, plan, s) /\ counts \in [Tables -> Nat] /\ steps \in 0 .. MaxSteps
  BY <1>2 DEF Filling, FillInv
<1>5. MaxSteps \in Nat
  BY FillAssumption
<1> DEFINE t == BlockAt(pc).table
           u == TableAt(plan, q)
           n == TurnsAt(plan, q)
           z == SizeAt(plan, q)
           touched == Touched(ReadBy(t), WrittenBy(t))
<1>6. \/ Fail /\ (steps >= MaxSteps \/ touched.conflict)
      \/ /\ ~(steps >= MaxSteps)
         /\ mem' = touched.mem
         /\ counts' = [counts EXCEPT ![t] = @ + 1]
         /\ steps' = steps + 1 /\ left' = left - 1
         /\ pc' = pc + 1
         /\ UNCHANGED <<stage, blocks, runs, cycle, fp, halted>>
  BY DEF Dummy
<1> HIDE DEF touched, t, s
<1>7. /\ cycle = [pc |-> PcAt(plan, q), frame |-> FrameAt(s, q)]
      /\ pc = PcAt(plan, q) + o /\ fp = FrameAt(s, q)
      /\ left = RowsOf(n - a, z) - o
      /\ Clean(mem.val, u, fp)
      /\ RowsWithin(counts, halted.counts, plan, q, a, o)
  BY <1>3 DEF InCycle, s
<1>8. q \in 0 .. Frames(plan) /\ Frames(plan) \in Nat
  BY <1>2 DEF CyclesAddUp
<1>9. n \in Nat \ {0} /\ z \in Nat \ {0} /\ a \in 0 .. n - 1 /\ o \in 0 .. z
  BY <1>2, <1>3, <1>8, InCycleIs
<1>10. t = u /\ o # z /\ u \in Tables /\ PcAt(plan, q) \in Nat
  <2> DEFINE k == KindAt(plan, q)
  <2>1. k \in Kinds /\ u \in Tables /\ PcAt(plan, q) \in Nat
    BY <1>2 DEF CyclesAddUp
  <2>2. PcAt(plan, q) = Emitted[k].pc /\ z = SizeOf(k) /\ u = TableOf(k)
    BY DEF PcAt, SizeAt, TableAt
  <2>3. pc = Emitted[k].pc + o /\ o \in 0 .. SizeOf(k)
    BY <1>7, <1>9, <2>2
  <2> HIDE DEF k
  <2>4. BlockAt(pc) = Emitted[k] /\ (Closes(pc) <=> o = SizeOf(k))
    BY <1>2, <2>1, <2>3, BlockAtIs
  <2>5. Emitted[k].table = TableOf(k)
    BY <2>1, EmittedIs DEF Laid
  <2>6. QED
    BY <1>1, <2>1, <2>2, <2>4, <2>5 DEF t
<1> HIDE DEF plan
<1>11. /\ 0 \in DOMAIN mem.val /\ mem.val[0] = Pi
       /\ fp + PTR \in DOMAIN mem.val /\ mem.val[fp + PTR] = G(0)
  BY <1>4, <1>7 DEF Prepared
<1>12. Harmless(u, ReadBy(u), WrittenBy(u))
  BY <1>7, <1>10, <1>11, DummyIs
<1>13. /\ ~touched.conflict
       /\ Prepared(touched.mem, plan, s)
       /\ Untouched(touched.mem.val, plan, s, q)
       /\ Clean(touched.mem.val, u, fp)
  <2> DEFINE reads == ReadBy(u)
             writes == WrittenBy(u)
  <2>1. Harmless(u, reads, writes) /\ touched = Touched(reads, writes)
    BY <1>10, <1>12 DEF touched
  <2> HIDE DEF reads, writes, u
  <2>2. s \in Nat
    BY <1>2
  <2>3. QED
    BY <1>3, <1>4, <1>7, <1>8, <2>1, <2>2, FramesKept
<1>14. CASE Fail
  <2>1. steps = MaxSteps
    BY <1>4, <1>5, <1>6, <1>13, <1>14 DEF Fail
  <2>2. QED
    BY <1>1, <1>14, <2>1 DEF Fail, FillInv
<1>15. CASE ~Fail
  <2>1. /\ steps < MaxSteps /\ mem' = touched.mem
        /\ counts' = [counts EXCEPT ![u] = @ + 1]
        /\ steps' = steps + 1 /\ left' = left - 1
        /\ pc' = pc + 1
        /\ UNCHANGED <<stage, blocks, runs, cycle, fp, halted>>
    BY <1>4, <1>5, <1>6, <1>10, <1>15
  <2>2. plan' = plan /\ halted' = halted /\ runs' = runs /\ cycle' = cycle /\ fp' = fp
    BY <2>1, PlanStays DEF plan
  <2>3. o + 1 \in Nat /\ o + 1 <= z /\ a < n /\ q > 0
    BY <1>8, <1>9, <1>10
  <2>4. pc' = PcAt(plan, q) + (o + 1)
    BY <1>7, <1>9, <1>10, <2>1
  <2>5. left' = RowsOf(n - a, z) - (o + 1)
    BY <1>7, <1>9, <2>1, LeftIs
  <2>6. RowsWithin(counts', halted.counts, plan, q, a, o + 1)
    BY <1>2, <1>3, <1>4, <1>7, <2>1, RowsStep
  <2>7. Prepared(mem', plan, s) /\ Untouched(mem'.val, plan, s, q) /\ Clean(mem'.val, u, fp)
    BY <1>13, <2>1
  <2>8. halted'.len = s /\ halted'.counts = halted.counts
    BY <2>2 DEF s
  <2>9. InCycle(plan, q, a, o + 1)'
    BY <1>7, <2>2, <2>3, <2>4, <2>5, <2>6, <2>7, <2>8 DEF InCycle
  <2>10. Filling(plan)'
    BY <1>3, <1>4, <1>8, <2>2, <2>3, <2>7, <2>8, <2>9 DEF Filling
  <2>11. counts' \in [Tables -> Nat] /\ steps' \in 0 .. MaxSteps
    BY <1>4, <1>5, <1>10, <2>1
  <2>12. QED
    BY <1>1, <1>2, <2>1, <2>10, <2>11 DEF FillInv, plan
<1>16. QED
  BY <1>14, <1>15

\* The closing jump: back to the first row of the block, in the same frame.
LEMMA CloseKeeps == FillInv /\ Close => FillInv'
<1> SUFFICES ASSUME FillInv, Close PROVE FillInv'
  OBVIOUS
<1>1. stage = "fill" /\ left > 0 /\ Closes(pc)
  BY DEF Close
<1> DEFINE plan == PlanOf
           s == halted.len
<1>2. /\ blocks = Emitted /\ blocks # <<>> /\ Filling(plan) /\ plan \in Plans /\ CyclesAddUp(plan)
      /\ halted.counts \in [Tables -> Nat] /\ s \in Nat
  BY <1>1, RowIs, FillingIs
<1>3. PICK q \in 1 .. Frames(plan), a \in Nat, o \in Nat :
        /\ Ahead(runs, plan, s, q)
        /\ Untouched(mem.val, plan, s, q)
        /\ InCycle(plan, q, a, o)
  BY <1>1, RowIs
<1>4. plan # None /\ Prepared(mem, plan, s) /\ counts \in [Tables -> Nat] /\ steps \in 0 .. MaxSteps
  BY <1>2 DEF Filling, FillInv
<1>5. MaxSteps \in Nat /\ JUMP \in Tables
  BY FillAssumption DEF JUMP, Tables
<1> DEFINE u == TableAt(plan, q)
           n == TurnsAt(plan, q)
           z == SizeAt(plan, q)
<1>6. \/ Fail /\ steps >= MaxSteps
      \/ /\ ~(steps >= MaxSteps)
         /\ counts' = [counts EXCEPT ![JUMP] = @ + 1]
         /\ steps' = steps + 1 /\ left' = left - 1
         /\ pc' = At(DEST).g /\ fp' = At(NEXT_FP).g
         /\ UNCHANGED <<stage, mem, blocks, runs, cycle, halted>>
  BY DEF Close
<1> HIDE DEF s
<1>7. /\ cycle = [pc |-> PcAt(plan, q), frame |-> FrameAt(s, q)]
      /\ pc = PcAt(plan, q) + o /\ fp = FrameAt(s, q)
      /\ left = RowsOf(n - a, z) - o
      /\ Clean(mem.val, u, fp)
      /\ RowsWithin(counts, halted.counts, plan, q, a, o)
  BY <1>3 DEF InCycle, s
<1>8. q \in 0 .. Frames(plan) /\ Frames(plan) \in Nat
  BY <1>2 DEF CyclesAddUp
<1>9. n \in Nat \ {0} /\ z \in Nat \ {0} /\ a \in 0 .. n - 1 /\ o \in 0 .. z
  BY <1>2, <1>3, <1>8, InCycleIs
<1>10. o = z /\ PcAt(plan, q) \in Nat
  <2> DEFINE k == KindAt(plan, q)
  <2>1. k \in Kinds /\ PcAt(plan, q) \in Nat
    BY <1>2 DEF CyclesAddUp
  <2>2. PcAt(plan, q) = Emitted[k].pc /\ z = SizeOf(k)
    BY DEF PcAt, SizeAt
  <2>3. pc = Emitted[k].pc + o /\ o \in 0 .. SizeOf(k)
    BY <1>7, <1>9, <2>2
  <2> HIDE DEF k
  <2>4. Closes(pc) <=> o = SizeOf(k)
    BY <1>2, <2>1, <2>3, BlockAtIs
  <2>5. QED
    BY <1>1, <2>1, <2>2, <2>4
<1> HIDE DEF plan
<1>11. At(DEST).g = PcAt(plan, q) /\ At(NEXT_FP).g = FrameAt(s, q)
  <2>1. /\ fp + DEST \in DOMAIN mem.val /\ mem.val[fp + DEST] = G(PcAt(plan, q))
        /\ fp + NEXT_FP \in DOMAIN mem.val /\ mem.val[fp + NEXT_FP] = G(FrameAt(s, q))
    BY <1>4, <1>7 DEF Prepared
  <2>2. At(DEST) = G(PcAt(plan, q)) /\ At(NEXT_FP) = G(FrameAt(s, q))
    BY <2>1 DEF At
  <2>3. \A x : G(x).g = x
    BY DEF G
  <2>4. QED
    BY <2>2, <2>3
<1>12. CASE Fail
  <2>1. steps = MaxSteps
    BY <1>4, <1>5, <1>6, <1>12 DEF Fail
  <2>2. QED
    BY <1>1, <1>12, <2>1 DEF Fail, FillInv
<1>13. CASE ~Fail
  <2>1. /\ steps < MaxSteps
        /\ counts' = [counts EXCEPT ![JUMP] = @ + 1]
        /\ steps' = steps + 1 /\ left' = left - 1
        /\ pc' = PcAt(plan, q) /\ fp' = FrameAt(s, q)
        /\ UNCHANGED <<stage, mem, blocks, runs, cycle, halted>>
    BY <1>4, <1>5, <1>6, <1>11, <1>13
  <2>2. plan' = plan /\ halted' = halted /\ runs' = runs /\ cycle' = cycle /\ mem' = mem /\ fp' = fp
    BY <1>7, <2>1, PlanStays DEF plan
  <2>3. halted'.len = s /\ halted'.counts = halted.counts
    BY <2>2 DEF s
  <2>4. counts' \in [Tables -> Nat] /\ steps' \in 0 .. MaxSteps
    BY <1>4, <1>5, <2>1
  <2>5. /\ RowsWithin(counts', halted.counts, plan, q, a + 1, 0)
        /\ a + 1 = n => RowsAfter(counts', halted.counts, plan, q)
    BY <1>2, <1>3, <1>4, <1>7, <1>10, <2>1, RowsStep
  <2>6. AfterCycle(plan, q)' \/ \E b, e \in Nat : InCycle(plan, q, b, e)'
    <3>1. CASE a + 1 = n
      <4>1. left' = 0
        BY <1>7, <1>9, <1>10, <2>1, <3>1, LeftIs
      <4>2. cycle.pc = PcAt(plan, q) /\ cycle.frame = FrameAt(s, q)
        <5> DEFINE x == PcAt(plan, q)
                   y == FrameAt(s, q)
        <5>1. cycle = [pc |-> x, frame |-> y]
          BY <1>7
        <5> HIDE DEF x, y
        <5>2. cycle.pc = x /\ cycle.frame = y
          BY <5>1
        <5>3. QED
          BY <5>2 DEF x, y
      <4>3. Rest'
        BY <2>1, <2>2, <4>1, <4>2 DEF Rest
      <4>4. AfterCycle(plan, q)'
        BY <2>2, <2>3, <2>5, <3>1, <4>3 DEF AfterCycle
      <4>5. QED
        BY <4>4
    <3>2. CASE a + 1 # n
      <4>1. a + 1 < n /\ a + 1 \in Nat /\ 0 \in Nat /\ 0 <= z /\ q > 0
        BY <1>8, <1>9, <3>2
      <4>2. left' = RowsOf(n - (a + 1), z) - 0
        BY <1>7, <1>9, <1>10, <2>1, LeftIs
      <4>3. pc' = PcAt(plan, q) + 0
        BY <1>10, <2>1
      <4>4. Clean(mem'.val, u, fp')
        BY <1>7, <2>2
      <4>5. InCycle(plan, q, a + 1, 0)'
        BY <1>7, <2>1, <2>2, <2>3, <2>5, <4>1, <4>2, <4>3, <4>4 DEF InCycle
      <4>6. QED
        BY <4>1, <4>5
    <3>3. QED
      BY <3>1, <3>2
  <2>7. Filling(plan)'
    <3>1. /\ plan # None /\ Prepared(mem', plan, halted'.len)
          /\ Ahead(runs', plan, halted'.len, q) /\ Untouched(mem'.val, plan, halted'.len, q)
      BY <1>3, <1>4, <2>2, <2>3
    <3>2. QED
      BY <1>8, <2>2, <2>6, <3>1 DEF Filling
  <2>8. QED
    BY <1>1, <1>2, <2>1, <2>4, <2>7 DEF FillInv, plan
<1>14. QED
  BY <1>12, <1>13

-----------------------------------------------------------------------------
(***************************************************************************)
(* The theorems.                                                           *)
(***************************************************************************)

\* The invariant holds of every state a run reaches.
THEOREM FillInvariant == Spec => []FillInv
<1>1. FillInv /\ [Next]_vars => FillInv'
  <2> SUFFICES ASSUME FillInv, [Next]_vars PROVE FillInv'
    OBVIOUS
  <2>1. CASE Halt
    BY <2>1, HaltKeeps
  <2>2. CASE EnterCycle
    BY <2>2, EnterKeeps
  <2>3. CASE Finish
    BY <2>3, FinishKeeps
  <2>4. CASE Dummy
    BY <2>4, DummyKeeps
  <2>5. CASE Close
    BY <2>5, CloseKeeps
  <2>6. CASE UNCHANGED vars
    <3>1. UNCHANGED <<stage, counts, mem, steps, blocks, runs, cycle, left, pc, fp, halted>>
      BY <2>6 DEF vars
    <3>2. PlanOf' = PlanOf
      BY <3>1, PlanStays
    <3>3. Rest' <=> Rest
      BY <3>1 DEF Rest
    <3> DEFINE p == PlanOf
    <3>4. p' = p
      BY <3>2
    <3> HIDE DEF p
    <3>5. Filling(p)' <=> Filling(p)
      BY <3>1, <3>4 DEF Filling, AfterCycle, InCycle, Rest
    <3>6. Ended(p)' <=> Ended(p)
      BY <3>1, <3>4 DEF Ended
    <3>7. QED
      BY <3>1, <3>3, <3>5, <3>6 DEF FillInv, p
  <2>7. QED
    BY <2>1, <2>2, <2>3, <2>4, <2>5, <2>6 DEF Next
<1>2. QED
  BY InitIs, <1>1, PTL DEF Spec

\* A cycle is left where it was entered, in the same frame: so the state tuples that
\* the fill pushes are the ones it pulls (filler.rs).
THEOREM EveryCycleCloses == Spec => []CyclesClose
<1>1. FillInv => CyclesClose
  <2> SUFFICES ASSUME FillInv, left = 0 PROVE pc = cycle.pc /\ fp = cycle.frame
    BY DEF CyclesClose
  <2>1. CASE stage = "fill" /\ blocks # <<>>
    <3>1. Filling(PlanOf) /\ CyclesAddUp(PlanOf)
      BY <2>1, FillingIs
    <3>2. PICK q \in 0 .. Frames(PlanOf) : AfterCycle(PlanOf, q) \/ \E a, o \in Nat : InCycle(PlanOf, q, a, o)
      BY <3>1 DEF Filling
    <3>3. ~\E a, o \in Nat : InCycle(PlanOf, q, a, o)
      BY <3>1, InCycleIs
    <3>4. QED
      BY <3>2, <3>3 DEF AfterCycle, Rest
  <2>2. CASE ~(stage = "fill" /\ blocks # <<>>)
    <3>1. Rest \/ left > 0
      BY <2>2 DEF FillInv
    <3>2. QED
      BY <3>1 DEF Rest
  <2>3. QED
    BY <2>1, <2>2
<1>2. QED
  BY FillInvariant, <1>1, PTL

\* No dummy writes a second value, however often its block is run in one frame: a fill
\* fails at the step limit only (filler.rs, execute.rs).
THEOREM DummiesNeverConflict == Spec => []DummiesRepeat
<1>1. FillInv => DummiesRepeat
  BY DEF FillInv, DummiesRepeat, Rest
<1>2. QED
  BY FillInvariant, <1>1, PTL

\* At the end of a fill the plan that was found has been run.
LEMMA EndedIs ==
    ASSUME FillInv, stage = "done", blocks # <<>>
    PROVE  /\ counts = Filled(halted.counts, PlanOf)
           /\ mem.len = halted.len + Frames(PlanOf) * CELLS
           /\ Planned(halted.counts, halted.len, PlanOf)
<1>1. Ended(PlanOf) /\ halted.counts \in [Tables -> Nat] /\ halted.len \in Nat
  BY DEF FillInv
<1>2. /\ counts = Filled(halted.counts, PlanOf)
      /\ mem.len = halted.len + Frames(PlanOf) * CELLS
      /\ Plan(halted.counts, halted.len) # None
  BY <1>1 DEF Ended, PlanOf
<1> DEFINE base == halted.counts
           s == halted.len
<1>3. base \in [Tables -> Nat] /\ s \in Nat /\ Plan(base, s) # None
  BY <1>1, <1>2
<1> HIDE DEF base, s
<1>4. Planned(base, s, Plan(base, s))
  BY <1>3, PlanIs
<1>5. QED
  BY <1>2, <1>4 DEF base, s, PlanOf

\* is_filled holds of the rows that were run: every table ends at a power of two, at
\* or above its floor, and no higher than it has to be (filler.rs).
THEOREM TablesEndFilled == Spec => []EndsFilled
<1>1. FillInv => EndsFilled
  <2> SUFFICES ASSUME FillInv, stage = "done", blocks # <<>>, NEW t \in Tables
               PROVE  /\ counts[t] >= halted.counts[t] /\ counts[t] >= MinRows[t]
                      /\ counts[t] = CeilPow2(counts[t])
                      /\ t \notin {JUMP, PAD_TABLE} =>
                            counts[t] < 2 * Larger(halted.counts[t], MinRows[t])
    BY DEF EndsFilled
  <2>1. counts = Filled(halted.counts, PlanOf) /\ \E floor \in Nat : Solved(halted.counts, floor, PlanOf)
    BY EndedIs DEF Planned
  <2> HIDE DEF PlanOf
  <2>2. QED
    BY <2>1 DEF Solved
<1>2. QED
  BY FillInvariant, <1>1, PTL

\* The witness a fill leaves is as large as its plan was solved for: at least what the
\* program asks for (execute.rs, filler.rs).
THEOREM WitnessIsLargeEnough == Spec => []WitnessReaches
<1>1. FillInv => WitnessReaches
  <2> SUFFICES ASSUME FillInv, stage = "done", blocks # <<>>
               PROVE  CommittedLog(mem.len, counts) >= MinLog
    BY DEF WitnessReaches
  <2>1. /\ counts = Filled(halted.counts, PlanOf)
        /\ mem.len = halted.len + Frames(PlanOf) * CELLS
        /\ CommittedLog(halted.len + Frames(PlanOf) * CELLS, Filled(halted.counts, PlanOf)) >= MinLog
    BY EndedIs DEF Planned
  <2>2. QED
    BY <2>1
<1>2. QED
  BY FillInvariant, <1>1, PTL

=============================================================================
