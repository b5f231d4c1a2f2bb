-------------------------- MODULE SharedWorkProofs --------------------------
(***************************************************************************)
(* Proofs about what is built on the pool, for any number of threads and   *)
(* items, any claims and any batch and block sizes.                        *)
(*                                                                         *)
(* Grind: the nonce found is the smallest one that clears, however stale   *)
(* the loads (SmallestNonceFound). Reduce: the combined value holds every  *)
(* item once (EveryItemOnce), since each worker's part does at all times,  *)
(* whether it is in its slot or taken out of it (FoldInv).                 *)
(***************************************************************************)
EXTENDS MCSharedWork, Induction


\* No hit of the current block is overlooked: the batch of a claimed item holds
\* no hit, or the minimum is at or below it, or a thread is yet to try it.
Covered ==
    \A i \in Indices :
        i < next /\ Pred(i) =>
            best <= i \/ \E w \in Workers : at[w] <= i /\ i < end[w]

\* Whatever a Relaxed load returns is an upper bound of the minimum.
PastInv == Unset \in past /\ \A value \in past : best <= value

SearchInv ==
    /\ \A w \in Workers : at[w] <= end[w]
    /\ \A w \in Workers : fresh[w] => at[w] < end[w]
    /\ best # Unset => Pred(best)
    /\ \A h \in hits : start <= h

IInv == TypeOK /\ SearchInv /\ PastInv /\ Covered /\ SmallestNonce

-----------------------------------------------------------------------------
\* Multiples keep the order.
LEMMA Multiple ==
    ASSUME NEW a \in Nat, NEW b \in Nat, NEW k \in Nat, a <= b
    PROVE  a * k <= b * k
  BY SMT

\* Division with remainder.
LEMMA Euclid ==
    ASSUME NEW x \in Nat, NEW k \in Nat \ {0}
    PROVE  \E q \in Nat : q * k <= x /\ x < (q + 1) * k
<1> DEFINE q == x \div k
<1>1. q \in Nat /\ q * k <= x /\ x < q * k + k
  BY SMT
<1>2. (q + 1) * k = q * k + k
  BY <1>1, SMT
<1> QED
  BY <1>1, <1>2

\* Every nonce of the block is in one of its batches.
LEMMA BatchOf ==
    ASSUME NEW h \in Nat, start \in Nat, start <= h, h < start + BlockItems * Batch
    PROVE  \E i \in Indices : h \in BatchNonces(i)
<1>1. Batch \in Nat \ {0} /\ BlockItems \in Nat
  BY GrindAssumption
<1>2. PICK q \in Nat : q * Batch <= h - start /\ h - start < (q + 1) * Batch
  <2>1. h - start \in Nat
    OBVIOUS
  <2> QED
    BY <1>1, <2>1, Euclid
<1>3. q < BlockItems
  <2>1. SUFFICES ASSUME BlockItems <= q PROVE FALSE
    BY <1>1
  <2>2. BlockItems * Batch <= q * Batch
    BY <1>1, <2>1, Multiple
  <2>3. BlockItems * Batch \in Int /\ q * Batch \in Int
    BY <1>1
  <2> QED
    BY <1>2, <2>2, <2>3
<1>4. q * Batch \in Int /\ (q + 1) * Batch \in Int
  BY <1>1
<1>5. h \in start + q * Batch .. start + (q + 1) * Batch - 1
  BY <1>2, <1>4
<1> QED
  BY <1>1, <1>3, <1>5 DEF Indices, BatchNonces

-----------------------------------------------------------------------------
\* The search starts with nothing claimed and no hit.
LEMMA InitHolds == Init => IInv
<1> SUFFICES ASSUME Init PROVE IInv
  OBVIOUS
<1> USE GrindAssumption
<1>1. TypeOK
  <2>1. 0 \in {b * BlockItems * Batch : b \in 0 .. MaxBlocks - 1}
    <3>1. 0 * BlockItems * Batch = 0 /\ 0 \in 0 .. MaxBlocks - 1
      OBVIOUS
    <3> QED
      BY <3>1
  <2>2. BlockItems \in Nat /\ Unset \in Nat
    OBVIOUS
  <2> QED
    BY <2>1, <2>2 DEF Init, TypeOK
<1>2. SearchInv
  <2>1. \A h \in Nonces : 0 <= h
    BY DEF Nonces
  <2> QED
    BY <2>1 DEF Init, SearchInv
<1>3. PastInv /\ Covered /\ SmallestNonce
  BY DEF Init, PastInv, Covered, SmallestNonce, Indices
<1> QED
  BY <1>1, <1>2, <1>3 DEF IInv

\* The facts about sizes that the steps below use.
LEMMA Sizes ==
    ASSUME IInv
    PROVE  /\ Batch \in Nat \ {0} /\ BlockItems \in Nat \ {0}
           /\ BlockItems * Batch \in Nat
           /\ Unset \in Nat /\ BlockItems <= Unset
           /\ start \in Nat
           /\ best \in Nat
           /\ hits \subseteq Nat
<1>1. Batch \in Nat \ {0} /\ BlockItems \in Nat \ {0}
  BY GrindAssumption
<1>2. \A b \in Nat : b * BlockItems * Batch \in Nat
  BY <1>1
<1>3. start \in Nat
  BY <1>2, GrindAssumption DEF IInv, TypeOK
<1>4. Unset \in Nat /\ BlockItems <= Unset /\ best \in Nat
  BY GrindAssumption DEF IInv, TypeOK, Indices
<1>5. Nonces \subseteq Nat
  BY DEF Nonces
<1> QED
  BY <1>1, <1>2, <1>3, <1>4, <1>5 DEF IInv, TypeOK

\* A claim of find_first: the batches it covers are for its thread to try.
LEMMA ClaimStep ==
    ASSUME IInv, NEW w \in Workers, ClaimRange(w)
    PROVE  IInv'
<1> USE DEF IInv
<1>0. /\ next' \in next + 1 .. BlockItems /\ next \in 0 .. BlockItems
      /\ at' = [at EXCEPT ![w] = next] /\ end' = [end EXCEPT ![w] = next']
      /\ UNCHANGED <<hits, start, best, past, seen, nonce>>
      /\ at[w] = end[w]
  BY DEF ClaimRange, Idle, TypeOK
<1>1. TypeOK'
  BY <1>0, Sizes DEF TypeOK, ClaimRange
<1>2. SearchInv'
  BY <1>0, Sizes DEF SearchInv, TypeOK, ClaimRange, Pred, BatchNonces
<1>3. Covered'
  <2> SUFFICES ASSUME NEW i \in Indices, i < next', Pred(i)
               PROVE  best <= i \/ \E u \in Workers : at'[u] <= i /\ i < end'[u]
    BY <1>0 DEF Covered, Pred, BatchNonces
  <2>1. CASE i < next
    <3>1. CASE best <= i
      BY <3>1
    <3>2. CASE \E u \in Workers : at[u] <= i /\ i < end[u]
      <4>1. PICK u \in Workers : at[u] <= i /\ i < end[u]
        BY <3>2
      <4>2. u # w
        BY <1>0, <4>1, Sizes DEF TypeOK, Indices
      <4>3. at'[u] = at[u] /\ end'[u] = end[u]
        BY <1>0, <4>2 DEF TypeOK
      <4> QED
        BY <4>1, <4>3
    <3> QED
      BY <2>1, <3>1, <3>2 DEF Covered
  <2>2. CASE ~(i < next)
    BY <1>0, <2>2, Sizes DEF TypeOK, Indices
  <2> QED
    BY <2>1, <2>2
<1> QED
  BY <1>0, <1>1, <1>2, <1>3 DEF PastInv, SmallestNonce

\* A load that gives up a claim: what it gives up is at or above the minimum.
LEMMA SkipStep ==
    ASSUME IInv, NEW w \in Workers, SkipClaim(w)
    PROVE  IInv'
<1> USE DEF IInv
<1>0. PICK value \in past :
        /\ seen' = [seen EXCEPT ![w] = value]
        /\ at' = [at EXCEPT ![w] = IF at[w] >= value THEN end[w] ELSE at[w]]
  BY DEF SkipClaim
<1>1. /\ fresh' = [fresh EXCEPT ![w] = FALSE]
      /\ UNCHANGED <<hits, start, next, end, best, past, nonce>>
  BY DEF SkipClaim
<1>2. value \in Nat /\ best <= value
  BY Sizes DEF TypeOK, Indices, PastInv
<1>3. TypeOK'
  BY <1>0, <1>1, Sizes DEF TypeOK
<1>4. SearchInv'
  BY <1>0, <1>1, Sizes DEF SearchInv, TypeOK, Pred, BatchNonces
<1>5. Covered'
  <2> SUFFICES ASSUME NEW i \in Indices, i < next, Pred(i)
               PROVE  best <= i \/ \E u \in Workers : at'[u] <= i /\ i < end[u]
    BY <1>1 DEF Covered, Pred, BatchNonces
  <2>1. CASE best <= i
    BY <2>1
  <2>2. CASE \E u \in Workers : at[u] <= i /\ i < end[u]
    <3>1. PICK u \in Workers : at[u] <= i /\ i < end[u]
      BY <2>2
    <3>2. CASE u = w /\ at[w] >= value
      BY <1>2, <3>1, <3>2, Sizes DEF TypeOK, Indices
    <3>3. CASE ~(u = w /\ at[w] >= value)
      <4>1. at'[u] = at[u]
        BY <1>0, <3>3 DEF TypeOK
      <4> QED
        BY <3>1, <4>1
    <3> QED
      BY <3>2, <3>3
  <2> QED
    BY <2>1, <2>2 DEF Covered
<1> QED
  BY <1>1, <1>3, <1>4, <1>5 DEF PastInv, SmallestNonce

\* A batch that is tried lowers the minimum or holds no hit.
LEMMA TryStep ==
    ASSUME IInv, NEW w \in Workers, Try(w)
    PROVE  IInv'
<1> USE DEF IInv
<1>0. /\ UNCHANGED <<hits, start, next, end, fresh, nonce>>
      /\ ~fresh[w] /\ at[w] < end[w]
      /\ at[w] \in Indices
  BY Sizes DEF Try, Idle, SearchInv, TypeOK, Indices
<1>1. CASE Pred(at[w])
  <2>0. /\ best' = IF at[w] < best THEN at[w] ELSE best
        /\ past' = past \cup {best'}
        /\ seen' = [seen EXCEPT ![w] = best']
        /\ at' = [at EXCEPT ![w] = end[w]]
    BY <1>1 DEF Try, FetchMin
  <2>1. best' \in Indices /\ best' <= best /\ best' <= at[w]
    BY <1>0, <2>0, Sizes DEF TypeOK, Indices
  <2>2. TypeOK'
    BY <1>0, <2>0, <2>1 DEF TypeOK
  <2>3. SearchInv'
    BY <1>0, <1>1, <2>0, <2>1, Sizes DEF SearchInv, TypeOK, Pred, BatchNonces
  <2>4. PastInv'
    BY <2>0, <2>1, Sizes DEF PastInv, TypeOK, Indices
  <2>5. Covered'
    <3> SUFFICES ASSUME NEW i \in Indices, i < next, Pred(i)
                 PROVE  best' <= i \/ \E u \in Workers : at'[u] <= i /\ i < end[u]
      BY <1>0 DEF Covered, Pred, BatchNonces
    <3>1. CASE best <= i
      BY <2>1, <3>1, Sizes DEF Indices
    <3>2. CASE \E u \in Workers : at[u] <= i /\ i < end[u]
      <4>1. PICK u \in Workers : at[u] <= i /\ i < end[u]
        BY <3>2
      <4>2. CASE u = w
        BY <1>0, <2>1, <4>1, <4>2, Sizes DEF Indices
      <4>3. CASE u # w
        BY <2>0, <4>1, <4>3 DEF TypeOK
      <4> QED
        BY <4>2, <4>3
    <3> QED
      BY <3>1, <3>2 DEF Covered
  <2> QED
    BY <1>0, <2>2, <2>3, <2>4, <2>5 DEF SmallestNonce
<1>2. CASE ~Pred(at[w])
  <2>0. /\ at' = [at EXCEPT ![w] = at[w] + 1]
        /\ UNCHANGED <<best, past, seen>>
    BY <1>2 DEF Try
  <2>1. TypeOK'
    BY <1>0, <2>0, Sizes DEF TypeOK, Indices
  <2>2. SearchInv'
    BY <1>0, <2>0, Sizes DEF SearchInv, TypeOK, Pred, BatchNonces
  <2>3. Covered'
    <3> SUFFICES ASSUME NEW i \in Indices, i < next, Pred(i)
                 PROVE  best <= i \/ \E u \in Workers : at'[u] <= i /\ i < end[u]
      BY <1>0, <2>0 DEF Covered, Pred, BatchNonces
    <3>1. i # at[w]
      BY <1>2
    <3> QED
      BY <2>0, <3>1, Sizes DEF Covered, TypeOK, Indices
  <2> QED
    BY <1>0, <2>0, <2>1, <2>2, <2>3 DEF PastInv, SmallestNonce
<1> QED
  BY <1>1, <1>2

\* A dispatch that is over has tried every batch below the minimum.
LEMMA AllTried ==
    ASSUME IInv, Returned
    PROVE  \A i \in Indices : Pred(i) => best <= i
<1> TAKE i \in Indices
<1>1. i < next
  BY Sizes DEF Returned, Indices
<1>2. ~\E w \in Workers : at[w] <= i /\ i < end[w]
  BY Sizes DEF Returned, Idle, IInv, TypeOK, Indices
<1> QED
  BY <1>1, <1>2 DEF IInv, Covered

\* The search returns the first hit of the smallest batch that has one.
LEMMA FoundStep ==
    ASSUME IInv, Found
    PROVE  IInv'
<1> USE DEF IInv
<1>0. UNCHANGED <<hits, start, search>> /\ Returned /\ best # Unset
  BY DEF Found
<1>1. PICK m \in BatchNonces(best) \cap hits :
        (\A k \in BatchNonces(best) \cap hits : m <= k) /\ nonce' = m
  BY DEF Found
<1>2. best \in Indices
  BY <1>0 DEF TypeOK
<1>3. ASSUME NEW h \in hits PROVE m <= h
  <2>1. SUFFICES ASSUME h < m PROVE FALSE
    BY <1>1, Sizes
  <2>2. (best + 1) * Batch \in Nat /\ (best + 1) * Batch <= BlockItems * Batch
    BY <1>2, Sizes, Multiple DEF Indices
  <2>3. m \in Nat /\ m <= start + (best + 1) * Batch - 1
    BY <1>1, <2>2, Sizes DEF BatchNonces
  <2>4. h \in Nat /\ start <= h /\ h < start + BlockItems * Batch
    BY <2>1, <2>2, <2>3, Sizes DEF SearchInv
  <2>5. PICK i \in Indices : h \in BatchNonces(i)
    BY <2>4, Sizes, BatchOf
  <2>6. best <= i
    BY <1>0, <2>5, AllTried DEF Pred
  <2>7. CASE best = i
    BY <1>1, <2>1, <2>5, <2>7, Sizes
  <2>8. CASE best + 1 <= i
    <3>1. i * Batch \in Nat /\ (best + 1) * Batch <= i * Batch
      BY <1>2, <2>8, Sizes, Multiple DEF Indices
    <3>2. start + i * Batch <= h
      BY <2>5, <3>1, Sizes DEF BatchNonces
    <3> QED
      BY <2>1, <2>2, <2>3, <2>4, <3>1, <3>2, Sizes
  <2> QED
    BY <1>2, <2>6, <2>7, <2>8 DEF Indices
<1>4. m \in Nonces
  BY <1>1 DEF TypeOK
<1>5. TypeOK'
  BY <1>0, <1>1, <1>4 DEF TypeOK, search
<1>6. SearchInv' /\ PastInv' /\ Covered'
  BY <1>0 DEF SearchInv, PastInv, Covered, Pred, BatchNonces, search
<1>7. SmallestNonce'
  BY <1>0, <1>1, <1>3 DEF SmallestNonce
<1> QED
  BY <1>5, <1>6, <1>7

\* A block without hits is left behind as a whole.
LEMMA BlockStep ==
    ASSUME IInv, NextBlock
    PROVE  IInv'
<1> USE DEF IInv
<1>0. /\ nonce = -1 /\ Returned /\ best = Unset
      /\ start + BlockItems * Batch \in Nonces
      /\ start' = start + BlockItems * Batch
      /\ next' = 0
      /\ past' = {Unset}
      /\ seen' = [w \in Workers |-> Unset]
      /\ UNCHANGED <<hits, at, end, fresh, best, nonce>>
  BY DEF NextBlock
<1>1. start' \in {b * BlockItems * Batch : b \in 0 .. MaxBlocks - 1}
  <2>1. PICK b \in 0 .. MaxBlocks - 1 : start = b * BlockItems * Batch
    BY DEF TypeOK
  <2>2. b \in Nat /\ MaxBlocks \in Nat /\ BlockItems \in Nat /\ Batch \in Nat
    BY GrindAssumption
  <2> DEFINE k == BlockItems * Batch
  <2>3. k \in Nat
    BY <2>2
  <2>4. \A c \in Nat : c * BlockItems * Batch = c * k
    BY <2>2
  <2>5. (b + 1) * k = b * k + k
    BY <2>2, <2>3
  <2>6. start' = (b + 1) * k
    BY <1>0, <2>1, <2>2, <2>4, <2>5
  <2>7. b + 1 < MaxBlocks
    <3>1. Batch * BlockItems * MaxBlocks = MaxBlocks * k
      BY <2>2
    <3>2. start' < MaxBlocks * k
      BY <1>0, <2>2, <2>3, <3>1, Sizes DEF Nonces
    <3>3. MaxBlocks <= b + 1 => MaxBlocks * k <= (b + 1) * k
      BY <2>2, <2>3, Multiple
    <3> HIDE DEF k
    <3>4. MaxBlocks * k \in Int /\ (b + 1) * k \in Int
      BY <2>2, <2>3
    <3> QED
      BY <2>2, <2>6, <3>2, <3>3, <3>4
  <2>8. start' = (b + 1) * BlockItems * Batch
    BY <2>2, <2>4, <2>6
  <2> QED
    BY <2>2, <2>7, <2>8
<1>2. TypeOK'
  BY <1>0, <1>1, Sizes DEF TypeOK
<1>3. \A h \in hits : start' <= h
  <2> SUFFICES ASSUME NEW h \in hits, h < start' PROVE FALSE
    BY <1>0, Sizes
  <2>1. PICK i \in Indices : h \in BatchNonces(i)
    BY <1>0, Sizes, BatchOf DEF SearchInv
  <2>2. best <= i
    BY <1>0, <2>1, AllTried DEF Pred
  <2> QED
    BY <1>0, <2>2, Sizes DEF Indices
<1>4. SearchInv'
  BY <1>0, <1>3 DEF SearchInv
<1>5. PastInv' /\ Covered'
  BY <1>0, Sizes DEF PastInv, Covered, Indices
<1> QED
  BY <1>0, <1>2, <1>4, <1>5 DEF SmallestNonce

\* IInv holds in every reachable state.
THEOREM GrindInvariant == Spec => []IInv
<1>1. IInv /\ [Next]_vars => IInv'
  <2> SUFFICES ASSUME IInv, [Next]_vars PROVE IInv'
    OBVIOUS
  <2>1. ASSUME NEW w \in Workers, ClaimRange(w) PROVE IInv'
    BY <2>1, ClaimStep
  <2>2. ASSUME NEW w \in Workers, SkipClaim(w) PROVE IInv'
    BY <2>2, SkipStep
  <2>3. ASSUME NEW w \in Workers, Try(w) PROVE IInv'
    BY <2>3, TryStep
  <2>4. CASE Found
    BY <2>4, FoundStep
  <2>5. CASE NextBlock
    BY <2>5, BlockStep
  <2>6. CASE UNCHANGED vars
    BY <2>6 DEF vars, IInv, TypeOK, SearchInv, PastInv, Covered, SmallestNonce, Pred,
                BatchNonces
  <2> QED
    BY <2>1, <2>2, <2>3, <2>4, <2>5, <2>6 DEF Next
<1> QED
  BY InitHolds, <1>1, PTL DEF Spec

\* grind_pow returns the smallest nonce that clears the bits, however the claims
\* of the workers fall and however stale their loads of the shared minimum are.
THEOREM SmallestNonceFound == Spec => []SmallestNonce
  BY GrindInvariant, PTL DEF IInv

-----------------------------------------------------------------------------
(***************************************************************************)
(* What each worker has folded, or is folding.                             *)
(***************************************************************************)

\* What is in a list, and that nothing is in it twice.
Elements(s) == {s[i] : i \in 1 .. Len(s)}
NoneTwice(s) == \A i, j \in 1 .. Len(s) : s[i] = s[j] => i = j

\* The items of a range, in order.
Run(from, to) == [i \in 1 .. to - from |-> from + i - 1]

\* The parts of workers 0 .. k - 1 hold each of the first n items once.
Parts(part, k, n) ==
    /\ \A w \in 0 .. k - 1 : part[w] \in Seq(Nat) /\ NoneTwice(part[w])
    /\ \A v, w \in 0 .. k - 1 : \A x : x \in Elements(part[v]) /\ x \in Elements(part[w]) => v = w
    /\ \A x : (\E w \in 0 .. k - 1 : x \in Elements(part[w])) <=> x \in 0 .. n - 1

\* A range has its items, each once.
LEMMA RunIs ==
    ASSUME NEW a \in Nat, NEW b \in Nat, a <= b
    PROVE  /\ Run(a, b) \in Seq(Nat) /\ Len(Run(a, b)) = b - a /\ NoneTwice(Run(a, b))
           /\ \A x : x \in Elements(Run(a, b)) <=> x \in a .. b - 1
<1> DEFINE s == Run(a, b)
           n == b - a
<1>1. n \in Nat
  OBVIOUS
<1>2. s = [i \in 1 .. n |-> a + i - 1]
  BY DEF Run
<1> HIDE DEF n, s
<1>3. \A i \in 1 .. n : a + i - 1 \in Nat
  BY <1>1
<1>4. s \in Seq(Nat) /\ Len(s) = n /\ \A i \in 1 .. n : s[i] = a + i - 1
  BY <1>1, <1>2, <1>3
<1>5. NoneTwice(s)
  BY <1>1, <1>4 DEF NoneTwice
<1>6. ASSUME NEW x
      PROVE  x \in Elements(s) <=> x \in a .. b - 1
  <2>1. x \in Elements(s) => x \in a .. b - 1
    BY <1>1, <1>4 DEF Elements, n
  <2>2. ASSUME x \in a .. b - 1
        PROVE  x \in Elements(s)
    <3>1. x - a + 1 \in 1 .. n /\ a + (x - a + 1) - 1 = x
      BY <2>2 DEF n
    <3>2. s[x - a + 1] = x
      BY <1>4, <3>1
    <3>3. QED
      BY <1>4, <3>1, <3>2 DEF Elements
  <2>3. QED
    BY <2>1, <2>2
<1>7. QED
  BY <1>4, <1>5, <1>6 DEF s, n

\* Two lists with nothing in common, one after the other.
LEMMA Concatenation ==
    ASSUME NEW s \in Seq(Nat), NEW t \in Seq(Nat), NoneTwice(s), NoneTwice(t),
           \A x : ~(x \in Elements(s) /\ x \in Elements(t))
    PROVE  /\ s \o t \in Seq(Nat) /\ NoneTwice(s \o t)
           /\ \A x : x \in Elements(s \o t) <=> x \in Elements(s) \/ x \in Elements(t)
<1> DEFINE u == s \o t
           m == Len(s)
           n == Len(t)
<1>1. /\ u \in Seq(Nat) /\ Len(u) = m + n /\ m \in Nat /\ n \in Nat
      /\ \A i \in 1 .. m : u[i] = s[i]
      /\ \A i \in m + 1 .. m + n : u[i] = t[i - m]
  BY ConcatProperties
<1> HIDE DEF u
<1>2. \A i \in 1 .. m + n : i \in 1 .. m \/ (i \in m + 1 .. m + n /\ i - m \in 1 .. n)
  BY <1>1
<1>3. \A i \in 1 .. n : i + m \in m + 1 .. m + n /\ (i + m) - m = i /\ i + m \in 1 .. m + n
  BY <1>1
<1>4. \A i \in 1 .. m : i \in 1 .. m + n
  BY <1>1
<1>5. ASSUME NEW x
      PROVE  x \in Elements(u) <=> x \in Elements(s) \/ x \in Elements(t)
  <2>1. x \in Elements(u) <=> \E i \in 1 .. m + n : x = u[i]
    BY <1>1 DEF Elements
  <2>2. x \in Elements(s) <=> \E i \in 1 .. m : x = s[i]
    BY DEF Elements
  <2>3. x \in Elements(t) <=> \E i \in 1 .. n : x = t[i]
    BY DEF Elements
  <2> HIDE DEF m, n
  <2>4. ASSUME x \in Elements(u)
        PROVE  x \in Elements(s) \/ x \in Elements(t)
    <3>1. PICK i \in 1 .. m + n : x = u[i]
      BY <2>1, <2>4
    <3>2. CASE i \in 1 .. m
      BY <1>1, <2>2, <3>1, <3>2
    <3>3. CASE i \in m + 1 .. m + n /\ i - m \in 1 .. n
      BY <1>1, <2>3, <3>1, <3>3
    <3>4. QED
      BY <1>2, <3>2, <3>3
  <2>5. ASSUME x \in Elements(s)
        PROVE  x \in Elements(u)
    BY <1>1, <1>4, <2>1, <2>2, <2>5
  <2>6. ASSUME x \in Elements(t)
        PROVE  x \in Elements(u)
    <3>1. PICK i \in 1 .. n : x = t[i]
      BY <2>3, <2>6
    <3>2. u[i + m] = x
      BY <1>1, <1>3, <3>1
    <3>3. QED
      BY <1>3, <2>1, <3>2
  <2>7. QED
    BY <2>4, <2>5, <2>6
<1>6. NoneTwice(u)
  <2>1. SUFFICES ASSUME NEW i \in 1 .. m + n, NEW j \in 1 .. m + n, u[i] = u[j]
                 PROVE  i = j
    BY <1>1 DEF NoneTwice
  <2>2. /\ \A k \in 1 .. m : s[k] \in Elements(s)
        /\ \A k \in 1 .. n : t[k] \in Elements(t)
    BY DEF Elements
  <2>3. CASE i \in 1 .. m /\ j \in 1 .. m
    BY <1>1, <2>1, <2>3 DEF NoneTwice
  <2>4. CASE i \in 1 .. m /\ j \notin 1 .. m
    <3>1. u[i] \in Elements(s) /\ u[j] \in Elements(t)
      BY <1>1, <1>2, <2>2, <2>4
    <3>2. QED
      BY <2>1, <3>1
  <2>5. CASE i \notin 1 .. m /\ j \in 1 .. m
    <3>1. u[j] \in Elements(s) /\ u[i] \in Elements(t)
      BY <1>1, <1>2, <2>2, <2>5
    <3>2. QED
      BY <2>1, <3>1
  <2>6. CASE i \notin 1 .. m /\ j \notin 1 .. m
    <3>1. i - m \in 1 .. n /\ j - m \in 1 .. n /\ u[i] = t[i - m] /\ u[j] = t[j - m]
      BY <1>1, <1>2, <2>6
    <3>2. i - m = j - m
      BY <2>1, <3>1 DEF NoneTwice
    <3>3. QED
      BY <1>1, <3>2
  <2>7. QED
    BY <2>3, <2>4, <2>5, <2>6
<1>7. QED
  BY <1>1, <1>5, <1>6 DEF u

\* The next range goes to the part of one worker.
LEMMA PartsGrow ==
    ASSUME NEW k \in Nat, NEW part \in [0 .. k - 1 -> Seq(Nat)], NEW a \in Nat, NEW b \in Nat,
           a <= b, Parts(part, k, a), NEW w \in 0 .. k - 1
    PROVE  Parts([part EXCEPT ![w] = part[w] \o Run(a, b)], k, b)
<1> DEFINE more == part[w] \o Run(a, b)
           new == [part EXCEPT ![w] = more]
<1>1. /\ Run(a, b) \in Seq(Nat) /\ NoneTwice(Run(a, b))
      /\ \A x : x \in Elements(Run(a, b)) <=> x \in a .. b - 1
  BY RunIs
<1>2. part[w] \in Seq(Nat) /\ NoneTwice(part[w])
  BY DEF Parts
<1>3. \A v \in 0 .. k - 1 : \A x : x \in Elements(part[v]) => x \in 0 .. a - 1
  BY DEF Parts
<1>4. \A x : ~(x \in 0 .. a - 1 /\ x \in a .. b - 1)
  OBVIOUS
<1>5. /\ more \in Seq(Nat) /\ NoneTwice(more)
      /\ \A x : x \in Elements(more) <=> x \in Elements(part[w]) \/ x \in a .. b - 1
  <2>1. \A x : ~(x \in Elements(part[w]) /\ x \in Elements(Run(a, b)))
    BY <1>1, <1>3, <1>4
  <2>2. QED
    BY <1>1, <1>2, <2>1, Concatenation
<1> HIDE DEF more
<1>6. new[w] = more /\ \A v \in 0 .. k - 1 : v # w => new[v] = part[v]
  OBVIOUS
<1> HIDE DEF new
<1>7. \A v \in 0 .. k - 1 : new[v] \in Seq(Nat) /\ NoneTwice(new[v])
  BY <1>5, <1>6 DEF Parts
<1>8. ASSUME NEW u \in 0 .. k - 1, NEW v \in 0 .. k - 1, NEW x,
             x \in Elements(new[u]), x \in Elements(new[v])
      PROVE  u = v
  <2>1. CASE u = w /\ v # w
    <3>1. x \in Elements(part[v]) /\ (x \in Elements(part[w]) \/ x \in a .. b - 1)
      BY <1>5, <1>6, <1>8, <2>1
    <3>2. x \in Elements(part[w])
      BY <1>3, <1>4, <3>1
    <3>3. QED
      BY <2>1, <3>1, <3>2 DEF Parts
  <2>2. CASE u # w /\ v = w
    <3>1. x \in Elements(part[u]) /\ (x \in Elements(part[w]) \/ x \in a .. b - 1)
      BY <1>5, <1>6, <1>8, <2>2
    <3>2. x \in Elements(part[w])
      BY <1>3, <1>4, <3>1
    <3>3. QED
      BY <2>2, <3>1, <3>2 DEF Parts
  <2>3. CASE u # w /\ v # w
    <3>1. x \in Elements(part[u]) /\ x \in Elements(part[v])
      BY <1>6, <1>8, <2>3
    <3>2. QED
      BY <3>1 DEF Parts
  <2>4. QED
    BY <2>1, <2>2, <2>3
<1>9. ASSUME NEW x
      PROVE  (\E v \in 0 .. k - 1 : x \in Elements(new[v])) <=> x \in 0 .. b - 1
  <2>1. (\E v \in 0 .. k - 1 : x \in Elements(part[v])) <=> x \in 0 .. a - 1
    BY DEF Parts
  <2>2. x \in 0 .. b - 1 <=> x \in 0 .. a - 1 \/ x \in a .. b - 1
    OBVIOUS
  <2>3. (\E v \in 0 .. k - 1 : x \in Elements(new[v]))
          <=> (\E v \in 0 .. k - 1 : x \in Elements(part[v])) \/ x \in a .. b - 1
    BY <1>5, <1>6
  <2>4. QED
    BY <2>1, <2>2, <2>3
<1>10. QED
  BY <1>7, <1>8, <1>9 DEF Parts, new, more

\* A list that has each of the first n items once is n long.
LEMMA LongAsItems ==
    ASSUME NEW s \in Seq(Nat), NEW n \in Nat, NoneTwice(s),
           \A x : x \in Elements(s) <=> x \in 0 .. n - 1
    PROVE  Len(s) = n
<1> DEFINE l == Len(s)
           R == 0 .. n - 1
<1>1. l \in Nat /\ 1 \in Int /\ l \in Int /\ 0 \in Int /\ n - 1 \in Int
  OBVIOUS
<1>2. IsFiniteSet(1 .. l) /\ Cardinality(1 .. l) = l
  <2>1. IsFiniteSet(1 .. l) /\ Cardinality(1 .. l) = IF 1 > l THEN 0 ELSE l - 1 + 1
    BY <1>1, FS_Interval
  <2> HIDE DEF l
  <2>2. QED
    BY <1>1, <2>1
<1>3. IsFiniteSet(R) /\ Cardinality(R) = n
  <2>1. IsFiniteSet(R) /\ Cardinality(R) = IF 0 > n - 1 THEN 0 ELSE (n - 1) - 0 + 1
    BY <1>1, FS_Interval
  <2>2. QED
    BY <2>1
<1>4. s \in Bijection(1 .. l, R)
  <2>1. \A i \in 1 .. l : s[i] \in R
    <3>1. \A i \in 1 .. l : s[i] \in Elements(s)
      BY DEF Elements
    <3>2. QED
      BY <3>1
  <2>2. s \in [1 .. l -> R]
    <3> HIDE DEF R
    <3>1. QED
      BY <2>1
  <2>3. \A i, j \in 1 .. l : s[i] = s[j] => i = j
    BY DEF NoneTwice
  <2>4. \A x \in R : \E i \in 1 .. l : s[i] = x
    BY DEF Elements
  <2> HIDE DEF l, R
  <2>5. QED
    BY <2>2, <2>3, <2>4, Fun_IsBij
<1> HIDE DEF l, R
<1>5. ExistsBijection(1 .. l, R)
  BY <1>4 DEF ExistsBijection
<1>6. Cardinality(1 .. l) = Cardinality(R)
  BY <1>2, <1>5, FS_Bijection
<1>7. QED
  BY <1>2, <1>3, <1>6 DEF l

\* The parts laid end to end have each item once.
LEMMA WholeIs ==
    ASSUME NEW k \in Nat, NEW part \in [0 .. k - 1 -> Seq(Nat)], NEW n \in Nat, Parts(part, k, n),
           NEW seqs, \A i \in 1 .. k : seqs[i] = part[i - 1], NEW f, IsJoin(f, k, Nat, seqs)
    PROVE  /\ f[k] \in Seq(Nat) /\ Len(f[k]) = n
           /\ \A x : x \in Elements(f[k]) <=> x \in 0 .. n - 1
<1> DEFINE Is(j) == /\ f[j] \in Seq(Nat) /\ NoneTwice(f[j])
                    /\ \A x : x \in Elements(f[j])
                                <=> \E w \in 0 .. k - 1 : w < j /\ x \in Elements(part[w])
           S == {j \in 0 .. k : Is(j)}
<1>1. f[0] = << >> /\ \A j \in 1 .. k : f[j] = f[j - 1] \o seqs[j]
  BY DEF IsJoin
<1>2. 0 \in S
  <2>1. << >> \in Seq(Nat) /\ Len(<< >>) = 0
    OBVIOUS
  <2>2. NoneTwice(<< >>) /\ Elements(<< >>) = {}
    BY DEF NoneTwice, Elements
  <2>3. QED
    BY <1>1, <2>1, <2>2, SMTT(60)
<1>3. ASSUME NEW j \in 0 .. k - 1, j \in S
      PROVE  j + 1 \in S
  <2>1. j + 1 \in 1 .. k /\ (j + 1) - 1 = j /\ j + 1 \in 0 .. k
    OBVIOUS
  <2>2. f[j + 1] = f[j] \o part[j]
    BY <1>1, <2>1
  <2>3. part[j] \in Seq(Nat) /\ NoneTwice(part[j])
    BY DEF Parts
  <2>4. Is(j)
    BY <1>3
  <2>5. \A x : ~(x \in Elements(f[j]) /\ x \in Elements(part[j]))
    BY <2>4 DEF Parts
  <2>6. /\ f[j] \o part[j] \in Seq(Nat) /\ NoneTwice(f[j] \o part[j])
        /\ \A x : x \in Elements(f[j] \o part[j]) <=> x \in Elements(f[j]) \/ x \in Elements(part[j])
    BY <2>3, <2>4, <2>5, Concatenation
  <2>7. \A w \in 0 .. k - 1 : w < j + 1 <=> w < j \/ w = j
    OBVIOUS
  <2>8. Is(j + 1)
    BY <2>2, <2>4, <2>6, <2>7
  <2>9. QED
    BY <2>1, <2>8
<1>4. k \in S
  <2> HIDE DEF S
  <2>1. \A j \in 0 .. k : j \in S
    BY <1>2, <1>3, UpTo
  <2>2. QED
    BY <2>1
<1>5. /\ f[k] \in Seq(Nat) /\ NoneTwice(f[k])
      /\ \A x : x \in Elements(f[k]) <=> x \in 0 .. n - 1
  <2>1. \A w \in 0 .. k - 1 : w < k
    OBVIOUS
  <2>2. QED
    BY <1>4, <2>1 DEF Parts
<1>6. QED
  BY <1>5, LongAsItems

-----------------------------------------------------------------------------
(***************************************************************************)
(* The fold.                                                               *)
(***************************************************************************)

\* What worker w has folded, or is folding.
Mine == [w \in Fold!WorkerIds |->
           IF claim[w] = Fold!NoRange THEN slot[w] ELSE partial[w] \o Fold!ItemsOf(claim[w])]

\* The workers hold each item claimed once; a partial is in its slot, or taken out of it
\* while its worker folds a range.
FoldInv ==
    /\ items \in Nat /\ unclaimed \in 0 .. items
    /\ claim \in [Fold!WorkerIds -> [start : Nat, end : Nat]]
    /\ partial \in [Fold!WorkerIds -> Seq(Nat)] /\ slot \in [Fold!WorkerIds -> Seq(Nat)]
    /\ \A w \in Fold!WorkerIds :
        claim[w] # Fold!NoRange => claim[w].start < claim[w].end /\ slot[w] = << >>
    /\ Parts(Mine, NumThreads, unclaimed)
    /\ Fold!EachItemOnce

\* The worker ids.
LEMMA Ids == Fold!WorkerIds = 0 .. NumThreads - 1 /\ NumThreads \in Nat \ {0}
BY SharedWorkAssumption DEF Fold!WorkerIds

\* Parts are lists of items.
LEMMA MineIs ==
    ASSUME claim \in [Fold!WorkerIds -> [start : Nat, end : Nat]],
           partial \in [Fold!WorkerIds -> Seq(Nat)], slot \in [Fold!WorkerIds -> Seq(Nat)],
           \A w \in Fold!WorkerIds : claim[w] # Fold!NoRange => claim[w].start < claim[w].end
    PROVE  /\ Mine \in [Fold!WorkerIds -> Seq(Nat)]
           /\ \A w \in Fold!WorkerIds : Fold!ItemsOf(claim[w]) = Run(claim[w].start, claim[w].end)
<1>1. ASSUME NEW w \in Fold!WorkerIds
      PROVE  Fold!ItemsOf(claim[w]) = Run(claim[w].start, claim[w].end)
  BY DEF Fold!ItemsOf, Run
<1>2. ASSUME NEW w \in Fold!WorkerIds, claim[w] # Fold!NoRange
      PROVE  partial[w] \o Fold!ItemsOf(claim[w]) \in Seq(Nat)
  <2>1. claim[w].start \in Nat /\ claim[w].end \in Nat /\ claim[w].start <= claim[w].end
    BY <1>2
  <2>2. Run(claim[w].start, claim[w].end) \in Seq(Nat)
    BY <2>1, RunIs
  <2>3. QED
    BY <1>1, <2>2, ConcatProperties
<1>3. QED
  BY <1>1, <1>2 DEF Mine

\* Nothing is claimed at first.
LEMMA FoldInit == Fold!Init => FoldInv
<1> SUFFICES ASSUME Fold!Init PROVE FoldInv
  OBVIOUS
<1>1. /\ items \in Nat /\ unclaimed = 0
      /\ claim = [w \in Fold!WorkerIds |-> Fold!NoRange]
      /\ partial = [w \in Fold!WorkerIds |-> << >>] /\ slot = [w \in Fold!WorkerIds |-> << >>]
      /\ done = FALSE
  BY SharedWorkAssumption DEF Fold!Init
<1>2. Fold!NoRange \in [start : Nat, end : Nat] /\ << >> \in Seq(Nat)
  BY DEF Fold!NoRange
<1>3. Mine = [w \in Fold!WorkerIds |-> << >>]
  BY <1>1 DEF Mine
<1>4. Len(<< >>) = 0 /\ NoneTwice(<< >>) /\ Elements(<< >>) = {}
  BY DEF NoneTwice, Elements
<1>5. Parts(Mine, NumThreads, 0)
  <2>1. \A w \in 0 .. NumThreads - 1 : Mine[w] = << >>
    BY <1>3, Ids
  <2>2. 0 .. 0 - 1 = {}
    OBVIOUS
  <2>3. QED
    BY <1>2, <1>4, <2>1, <2>2 DEF Parts
<1>6. Fold!EachItemOnce
  BY <1>1 DEF Fold!EachItemOnce
<1>7. QED
  BY <1>1, <1>2, <1>5, <1>6 DEF FoldInv

\* A claim adds its range to the part of its worker.
LEMMA TakeKeeps ==
    ASSUME FoldInv, NEW w \in Fold!WorkerIds, Fold!TakeSlot(w)
    PROVE  FoldInv'
<1>1. PICK last \in unclaimed + 1 .. items :
        claim' = [claim EXCEPT ![w] = [start |-> unclaimed, end |-> last]] /\ unclaimed' = last
  BY DEF Fold!TakeSlot
<1>2. /\ claim[w] = Fold!NoRange /\ items' = items /\ result' = result /\ done' = done
      /\ partial' = [partial EXCEPT ![w] = slot[w]] /\ slot' = [slot EXCEPT ![w] = << >>]
  BY DEF Fold!TakeSlot, Fold!SlotOf
<1>3. /\ items \in Nat /\ unclaimed \in 0 .. items /\ last \in Nat /\ unclaimed < last
      /\ claim \in [Fold!WorkerIds -> [start : Nat, end : Nat]]
      /\ partial \in [Fold!WorkerIds -> Seq(Nat)] /\ slot \in [Fold!WorkerIds -> Seq(Nat)]
      /\ \A v \in Fold!WorkerIds :
          claim[v] # Fold!NoRange => claim[v].start < claim[v].end /\ slot[v] = << >>
      /\ Parts(Mine, NumThreads, unclaimed) /\ Fold!EachItemOnce
  BY DEF FoldInv
<1> DEFINE r == [start |-> unclaimed, end |-> last]
<1>4. /\ r \in [start : Nat, end : Nat] /\ r.start = unclaimed /\ r.end = last
      /\ r # Fold!NoRange /\ Fold!ItemsOf(r) = Run(unclaimed, last)
  <2>1. r.start = unclaimed /\ r.end = last /\ r \in [start : Nat, end : Nat]
    BY <1>3
  <2>2. r # Fold!NoRange
    BY <1>3, <2>1 DEF Fold!NoRange
  <2>3. QED
    BY <2>1, <2>2 DEF Fold!ItemsOf, Run
<1> HIDE DEF r
<1>5. /\ claim'[w] = r /\ partial'[w] = slot[w] /\ slot'[w] = << >>
      /\ \A v \in Fold!WorkerIds : v # w => /\ claim'[v] = claim[v] /\ slot'[v] = slot[v]
                                            /\ partial'[v] = partial[v]
      /\ claim' \in [Fold!WorkerIds -> [start : Nat, end : Nat]]
      /\ partial' \in [Fold!WorkerIds -> Seq(Nat)] /\ slot' \in [Fold!WorkerIds -> Seq(Nat)]
  <2>1. << >> \in Seq(Nat)
    OBVIOUS
  <2>2. claim' = [claim EXCEPT ![w] = r]
    BY <1>1 DEF r
  <2>3. QED
    BY <1>2, <1>3, <1>4, <2>1, <2>2
<1>6. Mine \in [Fold!WorkerIds -> Seq(Nat)]
  BY <1>3, MineIs
<1>7. Mine' = [Mine EXCEPT ![w] = Mine[w] \o Run(unclaimed, last)]
  <2>1. Mine[w] = slot[w]
    BY <1>2 DEF Mine
  <2>2. Mine' = [v \in Fold!WorkerIds |-> IF claim'[v] = Fold!NoRange THEN slot'[v]
                                          ELSE partial'[v] \o Fold!ItemsOf(claim'[v])]
    BY DEF Mine
  <2>3. Mine'[w] = slot[w] \o Run(unclaimed, last)
    BY <1>4, <1>5, <2>2
  <2>4. \A v \in Fold!WorkerIds : v # w => Mine'[v] = Mine[v]
    BY <1>5, <2>2 DEF Mine
  <2>5. Mine' = [v \in Fold!WorkerIds |-> Mine'[v]]
    BY <2>2
  <2>6. QED
    <3>1. Mine = [v \in Fold!WorkerIds |-> Mine[v]]
      BY <1>6
    <3> HIDE DEF Mine
    <3>2. QED
      BY <2>1, <2>3, <2>4, <2>5, <3>1
<1>8. Parts(Mine', NumThreads, last)
  <2>1. Mine \in [0 .. NumThreads - 1 -> Seq(Nat)] /\ NumThreads \in Nat
    BY <1>6, Ids
  <2>2. w \in 0 .. NumThreads - 1 /\ unclaimed \in Nat /\ unclaimed <= last
    BY <1>3, Ids
  <2>3. Parts(Mine, NumThreads, unclaimed)
    BY <1>3
  <2> HIDE DEF Mine
  <2>4. Parts([Mine EXCEPT ![w] = Mine[w] \o Run(unclaimed, last)], NumThreads, last)
    BY <1>3, <2>1, <2>2, <2>3, PartsGrow
  <2>5. QED
    BY <1>7, <2>4
<1>9. \A v \in Fold!WorkerIds :
        claim'[v] # Fold!NoRange => claim'[v].start < claim'[v].end /\ slot'[v] = << >>
  BY <1>3, <1>4, <1>5
<1>10. Fold!EachItemOnce'
  BY <1>2, <1>3 DEF Fold!EachItemOnce
<1>11. Parts(Mine, NumThreads, unclaimed)'
  BY <1>1, <1>8 DEF Parts
<1>12. unclaimed' \in 0 .. items' /\ items' \in Nat
  BY <1>1, <1>2, <1>3
<1>13. QED
  BY <1>5, <1>9, <1>10, <1>11, <1>12 DEF FoldInv

\* What goes back into the slot is the part of the worker.
LEMMA PutKeeps ==
    ASSUME FoldInv, NEW w \in Fold!WorkerIds, Fold!PutSlot(w)
    PROVE  FoldInv'
<1> DEFINE all == partial[w] \o Fold!ItemsOf(claim[w])
<1>1. /\ claim[w] # Fold!NoRange
      /\ items' = items /\ unclaimed' = unclaimed /\ result' = result /\ done' = done
      /\ slot' = [slot EXCEPT ![w] = all]
      /\ claim' = [claim EXCEPT ![w] = Fold!NoRange] /\ partial' = [partial EXCEPT ![w] = << >>]
  BY DEF Fold!PutSlot, Fold!SlotOf
<1>2. /\ items \in Nat /\ unclaimed \in 0 .. items
      /\ claim \in [Fold!WorkerIds -> [start : Nat, end : Nat]]
      /\ partial \in [Fold!WorkerIds -> Seq(Nat)] /\ slot \in [Fold!WorkerIds -> Seq(Nat)]
      /\ \A v \in Fold!WorkerIds :
          claim[v] # Fold!NoRange => claim[v].start < claim[v].end /\ slot[v] = << >>
      /\ Parts(Mine, NumThreads, unclaimed) /\ Fold!EachItemOnce
  BY DEF FoldInv
<1>3. Mine \in [Fold!WorkerIds -> Seq(Nat)] /\ Mine[w] = all
  BY <1>1, <1>2, MineIs DEF Mine
<1>4. all \in Seq(Nat)
  <2> HIDE DEF all, Mine
  <2>1. QED
    BY <1>3
<1> HIDE DEF all
<1>5. /\ claim'[w] = Fold!NoRange /\ slot'[w] = all
      /\ \A v \in Fold!WorkerIds : v # w => /\ claim'[v] = claim[v] /\ slot'[v] = slot[v]
                                            /\ partial'[v] = partial[v]
      /\ claim' \in [Fold!WorkerIds -> [start : Nat, end : Nat]]
      /\ partial' \in [Fold!WorkerIds -> Seq(Nat)] /\ slot' \in [Fold!WorkerIds -> Seq(Nat)]
  <2>1. << >> \in Seq(Nat) /\ Fold!NoRange \in [start : Nat, end : Nat]
    BY DEF Fold!NoRange
  <2>2. QED
    BY <1>1, <1>2, <1>4, <2>1
<1>6. Mine' = Mine
  <2>1. Mine' = [v \in Fold!WorkerIds |-> IF claim'[v] = Fold!NoRange THEN slot'[v]
                                          ELSE partial'[v] \o Fold!ItemsOf(claim'[v])]
    BY DEF Mine
  <2>2. Mine'[w] = Mine[w]
    BY <1>3, <1>5, <2>1
  <2>3. \A v \in Fold!WorkerIds : v # w => Mine'[v] = Mine[v]
    BY <1>5, <2>1 DEF Mine
  <2>4. Mine' = [v \in Fold!WorkerIds |-> Mine'[v]]
    BY <2>1
  <2>5. Mine = [v \in Fold!WorkerIds |-> Mine[v]]
    BY <1>3
  <2> HIDE DEF Mine
  <2>6. QED
    BY <2>2, <2>3, <2>4, <2>5
<1>7. Parts(Mine, NumThreads, unclaimed)'
  BY <1>1, <1>2, <1>6 DEF Parts
<1>8. Fold!EachItemOnce'
  BY <1>1, <1>2 DEF Fold!EachItemOnce
<1>9. \A v \in Fold!WorkerIds :
        claim'[v] # Fold!NoRange => claim'[v].start < claim'[v].end /\ slot'[v] = << >>
  BY <1>2, <1>5
<1>10. unclaimed' \in 0 .. items' /\ items' \in Nat
  BY <1>1, <1>2
<1>11. QED
  BY <1>5, <1>7, <1>8, <1>9, <1>10 DEF FoldInv

\* Once all is claimed and no worker folds, the slots hold everything.
LEMMA CombineKeeps ==
    ASSUME FoldInv, Fold!Combine
    PROVE  FoldInv'
<1> DEFINE seqs == [i \in 1 .. NumThreads |-> slot[i - 1]]
<1>1. /\ unclaimed = items /\ \A w \in Fold!WorkerIds : claim[w] = Fold!NoRange
      /\ result' = Fold!FlattenSeq(seqs)
      /\ items' = items /\ unclaimed' = unclaimed /\ claim' = claim /\ partial' = partial
      /\ slot' = slot
  BY DEF Fold!Combine
<1>2. /\ items \in Nat /\ slot \in [Fold!WorkerIds -> Seq(Nat)]
      /\ Parts(Mine, NumThreads, unclaimed)
  BY DEF FoldInv
<1>3. Mine = slot
  <2>1. Mine = [w \in Fold!WorkerIds |-> slot[w]]
    BY <1>1 DEF Mine
  <2>2. QED
    BY <1>2, <2>1
<1>4. seqs \in [1 .. NumThreads -> Seq(Nat)] /\ \A i \in 1 .. NumThreads : seqs[i] = slot[i - 1]
  <2>1. \A i \in 1 .. NumThreads : i - 1 \in Fold!WorkerIds
    BY Ids
  <2>2. QED
    BY <1>2, <2>1
<1> HIDE DEF seqs
<1>5. Len(seqs) = NumThreads /\ Len(seqs) # 0
  BY <1>4, Ids
<1>6. Fold!FlattenSeq(seqs) = (CHOOSE h : h = Joining(h, Len(seqs), seqs))[Len(seqs)]
  BY <1>5, Zenon DEF Fold!FlattenSeq, Joining
<1>7. Fold!FlattenSeq(seqs) = (CHOOSE h : h = Joining(h, NumThreads, seqs))[NumThreads]
  BY <1>5, <1>6, Zenon
<1>8. PICK f : IsJoin(f, NumThreads, Nat, seqs) /\ Fold!FlattenSeq(seqs) = f[NumThreads]
  <2>1. \E f : /\ IsJoin(f, NumThreads, Nat, seqs)
              /\ (CHOOSE h : h = Joining(h, NumThreads, seqs))[NumThreads] = f[NumThreads]
    <3>1. NumThreads \in Nat \ {0}
      BY Ids
    <3>2. QED
      BY <1>4, <3>1, Concatenated
  <2>2. QED
    BY <1>7, <2>1, Zenon
<1>9. /\ f[NumThreads] \in Seq(Nat) /\ Len(f[NumThreads]) = items
      /\ \A x : x \in Elements(f[NumThreads]) <=> x \in 0 .. items - 1
  <2>1. NumThreads \in Nat /\ slot \in [0 .. NumThreads - 1 -> Seq(Nat)]
        /\ Parts(slot, NumThreads, items)
    BY <1>1, <1>2, <1>3, Ids
  <2>2. QED
    BY <1>2, <1>4, <1>8, <2>1, WholeIs, ZenonT(60)
<1>10. Fold!ToSet(f[NumThreads]) = 0 .. items - 1
  <2>1. \A x : x \in Fold!ToSet(f[NumThreads]) <=> x \in Elements(f[NumThreads])
    BY <1>9 DEF Fold!ToSet, Elements
  <2>2. QED
    BY <1>9, <2>1
<1>11. Fold!EachItemOnce'
  BY <1>1, <1>8, <1>9, <1>10 DEF Fold!EachItemOnce
<1>12. Parts(Mine, NumThreads, unclaimed)'
  <2>1. Mine' = Mine
    BY <1>1 DEF Mine
  <2>2. QED
    BY <1>1, <1>2, <2>1 DEF Parts
<1>13. QED
  BY <1>1, <1>11, <1>12 DEF FoldInv

\* The invariant of both scenes: that of the fold, in the one that folds.
THEOREM FoldInvariant == MCSpec => [](scene = "fold" => FoldInv)
<1>1. MCInit => (scene = "fold" => FoldInv)
  BY FoldInit DEF MCInit
<1>2. (scene = "fold" => FoldInv) /\ [MCNext]_mcvars => (scene = "fold" => FoldInv)'
  <2> SUFFICES ASSUME scene = "fold" => FoldInv, [MCNext]_mcvars, scene' = "fold"
               PROVE  FoldInv'
    OBVIOUS
  <2>1. scene = "fold" /\ FoldInv
    BY DEF MCNext, mcvars
  <2>2. CASE Fold!Next
    BY <2>1, <2>2, TakeKeeps, PutKeeps, CombineKeeps DEF Fold!Next
  <2>3. CASE UNCHANGED foldVars
    BY <2>1, <2>3, ZenonT(60) DEF foldVars, FoldInv, Mine, Parts, Fold!EachItemOnce
  <2>4. QED
    BY <2>1, <2>2, <2>3 DEF MCNext, mcvars
<1>3. QED
  BY <1>1, <1>2, PTL DEF MCSpec

\* "map_reduce": for any number of workers and items, and however the claims fall, the
\* combined value holds every item once.
THEOREM EveryItemOnce == MCSpec => []EachItemOnce
<1>1. (scene = "fold" => FoldInv) => EachItemOnce
  BY DEF FoldInv, EachItemOnce
<1>2. QED
  BY <1>1, FoldInvariant, PTL

=============================================================================
