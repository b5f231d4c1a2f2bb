--------------------------- MODULE SignatureProofs ---------------------------
(***************************************************************************)
(* Proofs about MCSignatures: what is signed verifies, with XMSS and with  *)
(* SPHINCS, and so does what the signers cache returns, for all parameters.*)
(*                                                                         *)
(* The rest of a chain ends where the whole of it does, and a path leads   *)
(* from its leaf to the root (PathVerifies, WholePath); what is to be      *)
(* shown is that the path returned is one of the key's own tree. For XMSS  *)
(* that is XmssInv: the key keeps the nodes above the split, the cache     *)
(* holds a subtree of the key whichever call put it there, and a call that *)
(* has the cache's mutex reads the subtree of its own epoch, because       *)
(* another can replace it only after. For SPHINCS it is SecretOk: the kept *)
(* layer is that of the top tree, so rebuilding below and above it gives   *)
(* the nodes of the whole tree (CachedIs); then every layer signs the root *)
(* that the layer below leads to.                                          *)
(*                                                                         *)
(* That no tweak hashes two inputs is shown for all digests a key can have *)
(* (XmssDigests, SphincsDigests): each is hashed from others of them, no   *)
(* two have one tweak, and what is returned is of them, so whatever a      *)
(* signature was computed from is too (HashedOnce).                        *)
(*                                                                         *)
(* Whatever was written to the signers cache when, a unit of the file is   *)
(* what belongs in its place or a hole (Fits), for any number of processes *)
(* that fill, write and read it at once. So two halves that agree are the  *)
(* signer of that place, valid or stale, and what is read up to the first  *)
(* that does not verify is a prefix of the valid signers.                  *)
(*                                                                         *)
(* Assumed of the hashes: DigitsFit, OtsDigitsFit and IndicesFit, which    *)
(* hold of any digest, digits being masked and indices so many bits.       *)
(***************************************************************************)
EXTENDS MCSignatures, Induction, SequenceTheorems

-----------------------------------------------------------------------------
(* Hashing in a chain, and up a path.                                      *)

\* The recursion that Iterate is made of.
Hashing(value, pp, tweaks, start, n) ==
    [k \in 0 .. n |-> IF k = 0 THEN start ELSE TweakHashOf(pp, tweaks[k], <<value[k - 1]>>)]

\* There is such a recursion.
LEMMA HashingExists ==
    ASSUME NEW n \in Nat, NEW pp, NEW tweaks, NEW start
    PROVE  \E value : value = Hashing(value, pp, tweaks, start, n)
<1> DEFINE S == {m \in 0 .. n : \E value : value = Hashing(value, pp, tweaks, start, m)}
<1>1. 0 \in S
  <2> DEFINE v == [k \in 0 .. 0 |-> start]
  <2>1. v = [k \in 0 .. 0 |-> IF k = 0 THEN start ELSE TweakHashOf(pp, tweaks[k], <<v[k - 1]>>)]
    OBVIOUS
  <2> HIDE DEF v
  <2>2. v = Hashing(v, pp, tweaks, start, 0)
    BY <2>1 DEF Hashing
  <2>3. QED
    BY <2>2
<1>2. ASSUME NEW m \in 0 .. n - 1, m \in S
      PROVE  m + 1 \in S
  <2>1. PICK old : old = Hashing(old, pp, tweaks, start, m)
    BY <1>2
  <2> DEFINE v == [k \in 0 .. m + 1 |-> IF k <= m THEN old[k] ELSE TweakHashOf(pp, tweaks[k], <<old[m]>>)]
  <2>2. ASSUME NEW k \in 0 .. m + 1
        PROVE  v[k] = IF k = 0 THEN start ELSE TweakHashOf(pp, tweaks[k], <<v[k - 1]>>)
    <3>1. \A j \in 0 .. m : old[j] = IF j = 0 THEN start ELSE TweakHashOf(pp, tweaks[j], <<old[j - 1]>>)
      BY <2>1 DEF Hashing
    <3>2. CASE k <= m
      <4>1. k = 0 \/ k - 1 \in 0 .. m
        BY <3>2
      <4>2. QED
        <5> HIDE DEF v
        <5>1. \A j \in 0 .. m : v[j] = old[j]
          <6>1. \A j \in 0 .. m : j \in 0 .. m + 1 /\ j <= m
            OBVIOUS
          <6>2. QED
            BY <6>1 DEF v
        <5>2. k \in 0 .. m
          BY <3>2
        <5>3. v[k] = old[k] /\ (k # 0 => v[k - 1] = old[k - 1])
          BY <4>1, <5>1, <5>2
        <5>4. QED
          BY <3>1, <5>2, <5>3
    <3>3. CASE k = m + 1
      <4>1. k - 1 = m /\ m \in 0 .. m + 1 /\ k # 0 /\ ~(k <= m)
        BY <3>3
      <4>2. v[k - 1] = old[m]
        BY <4>1
      <4>3. QED
        BY <4>1, <4>2
    <3>4. QED
      BY <3>2, <3>3
  <2>3. v = [k \in 0 .. m + 1 |-> v[k]]
    OBVIOUS
  <2> HIDE DEF v
  <2>4. v = Hashing(v, pp, tweaks, start, m + 1)
    BY <2>2, <2>3 DEF Hashing
  <2>5. QED
    BY <2>4
<1>3. n \in S
  <2> HIDE DEF S
  <2>1. \A k \in 0 .. n : k \in S
    BY <1>1, <1>2, UpTo
  <2>2. QED
    BY <2>1
<1>4. QED
  BY <1>3

\* The values along a chain.
IsChain(value, pp, tweaks, start, n) ==
    /\ value[0] = start
    /\ \A k \in 1 .. n : value[k] = TweakHashOf(pp, tweaks[k], <<value[k - 1]>>)

\* Iterate hashes along the tweaks.
LEMMA IterateIs ==
    ASSUME NEW n \in Nat, NEW pp, NEW tweaks, Len(tweaks) = n, NEW start, NEW value,
           IsChain(value, pp, tweaks, start, n)
    PROVE  Iterate(pp, tweaks, start) = value[n]
<1> DEFINE h == CHOOSE h : h = Hashing(h, pp, tweaks, start, n)
<1>1. h = Hashing(h, pp, tweaks, start, n)
  BY HashingExists
<1>2. Iterate(pp, tweaks, start) = h[n]
  BY Zenon DEF Iterate, Hashing
<1>3. \A k \in 0 .. n : h[k] = IF k = 0 THEN start ELSE TweakHashOf(pp, tweaks[k], <<h[k - 1]>>)
  <2> HIDE DEF h
  <2>1. QED
    BY <1>1 DEF Hashing
<1> HIDE DEF h
<1> DEFINE S == {k \in 0 .. n : h[k] = value[k]}
<1> USE DEF IsChain
<1>4. 0 \in S
  <2>1. 0 \in 0 .. n
    OBVIOUS
  <2>2. h[0] = IF 0 = 0 THEN start ELSE TweakHashOf(pp, tweaks[0], <<h[0 - 1]>>)
    BY <1>3, <2>1, Zenon
  <2>3. QED
    BY <2>1, <2>2
<1>5. ASSUME NEW k \in 0 .. n - 1, k \in S
      PROVE  k + 1 \in S
  <2>1. k + 1 \in 1 .. n /\ k + 1 \in 0 .. n /\ (k + 1) - 1 = k /\ k + 1 # 0
    OBVIOUS
  <2>2. QED
    BY <1>3, <1>5, <2>1
<1>6. n \in S
  <2> HIDE DEF S
  <2>1. \A k \in 0 .. n : k \in S
    BY <1>4, <1>5, UpTo
  <2>2. QED
    BY <2>1
<1>7. QED
  BY <1>2, <1>6

\* What is hashed at a level: the sibling goes on the other side.
Pair(index, path, level, current) ==
    IF (index \div 2 ^ (level - 1)) % 2 = 0 THEN <<current, path[level]>> ELSE <<path[level], current>>

\* The recursion that FoldPath is made of.
Climbing(value, pp, tweaks, leaf, index, path, n) ==
    [k \in 0 .. n |-> IF k = 0 THEN leaf ELSE TweakHashOf(pp, tweaks[k], Pair(index, path, k, value[k - 1]))]

\* There is such a walk.
LEMMA ClimbingExists ==
    ASSUME NEW n \in Nat, NEW pp, NEW tweaks, NEW leaf, NEW index, NEW path
    PROVE  \E value : value = Climbing(value, pp, tweaks, leaf, index, path, n)
<1> DEFINE S == {m \in 0 .. n : \E value : value = Climbing(value, pp, tweaks, leaf, index, path, m)}
<1>1. 0 \in S
  <2> DEFINE v == [k \in 0 .. 0 |-> leaf]
  <2>1. v = [k \in 0 .. 0 |-> IF k = 0 THEN leaf ELSE TweakHashOf(pp, tweaks[k], Pair(index, path, k, v[k - 1]))]
    OBVIOUS
  <2> HIDE DEF v
  <2>2. v = Climbing(v, pp, tweaks, leaf, index, path, 0)
    BY <2>1 DEF Climbing
  <2>3. QED
    BY <2>2
<1>2. ASSUME NEW m \in 0 .. n - 1, m \in S
      PROVE  m + 1 \in S
  <2>1. PICK old : old = Climbing(old, pp, tweaks, leaf, index, path, m)
    BY <1>2
  <2> DEFINE v == [k \in 0 .. m + 1 |-> IF k <= m THEN old[k] ELSE TweakHashOf(pp, tweaks[k], Pair(index, path, k, old[m]))]
  <2>2. ASSUME NEW k \in 0 .. m + 1
        PROVE  v[k] = IF k = 0 THEN leaf ELSE TweakHashOf(pp, tweaks[k], Pair(index, path, k, v[k - 1]))
    <3>1. \A j \in 0 .. m : old[j] = IF j = 0 THEN leaf ELSE TweakHashOf(pp, tweaks[j], Pair(index, path, j, old[j - 1]))
      BY <2>1 DEF Climbing
    <3>2. CASE k <= m
      <4>1. k = 0 \/ k - 1 \in 0 .. m
        BY <3>2
      <4>2. QED
        <5> HIDE DEF v
        <5>1. \A j \in 0 .. m : v[j] = old[j]
          <6>1. \A j \in 0 .. m : j \in 0 .. m + 1 /\ j <= m
            OBVIOUS
          <6>2. QED
            BY <6>1 DEF v
        <5>2. k \in 0 .. m
          BY <3>2
        <5>3. v[k] = old[k] /\ (k # 0 => v[k - 1] = old[k - 1])
          BY <4>1, <5>1, <5>2
        <5>4. QED
          BY <3>1, <5>2, <5>3
    <3>3. CASE k = m + 1
      <4>1. k - 1 = m /\ m \in 0 .. m + 1 /\ k # 0 /\ ~(k <= m)
        BY <3>3
      <4>2. v[k - 1] = old[m]
        BY <4>1
      <4>3. QED
        BY <4>1, <4>2
    <3>4. QED
      BY <3>2, <3>3
  <2>3. v = [k \in 0 .. m + 1 |-> v[k]]
    OBVIOUS
  <2> HIDE DEF v
  <2>4. v = Climbing(v, pp, tweaks, leaf, index, path, m + 1)
    BY <2>2, <2>3 DEF Climbing
  <2>5. QED
    BY <2>4
<1>3. n \in S
  <2> HIDE DEF S
  <2>1. \A k \in 0 .. n : k \in S
    BY <1>1, <1>2, UpTo
  <2>2. QED
    BY <2>1
<1>4. QED
  BY <1>3

\* The values along a path.
IsWalk(value, pp, tweaks, leaf, index, path, n) ==
    /\ value[0] = leaf
    /\ \A k \in 1 .. n : value[k] = TweakHashOf(pp, tweaks[k], Pair(index, path, k, value[k - 1]))

\* FoldPath hashes up to the top.
LEMMA FoldPathIs ==
    ASSUME NEW n \in Nat, NEW pp, NEW tweaks, NEW leaf, NEW index, NEW path, Len(path) = n, NEW value,
           IsWalk(value, pp, tweaks, leaf, index, path, n)
    PROVE  FoldPath(pp, tweaks, leaf, index, path) = value[n]
<1> DEFINE h == CHOOSE h : h = Climbing(h, pp, tweaks, leaf, index, path, n)
<1>1. h = Climbing(h, pp, tweaks, leaf, index, path, n)
  BY ClimbingExists
<1>2. FoldPath(pp, tweaks, leaf, index, path) = h[n]
  BY Zenon DEF FoldPath, Climbing, Pair
<1>3. \A k \in 0 .. n : h[k] = IF k = 0 THEN leaf ELSE TweakHashOf(pp, tweaks[k], Pair(index, path, k, h[k - 1]))
  <2> HIDE DEF h
  <2>1. QED
    BY <1>1 DEF Climbing
<1> HIDE DEF h
<1> DEFINE S == {k \in 0 .. n : h[k] = value[k]}
<1> USE DEF IsWalk
<1>4. 0 \in S
  <2>1. 0 \in 0 .. n
    OBVIOUS
  <2>2. h[0] = IF 0 = 0 THEN leaf ELSE TweakHashOf(pp, tweaks[0], Pair(index, path, 0, h[0 - 1]))
    BY <1>3, <2>1, Zenon
  <2>3. QED
    BY <2>1, <2>2
<1>5. ASSUME NEW k \in 0 .. n - 1, k \in S
      PROVE  k + 1 \in S
  <2>1. k + 1 \in 1 .. n /\ k + 1 \in 0 .. n /\ (k + 1) - 1 = k /\ k + 1 # 0
    OBVIOUS
  <2>2. QED
    BY <1>3, <1>5, <2>1
<1>6. n \in S
  <2> HIDE DEF S
  <2>1. \A k \in 0 .. n : k \in S
    BY <1>4, <1>5, UpTo
  <2>2. QED
    BY <2>1
<1>7. QED
  BY <1>2, <1>6

\* A chain can be walked in two parts.
LEMMA IterateTwice ==
    ASSUME NEW n \in Nat, NEW a \in 0 .. n, NEW pp, NEW tweaks, NEW first, NEW rest, NEW start,
           first = [k \in 1 .. a |-> tweaks[k]], rest = [k \in 1 .. n - a |-> tweaks[a + k]],
           Len(tweaks) = n
    PROVE  Iterate(pp, rest, Iterate(pp, first, start)) = Iterate(pp, tweaks, start)
<1>1. PICK value : value = Hashing(value, pp, tweaks, start, n)
  BY HashingExists
<1>2. \A k \in 0 .. n : value[k] = IF k = 0 THEN start ELSE TweakHashOf(pp, tweaks[k], <<value[k - 1]>>)
  BY <1>1 DEF Hashing
<1>3. value[0] = start
  <2>1. 0 \in 0 .. n
    OBVIOUS
  <2>2. value[0] = IF 0 = 0 THEN start ELSE TweakHashOf(pp, tweaks[0], <<value[0 - 1]>>)
    BY <1>2, <2>1, Zenon
  <2>3. QED
    BY <2>2
<1>4. \A k \in 1 .. n : value[k] = TweakHashOf(pp, tweaks[k], <<value[k - 1]>>)
  BY <1>2
<1>5. Iterate(pp, tweaks, start) = value[n]
  <2>1. IsChain(value, pp, tweaks, start, n)
    BY <1>3, <1>4 DEF IsChain
  <2>2. QED
    BY <2>1, IterateIs
<1>6. Iterate(pp, first, start) = value[a]
  <2>1. a \in Nat /\ Len(first) = a
    OBVIOUS
  <2>2. ASSUME NEW k \in 1 .. a
        PROVE  value[k] = TweakHashOf(pp, first[k], <<value[k - 1]>>)
    BY <1>4
  <2>3. IsChain(value, pp, first, start, a)
    BY <1>3, <2>2 DEF IsChain
  <2>4. QED
    BY <2>1, <2>3, IterateIs
<1>7. Iterate(pp, rest, value[a]) = value[n]
  <2> DEFINE v == [k \in 0 .. n - a |-> value[a + k]]
  <2>1. n - a \in Nat /\ Len(rest) = n - a
    OBVIOUS
  <2>2. v[0] = value[a] /\ v[n - a] = value[n]
    OBVIOUS
  <2>3. ASSUME NEW k \in 1 .. n - a
        PROVE  v[k] = TweakHashOf(pp, rest[k], <<v[k - 1]>>)
    <3>1. a + k \in 1 .. n /\ (a + k) - 1 = a + (k - 1) /\ k - 1 \in 0 .. n - a /\ k \in 0 .. n - a
      OBVIOUS
    <3>2. value[a + k] = TweakHashOf(pp, tweaks[a + k], <<value[a + (k - 1)]>>)
      BY <1>4, <3>1
    <3>3. v[k] = value[a + k] /\ v[k - 1] = value[a + (k - 1)] /\ rest[k] = tweaks[a + k]
      BY <3>1
    <3>4. QED
      BY <3>2, <3>3
  <2> HIDE DEF v
  <2>4. IsChain(v, pp, rest, value[a], n - a)
    BY <2>2, <2>3 DEF IsChain
  <2>5. Iterate(pp, rest, value[a]) = v[n - a]
    BY <2>1, <2>4, IterateIs
  <2>6. QED
    BY <2>2, <2>5
<1>8. QED
  BY <1>5, <1>6, <1>7

-----------------------------------------------------------------------------
(* A tree over a range of epochs.                                          *)

\* The node c of a level, filled in at random outside of the range.
NodeIn(layers, seed, pp, first, last, level, c) ==
    IF c \in Shift(first, level) .. Shift(last, level)
    THEN layers[level][c] ELSE RandomNode(seed, pp, level, c)

\* A level of the layers above the bottom.
LayerOn(layers, seed, pp, first, last, level) ==
    [n \in Shift(first, level) .. Shift(last, level) |->
       MerkleNode(pp, level, n, NodeIn(layers, seed, pp, first, last, level - 1, 2 * n),
                                NodeIn(layers, seed, pp, first, last, level - 1, 2 * n + 1))]

\* The recursion that BuildUp is made of.
Building(layers, seed, pp, bottom, first, last, from, to) ==
    [level \in from .. to |->
       IF level = from THEN bottom ELSE LayerOn(layers, seed, pp, first, last, level)]

\* There is such a tree.
LEMMA BuildingExists ==
    ASSUME NEW from \in Nat, NEW n \in Nat, NEW seed, NEW pp, NEW bottom, NEW first, NEW last
    PROVE  \E layers : layers = Building(layers, seed, pp, bottom, first, last, from, from + n)
<1> DEFINE S == {m \in 0 .. n : \E layers : layers = Building(layers, seed, pp, bottom, first, last, from, from + m)}
<1>1. 0 \in S
  <2> DEFINE v == [level \in from .. from + 0 |-> bottom]
  <2>1. ASSUME NEW level \in from .. from + 0
        PROVE  level = from
    OBVIOUS
  <2>2. v = Building(v, seed, pp, bottom, first, last, from, from + 0)
    <3> HIDE DEF v
    <3>1. v = [level \in from .. from + 0 |-> IF level = from THEN bottom
                                              ELSE LayerOn(v, seed, pp, first, last, level)]
      BY <2>1 DEF v
    <3>2. QED
      BY <3>1 DEF Building
  <2> HIDE DEF v
  <2>3. QED
    BY <2>2
<1>2. ASSUME NEW m \in 0 .. n - 1, m \in S
      PROVE  m + 1 \in S
  <2> DEFINE top == from + m
  <2>1. PICK old : old = Building(old, seed, pp, bottom, first, last, from, top)
    BY <1>2
  <2>2. top \in Nat /\ from <= top /\ from + (m + 1) = top + 1
    OBVIOUS
  <2> HIDE DEF top
  <2> DEFINE v == [level \in from .. top + 1 |->
                     IF level <= top THEN old[level] ELSE LayerOn(old, seed, pp, first, last, level)]
  <2>3. \A level \in from .. top : v[level] = old[level]
    BY <2>2
  <2>4. v[top + 1] = LayerOn(old, seed, pp, first, last, top + 1)
    BY <2>2
  <2>5. DOMAIN v = from .. top + 1 /\ v = [level \in from .. top + 1 |-> v[level]]
    OBVIOUS
  <2> HIDE DEF v
  <2>6. ASSUME NEW level \in from + 1 .. top + 1
        PROVE  LayerOn(v, seed, pp, first, last, level) = LayerOn(old, seed, pp, first, last, level)
    <3>1. level - 1 \in from .. top
      BY <2>2
    <3>2. v[level - 1] = old[level - 1]
      BY <2>3, <3>1
    <3>3. QED
      BY <3>2 DEF LayerOn, NodeIn
  <2>7. ASSUME NEW level \in from .. top + 1
        PROVE  v[level] = IF level = from THEN bottom ELSE LayerOn(v, seed, pp, first, last, level)
    <3>1. \A l \in from .. top : old[l] = IF l = from THEN bottom ELSE LayerOn(old, seed, pp, first, last, l)
      BY <2>1 DEF Building
    <3>2. CASE level \in from .. top
      <4>1. level = from \/ level \in from + 1 .. top + 1
        BY <3>2
      <4>2. v[level] = IF level = from THEN bottom ELSE LayerOn(old, seed, pp, first, last, level)
        BY <2>3, <3>1, <3>2
      <4>3. QED
        BY <2>6, <4>1, <4>2
    <3>3. CASE level = top + 1
      <4>1. level # from /\ level \in from + 1 .. top + 1
        BY <2>2, <3>3
      <4>2. QED
        BY <2>4, <2>6, <3>3, <4>1
    <3>4. QED
      BY <2>2, <3>2, <3>3
  <2>8. v = Building(v, seed, pp, bottom, first, last, from, top + 1)
    BY <2>5, <2>7 DEF Building
  <2>9. QED
    BY <2>2, <2>8
<1>3. n \in S
  <2> HIDE DEF S
  <2>1. \A k \in 0 .. n : k \in S
    BY <1>1, <1>2, UpTo
  <2>2. QED
    BY <2>1
<1>4. QED
  BY <1>3

\* What a tree is, layer by layer.
IsTree(layers, seed, pp, bottom, first, last, from, to) ==
    /\ layers[from] = bottom
    /\ \A level \in from + 1 .. to : layers[level] = LayerOn(layers, seed, pp, first, last, level)

\* BuildUp makes a tree.
LEMMA BuildUpIs ==
    ASSUME NEW from \in Nat, NEW to \in Nat, from <= to, NEW seed, NEW pp, NEW bottom, NEW first, NEW last
    PROVE  IsTree(BuildUp(seed, pp, bottom, first, last, from, to), seed, pp, bottom, first, last, from, to)
<1> DEFINE h == CHOOSE h : h = Building(h, seed, pp, bottom, first, last, from, to)
<1>1. h = Building(h, seed, pp, bottom, first, last, from, to)
  <2> DEFINE n == to - from
  <2>1. n \in Nat /\ from + n = to
    OBVIOUS
  <2>2. \E layers : layers = Building(layers, seed, pp, bottom, first, last, from, from + n)
    <3> HIDE DEF n
    <3>1. QED
      BY <2>1, BuildingExists
  <2>3. \E layers : layers = Building(layers, seed, pp, bottom, first, last, from, to)
    BY <2>1, <2>2
  <2>4. QED
    BY <2>3
<1>2. BuildUp(seed, pp, bottom, first, last, from, to) = h
  BY Zenon DEF BuildUp, Building, LayerOn, NodeIn
<1> HIDE DEF h
<1>3. h = [level \in from .. to |->
             IF level = from THEN bottom ELSE LayerOn(h, seed, pp, first, last, level)]
  BY <1>1 DEF Building
<1>4. h[from] = bottom
  <2>1. from \in from .. to
    OBVIOUS
  <2>2. QED
    BY <1>3, <2>1
<1>5. ASSUME NEW level \in from + 1 .. to
      PROVE  h[level] = LayerOn(h, seed, pp, first, last, level)
  <2>1. level \in from .. to /\ level # from
    OBVIOUS
  <2>2. QED
    BY <1>3, <2>1
<1>6. QED
  BY <1>2, <1>4, <1>5 DEF IsTree

\* The sibling of a node.
Neighbour(n) == IF n % 2 = 0 THEN n + 1 ELSE n - 1

\* A node and its neighbour are the children of a node.
LEMMA Family ==
    ASSUME NEW n \in Nat
    PROVE  /\ n % 2 = 0 => n = 2 * (n \div 2) /\ Neighbour(n) = 2 * (n \div 2) + 1
           /\ n % 2 # 0 => n = 2 * (n \div 2) + 1 /\ Neighbour(n) = 2 * (n \div 2)
BY DEF Neighbour

\* Shifting.
LEMMA Shifted ==
    ASSUME NEW e \in Nat, NEW level \in Nat \ {0}
    PROVE  /\ Shift(e, level) = Shift(e, level - 1) \div 2
           /\ Shift(e, level) \in Nat /\ Shift(e, level - 1) \in Nat
<1>1. level - 1 \in Nat /\ (level - 1) + 1 = level
  OBVIOUS
<1>2. /\ (e \div 2 ^ (level - 1)) \div 2 = e \div 2 ^ level
      /\ e \div 2 ^ (level - 1) \in Nat /\ e \div 2 ^ level \in Nat
  <2> DEFINE l == level - 1
  <2>1. l \in Nat /\ l + 1 = level
    BY <1>1
  <2> HIDE DEF l
  <2>2. (e \div 2 ^ l) \div 2 = e \div 2 ^ (l + 1) /\ e \div 2 ^ l \in Nat
    BY <2>1, Halving
  <2>3. e \div 2 ^ level \in Nat
    BY Halving
  <2>4. QED
    BY <2>1, <2>2, <2>3 DEF l
<1>3. QED
  BY <1>2 DEF Shift

\* What is in a range is in it on every level.
LEMMA InRange ==
    ASSUME NEW first \in Nat, NEW last \in Nat, NEW e \in first .. last, NEW level \in Nat
    PROVE  Shift(e, level) \in Shift(first, level) .. Shift(last, level)
<1> DEFINE w == 2 ^ level
<1>1. w \in Nat \ {0}
  BY Halving
<1>2. e \in Nat /\ first <= e /\ e <= last
  OBVIOUS
<1> HIDE DEF w
<1>3. first \div w <= e \div w /\ e \div w <= last \div w
  BY <1>1, <1>2, DivisionOrdered
<1>4. first \div w \in Nat /\ e \div w \in Nat /\ last \div w \in Nat
  BY <1>1, <1>2
<1>5. e \div w \in first \div w .. last \div w
  BY <1>3, <1>4
<1>6. QED
  BY <1>5 DEF Shift, w

\* What a node on the way is hashed from.
InOrder(e, level, current, sibling) ==
    IF Shift(e, level) % 2 = 0 THEN <<current, sibling>> ELSE <<sibling, current>>

\* A node on the way of an epoch is the hash of the one before and its sibling.
LEMMA WayUp ==
    ASSUME NEW layers, NEW seed, NEW pp, NEW bottom, NEW first \in Nat, NEW last \in Nat,
           NEW from \in Nat, NEW to \in Nat, NEW e \in first .. last, NEW level \in from + 1 .. to,
           IsTree(layers, seed, pp, bottom, first, last, from, to)
    PROVE  layers[level][Shift(e, level)] =
             TweakHashOf(pp, MerkleTweak(level, Shift(e, level)),
               InOrder(e, level - 1, layers[level - 1][Shift(e, level - 1)],
                        NodeIn(layers, seed, pp, first, last, level - 1, Neighbour(Shift(e, level - 1)))))
<1> DEFINE n == Shift(e, level)
           m == Shift(e, level - 1)
           child(c) == NodeIn(layers, seed, pp, first, last, level - 1, c)
<1>1. level \in Nat \ {0} /\ level - 1 \in Nat /\ e \in Nat
  OBVIOUS
<1>2. n = m \div 2 /\ n \in Nat /\ m \in Nat
  BY <1>1, Shifted
<1>3. n \in Shift(first, level) .. Shift(last, level)
  BY <1>1, InRange
<1>4. m \in Shift(first, level - 1) .. Shift(last, level - 1)
  BY <1>1, InRange
<1>5. layers[level] = LayerOn(layers, seed, pp, first, last, level)
  BY DEF IsTree
<1>6. layers[level][n] = MerkleNode(pp, level, n, child(2 * n), child(2 * n + 1))
  BY <1>3, <1>5 DEF LayerOn
<1>7. child(m) = layers[level - 1][m]
  BY <1>4 DEF NodeIn
<1> HIDE DEF n, m, child
<1>8. <<child(2 * n), child(2 * n + 1)>> = IF m % 2 = 0 THEN <<child(m), child(Neighbour(m))>>
                                         ELSE <<child(Neighbour(m)), child(m)>>
  <2>1. CASE m % 2 = 0
    <3>1. m = 2 * n /\ Neighbour(m) = 2 * n + 1
      BY <1>2, <2>1, Family
    <3>2. QED
      BY <2>1, <3>1
  <2>2. CASE m % 2 # 0
    <3>1. m = 2 * n + 1 /\ Neighbour(m) = 2 * n
      BY <1>2, <2>2, Family
    <3>2. QED
      BY <2>2, <3>1
  <2>3. QED
    BY <2>1, <2>2
<1>9. layers[level][n] = TweakHashOf(pp, MerkleTweak(level, n), InOrder(e, level - 1, child(m), child(Neighbour(m))))
  BY <1>6, <1>8, Zenon DEF MerkleNode, InOrder, m
<1>10. QED
  BY <1>7, <1>9 DEF n, m, child

-----------------------------------------------------------------------------
(* The key. *)

\* The subtree with an index.
SubtreeOf(k, index) == BuildSubtree(k.seed, k.param, SubtreeBounds(k.first, k.last, k.split, index), k.split)

\* The nodes at the split.
SplitNodes(k) == [i \in Shift(k.first, k.split) .. Shift(k.last, k.split) |-> SubtreeOf(k, i)[k.split][i]]

\* What a key is.
KeyOk(k) ==
    /\ k.made = TRUE /\ k.first \in Nat /\ k.last \in Nat /\ k.first <= k.last /\ k.last < 2 ^ LogLifetime
    /\ k.split \in 0 .. LogLifetime
    /\ IsTree(k.top, k.seed, k.param, SplitNodes(k), k.first, k.last, k.split, LogLifetime)

\* The node of an epoch on a level.
NodeOf(k, e, level) ==
    IF level <= k.split THEN SubtreeOf(k, Shift(e, k.split))[level][Shift(e, level)]
    ELSE k.top[level][Shift(e, level)]

\* A node of the level, read from the subtree of an index or from the top.
ReadFrom(k, index, level, c) ==
    LET b == SubtreeBounds(k.first, k.last, k.split, index)
    IN  IF level >= k.split THEN NodeIn(k.top, k.seed, k.param, k.first, k.last, level, c)
        ELSE NodeIn(SubtreeOf(k, index), k.seed, k.param, b.first, b.last, level, c)

\* The sibling of that node, of the subtree of the epoch or of the top.
SiblingOf(k, e, level) == ReadFrom(k, Shift(e, k.split), level, Neighbour(Shift(e, level)))

\* The bounds of the subtree of an epoch hold it.
LEMMA BoundsHold ==
    ASSUME NEW first \in Nat, NEW last \in Nat, NEW e \in first .. last, NEW split \in Nat, NEW b,
           b = SubtreeBounds(first, last, split, Shift(e, split))
    PROVE  b.first \in Nat /\ b.last \in Nat /\ e \in b.first .. b.last
<1> DEFINE w == 2 ^ split
           i == e \div w
<1>1. w \in Nat \ {0} /\ e \in Nat
  BY Halving
<1>2. b = [first |-> IF first > i * w THEN first ELSE i * w,
           last |-> IF last < (i + 1) * w - 1 THEN last ELSE (i + 1) * w - 1]
  BY DEF SubtreeBounds, Shift
<1> HIDE DEF w
<1>3. i \in Nat /\ i * w \in Nat /\ i * w <= e /\ e < i * w + w
  BY <1>1
<1> HIDE DEF i
<1>4. (i + 1) * w = i * w + w
  BY <1>1, <1>3
<1> DEFINE x == i * w
           y == (i + 1) * w
<1>5. x \in Nat /\ y = x + w /\ x <= e /\ e <= y - 1
  BY <1>1, <1>3, <1>4
<1>6. b = [first |-> IF first > x THEN first ELSE x, last |-> IF last < y - 1 THEN last ELSE y - 1]
  BY <1>2
<1> HIDE DEF x, y
<1>7. QED
  BY <1>1, <1>5, <1>6

\* A subtree is a tree.
LEMMA SubtreeIs ==
    ASSUME NEW k, KeyOk(k), NEW e \in k.first .. k.last, NEW b,
           b = SubtreeBounds(k.first, k.last, k.split, Shift(e, k.split))
    PROVE  IsTree(SubtreeOf(k, Shift(e, k.split)), k.seed, k.param,
                  LeafLayer(k.seed, k.param, b.first, b.last), b.first, b.last, 0, k.split)
<1>1. 0 \in Nat /\ k.split \in Nat /\ 0 <= k.split
  BY DEF KeyOk
<1>2. IsTree(BuildUp(k.seed, k.param, LeafLayer(k.seed, k.param, b.first, b.last), b.first, b.last, 0, k.split),
             k.seed, k.param, LeafLayer(k.seed, k.param, b.first, b.last), b.first, b.last, 0, k.split)
  BY <1>1, BuildUpIs
<1>3. QED
  BY <1>2 DEF SubtreeOf, BuildSubtree

\* The node at the split is the same in the subtree and in the top.
LEMMA Seam ==
    ASSUME NEW k, KeyOk(k), NEW e \in k.first .. k.last
    PROVE  k.top[k.split][Shift(e, k.split)] = NodeOf(k, e, k.split)
<1>1. Shift(e, k.split) \in Shift(k.first, k.split) .. Shift(k.last, k.split)
  <2>1. k.first \in Nat /\ k.last \in Nat /\ k.split \in Nat
    BY DEF KeyOk
  <2>2. QED
    BY <2>1, InRange
<1>2. k.top[k.split] = SplitNodes(k)
  BY DEF KeyOk, IsTree
<1>3. k.split <= k.split
  BY DEF KeyOk
<1>4. QED
  BY <1>1, <1>2, <1>3 DEF SplitNodes, NodeOf

\* A node of an epoch is the hash of the one below it and its sibling.
LEMMA NodesLink ==
    ASSUME NEW k, KeyOk(k), NEW e \in k.first .. k.last, NEW level \in 1 .. LogLifetime
    PROVE  NodeOf(k, e, level) =
             TweakHashOf(k.param, MerkleTweak(level, Shift(e, level)),
               InOrder(e, level - 1, NodeOf(k, e, level - 1), SiblingOf(k, e, level - 1)))
<1> DEFINE b == SubtreeBounds(k.first, k.last, k.split, Shift(e, k.split))
           sub == SubtreeOf(k, Shift(e, k.split))
           n == Shift(e, level)
           m == Shift(e, level - 1)
<1>1. /\ k.first \in Nat /\ k.last \in Nat /\ k.split \in Nat /\ LogLifetime \in Nat /\ k.split <= LogLifetime
      /\ e \in Nat /\ level - 1 \in Nat
  BY XmssAssumption DEF KeyOk
<1>2. CASE level <= k.split
  <2>1. IsTree(sub, k.seed, k.param, LeafLayer(k.seed, k.param, b.first, b.last), b.first, b.last, 0, k.split)
    BY SubtreeIs
  <2>2. b.first \in Nat /\ b.last \in Nat /\ e \in b.first .. b.last
    BY <1>1, BoundsHold
  <2> HIDE DEF b, sub, n, m
  <2>3. level \in 0 + 1 .. k.split /\ 0 \in Nat
    BY <1>1, <1>2
  <2>4. sub[level][Shift(e, level)] =
             TweakHashOf(k.param, MerkleTweak(level, Shift(e, level)),
               InOrder(e, level - 1, sub[level - 1][Shift(e, level - 1)],
                        NodeIn(sub, k.seed, k.param, b.first, b.last, level - 1, Neighbour(Shift(e, level - 1)))))
    BY <1>1, <2>1, <2>2, <2>3, WayUp
  <2>5. level - 1 <= k.split /\ ~(level - 1 >= k.split)
    BY <1>1, <1>2
  <2>6. NodeOf(k, e, level) = sub[level][Shift(e, level)] /\ NodeOf(k, e, level - 1) = sub[level - 1][Shift(e, level - 1)]
    BY <1>2, <2>5 DEF NodeOf, sub
  <2>7. SiblingOf(k, e, level - 1) = NodeIn(sub, k.seed, k.param, b.first, b.last, level - 1, Neighbour(Shift(e, level - 1)))
    BY <2>5 DEF SiblingOf, ReadFrom, sub, b
  <2>8. QED
    BY <2>4, <2>6, <2>7
<1>3. CASE ~(level <= k.split)
  <2>1. IsTree(k.top, k.seed, k.param, SplitNodes(k), k.first, k.last, k.split, LogLifetime)
    BY DEF KeyOk
  <2>2. level \in k.split + 1 .. LogLifetime
    BY <1>1, <1>3
  <2>3. k.top[level][Shift(e, level)] =
             TweakHashOf(k.param, MerkleTweak(level, Shift(e, level)),
               InOrder(e, level - 1, k.top[level - 1][Shift(e, level - 1)],
                        NodeIn(k.top, k.seed, k.param, k.first, k.last, level - 1, Neighbour(Shift(e, level - 1)))))
    BY <1>1, <2>1, <2>2, WayUp
  <2>4. level - 1 >= k.split
    BY <1>1, <1>3
  <2>5. k.top[level - 1][Shift(e, level - 1)] = NodeOf(k, e, level - 1)
    <3>1. CASE level - 1 = k.split
      BY <3>1, Seam
    <3>2. CASE level - 1 # k.split
      <4>1. ~(level - 1 <= k.split)
        BY <1>1, <2>4, <3>2
      <4>2. QED
        BY <4>1 DEF NodeOf
    <3>3. QED
      BY <3>1, <3>2
  <2>6. SiblingOf(k, e, level - 1) =
          NodeIn(k.top, k.seed, k.param, k.first, k.last, level - 1, Neighbour(Shift(e, level - 1)))
    BY <2>4 DEF SiblingOf, ReadFrom
  <2>7. QED
    BY <1>3, <2>3, <2>5, <2>6 DEF NodeOf
<1>4. QED
  BY <1>2, <1>3

\* The digits of a digest are those of a codeword, or there are none: what the code
\* takes out of its words by masks.
DigitsFit == \A d : DigitsOf(d) = << >> \/ DigitsOf(d) \in [1 .. Chains -> 0 .. ChainLength - 1]

\* The first n siblings on the way of an epoch.
Siblings(k, e, n) == [i \in 1 .. n |-> SiblingOf(k, e, i - 1)]

\* The next one comes at the end.
LEMMA SiblingsGrow ==
    ASSUME NEW k, NEW e, NEW n \in Nat
    PROVE  /\ Len(Siblings(k, e, n)) = n
           /\ Append(Siblings(k, e, n), SiblingOf(k, e, n)) = Siblings(k, e, n + 1)
           /\ << >> = Siblings(k, e, 0)
<1> DEFINE f == [i \in 0 .. n |-> SiblingOf(k, e, i)]
           S == {f[i] : i \in 0 .. n}
           s == [i \in 1 .. n |-> f[i - 1]]
<1>1. \A i \in 1 .. n : i - 1 \in 0 .. n
  OBVIOUS
<1>2. s = Siblings(k, e, n)
  BY <1>1 DEF Siblings
<1>3. Siblings(k, e, n + 1) = [i \in 1 .. n + 1 |-> f[i - 1]]
  <2>1. \A i \in 1 .. n + 1 : i - 1 \in 0 .. n
    OBVIOUS
  <2>2. QED
    BY <2>1 DEF Siblings
<1>4. f[n] = SiblingOf(k, e, n) /\ n \in 0 .. n
  OBVIOUS
<1> HIDE DEF f
<1>5. \A i \in 0 .. n : f[i] \in S
  OBVIOUS
<1> HIDE DEF S
<1>6. s \in Seq(S) /\ Len(s) = n /\ \A i \in 1 .. n : s[i] = f[i - 1]
  BY <1>1, <1>5
<1> HIDE DEF s
<1>7. Append(s, f[n]) = [i \in 1 .. n + 1 |-> f[i - 1]]
  <2> DEFINE a == Append(s, f[n])
  <2>1. f[n] \in S
    BY <1>4, <1>5
  <2>2. a \in Seq(S) /\ Len(a) = n + 1 /\ (\A i \in 1 .. n : a[i] = s[i]) /\ a[n + 1] = f[n]
    BY <1>6, <2>1, AppendProperties
  <2> HIDE DEF a
  <2>3. ASSUME NEW i \in 1 .. n + 1
        PROVE  a[i] = f[i - 1]
    <3>1. i \in 1 .. n \/ i = n + 1
      OBVIOUS
    <3>2. n + 1 - 1 = n
      OBVIOUS
    <3>3. QED
      BY <1>6, <2>2, <3>1, <3>2
  <2>4. a = [i \in 1 .. n + 1 |-> a[i]]
    BY <2>2
  <2>5. a = [i \in 1 .. n + 1 |-> f[i - 1]]
    BY <2>3, <2>4
  <2>6. QED
    BY <2>5 DEF a
<1>8. << >> = Siblings(k, e, 0)
  BY DEF Siblings
<1>9. QED
  BY <1>2, <1>3, <1>4, <1>6, <1>7, <1>8

\* The path of an epoch leads to the root.
LEMMA PathVerifies ==
    ASSUME NEW k, KeyOk(k), NEW e \in k.first .. k.last, NEW proof,
           proof = Siblings(k, e, LogLifetime)
    PROVE  FoldPath(k.param, [level \in 1 .. Len(proof) |-> MerkleTweak(level, Shift(e, level))],
                    NodeOf(k, e, 0), e, proof) = k.top[LogLifetime][0]
<1> DEFINE n == LogLifetime
           tweaks == [level \in 1 .. Len(proof) |-> MerkleTweak(level, Shift(e, level))]
           value == [level \in 0 .. n |-> NodeOf(k, e, level)]
<1>1. n \in Nat /\ Len(proof) = n /\ e \in Nat /\ e < 2 ^ n /\ k.split \in 0 .. n
  <2>1. LogLifetime \in Nat
    BY XmssAssumption
  <2>2. 2 ^ LogLifetime \in Nat
    BY <2>1, Halving
  <2>3. Len(proof) = n
    BY <2>1, SiblingsGrow
  <2>4. QED
    BY <2>1, <2>2, <2>3 DEF KeyOk
<1>2. ASSUME NEW level \in 1 .. n
      PROVE  value[level] = TweakHashOf(k.param, tweaks[level], Pair(e, proof, level, value[level - 1]))
  <2>1. NodeOf(k, e, level) =
             TweakHashOf(k.param, MerkleTweak(level, Shift(e, level)),
               InOrder(e, level - 1, NodeOf(k, e, level - 1), SiblingOf(k, e, level - 1)))
    BY NodesLink
  <2>2. level \in 0 .. n /\ level - 1 \in 0 .. n
    BY <1>1
  <2>3. value[level] = NodeOf(k, e, level) /\ value[level - 1] = NodeOf(k, e, level - 1)
    BY <2>2
  <2>4. tweaks[level] = MerkleTweak(level, Shift(e, level))
    BY <1>1
  <2>5. proof[level] = SiblingOf(k, e, level - 1)
    BY DEF Siblings
  <2> HIDE DEF value, tweaks
  <2>6. QED
    BY <2>1, <2>3, <2>4, <2>5 DEF InOrder, Pair, Shift
<1>3. value[0] = NodeOf(k, e, 0) /\ value[n] = NodeOf(k, e, n)
  BY <1>1
<1>4. FoldPath(k.param, tweaks, NodeOf(k, e, 0), e, proof) = value[n]
  <2> HIDE DEF value, tweaks, n
  <2>1. IsWalk(value, k.param, tweaks, NodeOf(k, e, 0), e, proof, n)
    BY <1>2, <1>3 DEF IsWalk
  <2>2. QED
    BY <1>1, <2>1, FoldPathIs
<1>5. Shift(e, n) = 0
  <2> DEFINE w == 2 ^ n
  <2>1. w \in Nat \ {0} /\ e < w
    BY <1>1, Halving
  <2> HIDE DEF w
  <2>2. e \div w = 0
    BY <1>1, <2>1
  <2>3. QED
    BY <2>2 DEF Shift, w
<1>6. NodeOf(k, e, n) = k.top[n][0]
  <2>1. CASE k.split = n
    BY <1>5, <2>1, Seam
  <2>2. CASE k.split # n
    <3>1. ~(n <= k.split)
      BY <1>1, <2>2
    <3>2. QED
      BY <1>5, <3>1 DEF NodeOf
  <2>3. QED
    BY <2>1, <2>2
<1>7. QED
  BY <1>3, <1>4, <1>6

\* The leaf of an epoch is the hash of its one-time key.
LEMMA LeafIs ==
    ASSUME NEW k, KeyOk(k), NEW e \in k.first .. k.last
    PROVE  NodeOf(k, e, 0) = WotsHash(WotsPublicKey(k.seed, k.param, e), k.param, e)
<1> DEFINE b == SubtreeBounds(k.first, k.last, k.split, Shift(e, k.split))
           sub == SubtreeOf(k, Shift(e, k.split))
<1>1. k.first \in Nat /\ k.last \in Nat /\ k.split \in Nat /\ e \in Nat /\ 0 <= k.split
  BY DEF KeyOk
<1>2. sub[0] = LeafLayer(k.seed, k.param, b.first, b.last)
  BY SubtreeIs DEF IsTree
<1>3. e \in b.first .. b.last
  BY <1>1, BoundsHold
<1>4. Shift(e, 0) = e
  BY <1>1, Halving DEF Shift
<1>5. NodeOf(k, e, 0) = sub[0][e]
  BY <1>1, <1>4 DEF NodeOf
<1> HIDE DEF b, sub
<1>6. QED
  BY <1>2, <1>3, <1>5 DEF LeafLayer

-----------------------------------------------------------------------------
(* One-time signatures. *)

\* The rest of a chain leads to its end.
LEMMA RestOfChain ==
    ASSUME NEW a \in 0 .. ChainLength - 1, NEW start, NEW pp, NEW e, NEW i
    PROVE  IterateHash(IterateHash(start, a, pp, e, i, 0), ChainLength - 1 - a, pp, e, i, a)
             = IterateHash(start, ChainLength - 1, pp, e, i, 0)
<1> DEFINE n == ChainLength - 1
           tweaks == [k \in 1 .. n |-> ChainTweak(e, i, 0 + k - 1)]
           first == [k \in 1 .. a |-> ChainTweak(e, i, 0 + k - 1)]
           rest == [k \in 1 .. n - a |-> ChainTweak(e, i, a + k - 1)]
<1>1. n \in Nat /\ a \in 0 .. n /\ Len(tweaks) = n
  BY XmssAssumption
<1>2. first = [k \in 1 .. a |-> tweaks[k]]
  <2>1. \A k \in 1 .. a : k \in 1 .. n
    BY <1>1
  <2>2. QED
    BY <2>1
<1>3. rest = [k \in 1 .. n - a |-> tweaks[a + k]]
  <2>1. \A k \in 1 .. n - a : a + k \in 1 .. n /\ 0 + (a + k) - 1 = a + k - 1
    BY <1>1
  <2>2. QED
    BY <2>1
<1>4. Iterate(pp, rest, Iterate(pp, first, start)) = Iterate(pp, tweaks, start)
  <2> HIDE DEF n, tweaks, first, rest
  <2>1. QED
    BY <1>1, <1>2, <1>3, IterateTwice
<1>5. QED
  BY <1>4 DEF IterateHash

\* A signature recovers the one-time key.
LEMMA Recovers ==
    ASSUME NEW seed, NEW pp, NEW message, NEW e, NEW randomness, DigitsFit, NEW code,
           code = WotsEncode(message, e, pp, randomness), code # << >>
    PROVE  RecoverPublicKey(WotsSign(seed, pp, message, e, randomness), code, pp, e)
             = WotsPublicKey(seed, pp, e)
<1> DEFINE d == DigitsOf(Tweaked(pp, "ENCODING", 0, e, <<message, randomness>>))
           w == WotsSign(seed, pp, message, e, randomness)
<1>1. code = d
  BY DEF WotsEncode, CodewordOf
<1>2. d = << >> \/ d \in [1 .. Chains -> 0 .. ChainLength - 1]
  BY Zenon DEF DigitsFit
<1> HIDE DEF d
<1>3. code \in [1 .. Chains -> 0 .. ChainLength - 1]
  BY <1>1, <1>2
<1>4. w.tips = [i \in 1 .. Chains |-> IterateHash(WotsSecret(seed, pp, e, i), code[i], pp, e, i, 0)]
  BY DEF WotsSign
<1> HIDE DEF w
<1>5. ASSUME NEW i \in 1 .. Chains
      PROVE  IterateHash(w.tips[i], ChainLength - 1 - code[i], pp, e, i, code[i])
               = IterateHash(WotsSecret(seed, pp, e, i), ChainLength - 1, pp, e, i, 0)
  <2>1. code[i] \in 0 .. ChainLength - 1
    BY <1>3
  <2>2. w.tips[i] = IterateHash(WotsSecret(seed, pp, e, i), code[i], pp, e, i, 0)
    BY <1>4
  <2>3. QED
    BY <2>1, <2>2, RestOfChain
<1>6. RecoverPublicKey(w, code, pp, e) = WotsPublicKey(seed, pp, e)
  BY <1>5 DEF RecoverPublicKey, WotsPublicKey
<1>7. QED
  BY <1>6 DEF w

\* What is signed with the siblings of its epoch verifies.
LEMMA Verifies ==
    ASSUME NEW k, KeyOk(k), NEW e \in k.first .. k.last, NEW message, NEW randomness, DigitsFit,
           WotsEncode(message, e, k.param, randomness) # << >>, NEW s,
           s.wots = WotsSign(k.seed, k.param, message, e, randomness),
           s.proof = Siblings(k, e, LogLifetime)
    PROVE  XmssVerify(k.top[LogLifetime][0], k.param, message, s, e) = "ok"
<1> DEFINE code == WotsEncode(message, e, k.param, s.wots.randomness)
           proof == s.proof
           wots == s.wots
<1>1. wots.randomness = randomness
  BY DEF WotsSign
<1>2. code # << >>
  BY <1>1
<1>3. RecoverPublicKey(wots, code, k.param, e) = WotsPublicKey(k.seed, k.param, e)
  <2>1. code = WotsEncode(message, e, k.param, randomness)
    BY <1>1
  <2> HIDE DEF code, wots
  <2>2. wots = WotsSign(k.seed, k.param, message, e, randomness)
    BY DEF wots
  <2>3. QED
    BY <1>2, <2>1, <2>2, Recovers
<1>4. NodeOf(k, e, 0) = WotsHash(RecoverPublicKey(wots, code, k.param, e), k.param, e)
  BY <1>3, LeafIs
<1>5. FoldPath(k.param, [level \in 1 .. Len(proof) |-> MerkleTweak(level, Shift(e, level))],
               NodeOf(k, e, 0), e, proof) = k.top[LogLifetime][0]
  <2> HIDE DEF code, wots, proof
  <2>1. proof = Siblings(k, e, LogLifetime)
    BY DEF proof
  <2>2. QED
    BY <2>1, PathVerifies
<1>6. QED
  BY <1>2, <1>4, <1>5 DEF XmssVerify

-----------------------------------------------------------------------------
(* What a key, the cache and the calls under way have to do with one       *)
(* another.                                                                *)

\* A call to sign, with n siblings read; the randomness of a trial encodes.
Signing(k, at, message, e, trial, n) ==
    [at |-> at, for |-> "sign", message |-> message, epoch |-> e, proof |-> Siblings(k, e, n),
     wots |-> WotsSign(k.seed, k.param, message, e, Randomness(k.seed, k.param, message, e, trial))]
Encodes(k, message, e, trial) ==
    WotsEncode(message, e, k.param, Randomness(k.seed, k.param, message, e, trial)) # << >>

\* A call fits the key; one that reads holds the mutex, and the subtree is that of its epoch.
CallFits(k, c, h, t, w) ==
    \/ w = Idle
    \/ \E e \in k.first .. k.last : w = [at |-> "lock", for |-> "prepare", epoch |-> e]
    \/ \E e \in k.first .. k.last, message \in Messages, trial \in 0 .. MaxRandomizerTrials - 1 :
         /\ Encodes(k, message, e, trial)
         /\ \/ w = Signing(k, "lock", message, e, trial, 0)
            \/ /\ h = t /\ c.index = Shift(e, k.split)
               /\ \E n \in 0 .. LogLifetime : w = Signing(k, "read", message, e, trial, n)

\* What is cached is a subtree of the key.
CacheFits(k, c) == c = NoSubtree \/ \E i \in 0 .. 2 ^ LogLifetime : c = [index |-> i, layers |-> SubtreeOf(k, i)]

XmssInv ==
    /\ threads = [t \in Thread |-> threads[t]]
    /\ \/ key = NoKey /\ cache = NoSubtree /\ signed = {} /\ \A t \in Thread : threads[t] = Idle
       \/ /\ KeyOk(key) /\ CacheFits(key, cache)
          /\ \A t \in Thread : CallFits(key, cache, holder, t, threads[t])
    /\ SignaturesVerify

-----------------------------------------------------------------------------
\* No key is there at first.
LEMMA XmssInitHolds == XmssInit => XmssInv
BY DEF XmssInit, XmssInv, SignaturesVerify

\* A step of one thread.
LEMMA ThreadStep ==
    ASSUME XmssInv, KeyOk(key), UNCHANGED key, NEW t \in Thread, NEW w, threads' = [threads EXCEPT ![t] = w],
           CacheFits(key, cache'), CallFits(key, cache', holder', t, w),
           \A u \in Thread \ {t} : CallFits(key, cache', holder', u, threads[u]),
           SignaturesVerify'
    PROVE  XmssInv'
<1>1. threads' = [u \in Thread |-> threads'[u]]
  BY DEF XmssInv
<1>2. \A u \in Thread : threads'[u] = IF u = t THEN w ELSE threads[u]
  BY DEF XmssInv
<1>3. \A u \in Thread : CallFits(key, cache', holder', u, threads'[u])
  BY <1>2
<1>4. QED
  BY <1>1, <1>3 DEF XmssInv

\* One thread moves; nothing that is shared does.
LEMMA LonelyStep ==
    ASSUME XmssInv, KeyOk(key), UNCHANGED <<key, cache, holder, signed>>, NEW t \in Thread, NEW w,
           threads' = [threads EXCEPT ![t] = w], CallFits(key, cache, holder, t, w)
    PROVE  XmssInv'
<1>1. key # NoKey
  BY DEF KeyOk, NoKey
<1>2. SignaturesVerify'
  BY DEF XmssInv, SignaturesVerify, Root
<1>3. CacheFits(key, cache) /\ \A u \in Thread : CallFits(key, cache, holder, u, threads[u])
  BY <1>1 DEF XmssInv
<1>4. cache' = cache /\ holder' = holder /\ UNCHANGED key
  OBVIOUS
<1>5. CacheFits(key, cache')
  BY <1>3, <1>4
<1>6. CallFits(key, cache', holder', t, w)
  BY <1>4
<1>7. \A u \in Thread \ {t} : CallFits(key, cache', holder', u, threads[u])
  BY <1>3, <1>4
<1>8. QED
  BY <1>2, <1>4, <1>5, <1>6, <1>7, ThreadStep

\* What a key is made of.
LEMMA KeyIs ==
    ASSUME key # NoKey, XmssInv
    PROVE  /\ KeyOk(key) /\ CacheFits(key, cache)
           /\ \A t \in Thread : CallFits(key, cache, holder, t, threads[t])
BY DEF XmssInv

\* A key is made.
LEMMA KeyGenKeeps ==
    ASSUME XmssInv, NEW first \in Epochs, NEW last \in Epochs, KeyGen(first, last)
    PROVE  XmssInv'
<1> DEFINE pp == Param(Seed)
           split == (Log2CeilOf(last - first + 1) + 1) \div 2
           subtree(i) == BuildSubtree(Seed, pp, SubtreeBounds(first, last, split, i), split)
           roots == [i \in Shift(first, split) .. Shift(last, split) |-> subtree(i)[split][i]]
           top == BuildUp(Seed, pp, roots, first, last, split, LogLifetime)
<1>1. /\ key = NoKey /\ first <= last /\ UNCHANGED <<cache, holder, threads, calls, signed>>
      /\ key' = [made |-> TRUE, first |-> first, last |-> last, split |-> split, seed |-> Seed, param |-> pp,
                 top |-> top]
  BY DEF KeyGen
<1>2. LogLifetime \in Nat /\ 2 ^ LogLifetime \in Nat \ {0}
  BY XmssAssumption, Halving
<1>3. first \in Nat /\ last \in Nat /\ last < 2 ^ LogLifetime
  BY <1>2 DEF Epochs
<1>4. split \in 0 .. LogLifetime
  <2> DEFINE n == last - first + 1
             P(k) == n <= 2 ^ k /\ \A j \in 0 .. k - 1 : n > 2 ^ j
  <2>1. n \in Nat /\ n <= 2 ^ LogLifetime
    BY <1>1, <1>2, <1>3
  <2> HIDE DEF n
  <2>2. \E k \in 0 .. LogLifetime : P(k)
    <3> DEFINE T == {k \in 0 .. LogLifetime : n <= 2 ^ k}
    <3>1. T \in SUBSET Nat /\ LogLifetime \in T
      BY <1>2, <2>1
    <3>2. PICK k \in T : \A j \in T : k <= j
      <4> HIDE DEF T
      <4>1. QED
        BY <3>1, LeastElement
    <3>3. \A j \in 0 .. k - 1 : j \in 0 .. LogLifetime /\ j \notin T
      <4>1. k \in 0 .. LogLifetime
        OBVIOUS
      <4> HIDE DEF T
      <4>2. \A j \in 0 .. k - 1 : j \in 0 .. LogLifetime /\ ~(k <= j)
        BY <1>2, <4>1
      <4>3. QED
        BY <3>2, <4>2
    <3>4. \A j \in 0 .. k - 1 : 2 ^ j \in Nat
      BY <3>3, Halving
    <3>5. \A j \in 0 .. k - 1 : n > 2 ^ j
      BY <2>1, <3>3, <3>4
    <3>6. QED
      BY <3>2, <3>5
  <2>3. Log2CeilOf(n) = CHOOSE k \in 0 .. LogLifetime : P(k)
    BY Zenon DEF Log2CeilOf
  <2>4. Log2CeilOf(n) \in 0 .. LogLifetime
    <3> HIDE DEF P
    <3>1. QED
      BY <2>2, <2>3
  <2> DEFINE k == Log2CeilOf(n)
  <2>5. (k + 1) \div 2 \in 0 .. LogLifetime
    <3> HIDE DEF k
    <3>1. k \in 0 .. LogLifetime
      BY <2>4 DEF k
    <3>2. QED
      BY <1>2, <3>1
  <2>6. QED
    BY <2>5 DEF n
<1> HIDE DEF split, pp
<1>5. IsTree(top, Seed, pp, roots, first, last, split, LogLifetime)
  <2>1. split \in Nat /\ split <= LogLifetime
    BY <1>2, <1>4
  <2> HIDE DEF roots
  <2>2. QED
    BY <1>2, <2>1, BuildUpIs
<1> DEFINE k == key'
<1>6. /\ k.made = TRUE /\ k.first = first /\ k.last = last /\ k.split = split /\ k.seed = Seed /\ k.param = pp
      /\ k.top = top
  <2> HIDE DEF top
  <2>1. QED
    BY <1>1
<1> HIDE DEF k
<1>7. SplitNodes(k) = roots
  BY <1>6 DEF SplitNodes, SubtreeOf
<1>8. KeyOk(k)
  <2> HIDE DEF top, roots
  <2>1. QED
    BY <1>1, <1>3, <1>4, <1>5, <1>6, <1>7 DEF KeyOk
<1>9. cache = NoSubtree /\ signed = {} /\ threads = [t \in Thread |-> threads[t]] /\ \A t \in Thread : threads[t] = Idle
  BY <1>1 DEF XmssInv, KeyOk, NoKey
<1>10. CacheFits(k, cache) /\ \A t \in Thread : CallFits(k, cache, holder, t, threads[t])
  BY <1>9 DEF CacheFits, CallFits
<1>11. SignaturesVerify'
  BY <1>1, <1>9 DEF SignaturesVerify
<1>12. KeyOk(key') /\ CacheFits(key', cache) /\ \A t \in Thread : CallFits(key', cache, holder, t, threads[t])
  BY <1>8, <1>10 DEF k
<1>13. cache' = cache /\ holder' = holder /\ threads' = threads
  BY <1>1
<1>14. QED
  BY <1>9, <1>11, <1>12, <1>13 DEF XmssInv

\* A call to sign begins.
LEMMA SignCallKeeps ==
    ASSUME XmssInv, NEW t \in Thread, NEW message \in Messages, NEW e \in Epochs, SignCall(t, message, e)
    PROVE  XmssInv'
<1> DEFINE Good == {i \in 0 .. MaxRandomizerTrials - 1 : Encodes(key, message, e, i)}
           trial == FindRandomness(message, e, key.param, key.seed)
           w == Signing(key, "lock", message, e, trial, 0)
<1>1. key # NoKey /\ UNCHANGED <<key, cache, holder, signed>> /\ KeyOk(key)
  BY KeyIs DEF SignCall
<1>2. CASE threads' = [threads EXCEPT ![t] = Idle]
  <2>1. CallFits(key, cache, holder, t, Idle)
    BY DEF CallFits
  <2>2. QED
    BY <1>1, <1>2, <2>1, LonelyStep
<1>3. CASE e \in key.first .. key.last /\ trial # -1 /\ threads' = [threads EXCEPT ![t] = w]
  <2>1. trial = FirstOf(Good)
    BY DEF FindRandomness, Encodes
  <2>2. MaxRandomizerTrials \in Nat
    BY XmssAssumption
  <2>3. Good # {}
    BY <1>3, <2>1 DEF FirstOf
  <2>4. trial \in Good
    <3>1. Good \in SUBSET Nat
      BY <2>2
    <3> HIDE DEF Good
    <3>2. \E i \in Good : \A j \in Good : i <= j
      BY <2>3, <3>1, LeastElement
    <3>3. FirstOf(Good) = CHOOSE i \in Good : \A j \in Good : i <= j
      BY <2>3 DEF FirstOf
    <3>4. FirstOf(Good) \in Good
      BY <3>2, <3>3
    <3>5. QED
      BY <2>1, <3>4
  <2> HIDE DEF trial
  <2>5. trial \in 0 .. MaxRandomizerTrials - 1 /\ Encodes(key, message, e, trial)
    BY <2>4
  <2> HIDE DEF w
  <2>6. CallFits(key, cache, holder, t, w)
    BY <1>3, <2>5 DEF CallFits, w
  <2>7. QED
    BY <1>1, <1>3, <2>6, LonelyStep
<1>4. \/ threads' = [threads EXCEPT ![t] = Idle]
      \/ e \in key.first .. key.last /\ trial # -1 /\ threads' = [threads EXCEPT ![t] = w]
  <2> HIDE DEF Good
  <2>1. << >> = Siblings(key, e, 0)
    BY SiblingsGrow
  <2>2. \/ threads' = [threads EXCEPT ![t] = Idle]
        \/ /\ ~(e \notin key.first..key.last \/ trial = -1)
           /\ threads' = [threads EXCEPT ![t] =
                [at |-> "lock", for |-> "sign", message |-> message, epoch |-> e, proof |-> << >>,
                 wots |-> WotsSign(key.seed, key.param, message, e,
                                   Randomness(key.seed, key.param, message, e, trial))]]
    BY Zenon DEF SignCall, Return
  <2>3. w = [at |-> "lock", for |-> "sign", message |-> message, epoch |-> e, proof |-> << >>,
             wots |-> WotsSign(key.seed, key.param, message, e,
                               Randomness(key.seed, key.param, message, e, trial))]
    BY <2>1, Zenon DEF Signing
  <2> HIDE DEF w, trial
  <2>4. QED
    BY <2>2, <2>3
<1>5. QED
  BY <1>2, <1>3, <1>4

\* A call to prepare begins.
LEMMA PrepareKeeps ==
    ASSUME XmssInv, NEW t \in Thread, NEW e \in Epochs, Prepare(t, e)
    PROVE  XmssInv'
<1> DEFINE w == [at |-> "lock", for |-> "prepare", epoch |-> e]
<1>1. key # NoKey /\ UNCHANGED <<key, cache, holder, signed>> /\ KeyOk(key)
  BY KeyIs DEF Prepare
<1>2. e \in key.first .. key.last /\ threads' = [threads EXCEPT ![t] = w]
  BY DEF Prepare
<1>3. CallFits(key, cache, holder, t, w)
  BY <1>2 DEF CallFits
<1> HIDE DEF w
<1>4. QED
  BY <1>1, <1>2, <1>3, LonelyStep

\* Who waits for the mutex has an epoch of the key.
LEMMA AtTheLock ==
    ASSUME NEW t \in Thread, CallFits(key, cache, holder, t, threads[t]), threads[t].at = "lock"
    PROVE  /\ threads[t].epoch \in key.first .. key.last
           /\ \/ threads[t].for = "prepare"
              \/ /\ threads[t].for = "sign"
                 /\ \E message \in Messages, trial \in 0 .. MaxRandomizerTrials - 1 :
                      /\ Encodes(key, message, threads[t].epoch, trial)
                      /\ threads[t] = Signing(key, "lock", message, threads[t].epoch, trial, 0)
<1>1. CASE threads[t] = Idle
  BY <1>1 DEF Idle
<1>2. ASSUME NEW e \in key.first .. key.last, threads[t] = [at |-> "lock", for |-> "prepare", epoch |-> e]
      PROVE  threads[t].epoch \in key.first .. key.last /\ threads[t].for = "prepare"
  BY <1>2
<1>3. ASSUME NEW e \in key.first .. key.last, NEW message \in Messages, NEW trial \in 0 .. MaxRandomizerTrials - 1,
             Encodes(key, message, e, trial), threads[t] = Signing(key, "lock", message, e, trial, 0)
      PROVE  /\ threads[t].epoch \in key.first .. key.last /\ threads[t].for = "sign"
             /\ Encodes(key, message, threads[t].epoch, trial)
             /\ threads[t] = Signing(key, "lock", message, threads[t].epoch, trial, 0)
  <2>1. threads[t].epoch = e /\ threads[t].for = "sign"
    BY <1>3 DEF Signing
  <2>2. QED
    BY <1>3, <2>1
<1>4. ASSUME NEW e, NEW message, NEW trial, NEW n, threads[t] = Signing(key, "read", message, e, trial, n)
      PROVE  FALSE
  BY <1>4 DEF Signing
<1>5. CASE \E e \in key.first .. key.last : threads[t] = [at |-> "lock", for |-> "prepare", epoch |-> e]
  BY <1>2, <1>5
<1>6. ASSUME NEW e \in key.first .. key.last, NEW message \in Messages, NEW trial \in 0 .. MaxRandomizerTrials - 1,
             Encodes(key, message, e, trial),
             \/ threads[t] = Signing(key, "lock", message, e, trial, 0)
             \/ \E n \in 0 .. LogLifetime : threads[t] = Signing(key, "read", message, e, trial, n)
      PROVE  /\ threads[t].epoch \in key.first .. key.last /\ threads[t].for = "sign"
             /\ Encodes(key, message, threads[t].epoch, trial)
             /\ threads[t] = Signing(key, "lock", message, threads[t].epoch, trial, 0)
  <2>1. threads[t] = Signing(key, "lock", message, e, trial, 0)
    BY <1>4, <1>6
  <2>2. QED
    BY <1>3, <1>6, <2>1
<1>7. QED
  BY <1>1, <1>5, <1>6 DEF CallFits

\* The subtree of an epoch of the key fits it.
LEMMA SubtreeFits ==
    ASSUME KeyOk(key), CacheFits(key, cache), NEW e \in key.first .. key.last
    PROVE  CacheFits(key, SubtreeFor(e)) /\ SubtreeFor(e).index = Shift(e, key.split)
<1> DEFINE i == Shift(e, key.split)
           c == [index |-> i, layers |-> SubtreeOf(key, i)]
<1>1. i \in 0 .. 2 ^ LogLifetime
  <2>1. /\ key.first \in Nat /\ key.last \in Nat /\ key.last < 2 ^ LogLifetime /\ key.split \in Nat
        /\ LogLifetime \in Nat
    BY XmssAssumption DEF KeyOk
  <2>2. 2 ^ LogLifetime \in Nat /\ 2 ^ key.split \in Nat \ {0}
    BY <2>1, Halving
  <2> DEFINE v == 2 ^ LogLifetime
             w == 2 ^ key.split
  <2>3. v \in Nat /\ w \in Nat \ {0} /\ e \in Nat /\ e < v
    BY <2>1, <2>2
  <2> HIDE DEF v, w
  <2>4. e \div w \in Nat /\ e \div w <= e
    BY <2>3
  <2>5. e \div w \in 0 .. v
    BY <2>3, <2>4
  <2>6. QED
    BY <2>5 DEF v, w, Shift
<1> HIDE DEF i
<1>2. CASE cache.index = i
  BY <1>2 DEF SubtreeFor, i
<1>3. CASE cache.index # i
  <2>1. SubtreeFor(e) = c
    BY <1>3 DEF SubtreeFor, SubtreeOf, i
  <2>2. c.index = i
    OBVIOUS
  <2>3. CacheFits(key, c)
    BY <1>1 DEF CacheFits
  <2>4. QED
    BY <2>1, <2>2, <2>3 DEF i
<1>4. QED
  BY <1>2, <1>3

\* Nobody reads while the mutex is free: a new subtree does not disturb the others.
LEMMA OthersFit ==
    ASSUME KeyOk(key), holder = NoThread, NEW u \in Thread, CallFits(key, cache, holder, u, threads[u]), NEW c, NEW h
    PROVE  CallFits(key, c, h, u, threads[u])
<1>1. holder # u
  BY XmssAssumption DEF NoThread
<1>2. QED
  BY <1>1 DEF CallFits

\* The mutex is taken.
LEMMA TakeSubtreeKeeps ==
    ASSUME XmssInv, KeyOk(key), NEW t \in Thread, CachedBottomSubtree(t)
    PROVE  XmssInv'
<1> DEFINE w == threads[t]
           e == w.epoch
<1>1. /\ w.at = "lock" /\ holder = NoThread /\ cache' = SubtreeFor(e) /\ UNCHANGED <<key, calls, signed>>
  BY DEF CachedBottomSubtree
<1>2. KeyOk(key) /\ CacheFits(key, cache) /\ \A u \in Thread : CallFits(key, cache, holder, u, threads[u])
  <2>1. key # NoKey
    BY DEF KeyOk, NoKey
  <2>2. QED
    BY <2>1, KeyIs
<1>3. /\ e \in key.first .. key.last
      /\ \/ w.for = "prepare"
         \/ /\ w.for = "sign"
            /\ \E message \in Messages, trial \in 0 .. MaxRandomizerTrials - 1 :
                 Encodes(key, message, e, trial) /\ w = Signing(key, "lock", message, e, trial, 0)
  BY <1>1, <1>2, AtTheLock
<1>4. CacheFits(key, cache') /\ cache'.index = Shift(e, key.split)
  <2> HIDE DEF e
  <2>1. QED
    BY <1>1, <1>2, <1>3, SubtreeFits
<1>5. \A u \in Thread \ {t} : CallFits(key, cache', holder', u, threads[u])
  BY <1>1, <1>2, OthersFit
<1>6. SignaturesVerify'
  BY <1>1 DEF XmssInv, SignaturesVerify, Root
<1>7. UNCHANGED key
  BY <1>1
<1>8. CASE w.for = "prepare"
  <2>1. threads' = [threads EXCEPT ![t] = Idle]
    BY <1>8 DEF CachedBottomSubtree, Return
  <2>2. CallFits(key, cache', holder', t, Idle)
    BY DEF CallFits
  <2> HIDE DEF w, e
  <2>3. QED
    BY <1>2, <1>4, <1>5, <1>6, <1>7, <2>1, <2>2, ThreadStep
<1>9. CASE w.for = "sign"
  <2>1. PICK message \in Messages, trial \in 0 .. MaxRandomizerTrials - 1 :
          Encodes(key, message, e, trial) /\ w = Signing(key, "lock", message, e, trial, 0)
    BY <1>3, <1>9
  <2>2. threads' = [threads EXCEPT ![t].at = "read"] /\ holder' = t
    BY <1>9 DEF CachedBottomSubtree
  <2> DEFINE v == Signing(key, "read", message, e, trial, 0)
  <2>3. threads' = [threads EXCEPT ![t] = v]
    <3>1. threads' = [threads EXCEPT ![t] = [w EXCEPT !.at = "read"]]
      BY <2>2
    <3>2. [Signing(key, "lock", message, e, trial, 0) EXCEPT !.at = "read"] = v
      BY DEF Signing
    <3>3. [w EXCEPT !.at = "read"] = v
      <4> HIDE DEF w, v, e
      <4>1. QED
        BY <2>1, <3>2
    <3> HIDE DEF w, v
    <3>4. QED
      BY <3>1, <3>3
  <2>4. CallFits(key, cache', holder', t, v)
    <3>1. LogLifetime \in Nat
      BY XmssAssumption
    <3>2. 0 \in 0 .. LogLifetime
      BY <3>1
    <3>3. holder' = t /\ cache'.index = Shift(e, key.split)
      BY <1>4, <2>2
    <3> HIDE DEF e
    <3>4. QED
      BY <1>3, <2>1, <3>2, <3>3 DEF CallFits
  <2> HIDE DEF w, e, v
  <2>5. QED
    BY <1>2, <1>4, <1>5, <1>6, <1>7, <2>3, <2>4, ThreadStep
<1>10. QED
  BY <1>3, <1>8, <1>9

\* Who reads holds the mutex, and the subtree of its epoch is cached.
LEMMA AtTheRead ==
    ASSUME NEW t \in Thread, CallFits(key, cache, holder, t, threads[t]), threads[t].at = "read"
    PROVE  \E e \in key.first .. key.last, message \in Messages, trial \in 0 .. MaxRandomizerTrials - 1,
              n \in 0 .. LogLifetime :
             /\ Encodes(key, message, e, trial) /\ holder = t /\ cache.index = Shift(e, key.split)
             /\ threads[t] = Signing(key, "read", message, e, trial, n)
<1>1. threads[t] # Idle
  BY DEF Idle
<1>2. ASSUME NEW e \in key.first .. key.last, threads[t] = [at |-> "lock", for |-> "prepare", epoch |-> e]
      PROVE  FALSE
  BY <1>2
<1>3. ASSUME NEW e, NEW message, NEW trial, threads[t] = Signing(key, "lock", message, e, trial, 0)
      PROVE  FALSE
  BY <1>3 DEF Signing
<1>4. QED
  BY <1>1, <1>2, <1>3 DEF CallFits

\* A sibling read from the cache is that of the epoch.
LEMMA SiblingRead ==
    ASSUME KeyOk(key), CacheFits(key, cache), NEW e \in key.first .. key.last, cache.index = Shift(e, key.split),
           NEW n \in Nat
    PROVE  MerkleSibling(n, Neighbour(Shift(e, n))) = SiblingOf(key, e, n)
<1> DEFINE i == Shift(e, key.split)
<1>1. i \in Nat
  <2>1. key.first \in Nat /\ key.last \in Nat /\ key.split \in Nat
    BY DEF KeyOk
  <2>2. e \in Nat
    BY <2>1
  <2>3. QED
    BY <2>1, <2>2, Halving DEF Shift
<1>2. cache # NoSubtree
  BY <1>1 DEF NoSubtree
<1> HIDE DEF i
<1>3. cache.layers = SubtreeOf(key, i)
  BY <1>2 DEF CacheFits, i
<1>4. CASE n >= key.split
  BY <1>4 DEF MerkleSibling, SiblingOf, ReadFrom, NodeIn
<1>5. CASE ~(n >= key.split)
  BY <1>3, <1>5 DEF MerkleSibling, SiblingOf, ReadFrom, NodeIn, i
<1>6. QED
  BY <1>4, <1>5

\* A sibling is read.
LEMMA ReadSiblingKeeps ==
    ASSUME XmssInv, KeyOk(key), NEW t \in Thread, ReadSibling(t)
    PROVE  XmssInv'
<1> DEFINE w == threads[t]
<1>1. KeyOk(key) /\ CacheFits(key, cache) /\ \A u \in Thread : CallFits(key, cache, holder, u, threads[u])
  <2>1. key # NoKey
    BY DEF KeyOk, NoKey
  <2>2. QED
    BY <2>1, KeyIs
<1>2. w.at = "read" /\ Len(w.proof) < LogLifetime /\ UNCHANGED <<key, cache, holder, signed>>
  BY DEF ReadSibling
<1>3. PICK e \in key.first .. key.last, message \in Messages, trial \in 0 .. MaxRandomizerTrials - 1,
           n \in 0 .. LogLifetime :
             /\ Encodes(key, message, e, trial) /\ holder = t /\ cache.index = Shift(e, key.split)
             /\ w = Signing(key, "read", message, e, trial, n)
  BY <1>1, <1>2, AtTheRead
<1>4. w.proof = Siblings(key, e, n) /\ w.epoch = e /\ Len(w.proof) = n /\ n \in Nat
  <2>1. LogLifetime \in Nat
    BY XmssAssumption
  <2>2. n \in Nat
    BY <2>1
  <2>3. w.proof = Siblings(key, e, n) /\ w.epoch = e
    BY <1>3 DEF Signing
  <2> HIDE DEF w
  <2>4. QED
    BY <2>2, <2>3, SiblingsGrow
<1> DEFINE v == Signing(key, "read", message, e, trial, n + 1)
           m == Shift(e, n)
<1>5. threads' = [threads EXCEPT ![t].proof = Append(@, MerkleSibling(n, Neighbour(m)))]
  <2>1. threads' = [threads EXCEPT ![t].proof =
                      Append(@, MerkleSibling(Len(w.proof),
                               IF Shift(w.epoch, Len(w.proof)) % 2 = 0 THEN Shift(w.epoch, Len(w.proof)) + 1
                               ELSE Shift(w.epoch, Len(w.proof)) - 1))]
    BY Zenon DEF ReadSibling
  <2> HIDE DEF w
  <2>2. QED
    BY <1>4, <2>1 DEF Neighbour
<1>6. MerkleSibling(n, Neighbour(m)) = SiblingOf(key, e, n)
  BY <1>1, <1>3, <1>4, SiblingRead
<1>7. threads' = [threads EXCEPT ![t] = v]
  <2>1. threads' = [threads EXCEPT ![t] = [w EXCEPT !.proof = Append(Siblings(key, e, n), SiblingOf(key, e, n))]]
    BY <1>4, <1>5, <1>6
  <2>2. Append(Siblings(key, e, n), SiblingOf(key, e, n)) = Siblings(key, e, n + 1)
    BY <1>4, SiblingsGrow
  <2>3. [Signing(key, "read", message, e, trial, n) EXCEPT !.proof = Siblings(key, e, n + 1)] = v
    BY DEF Signing
  <2>4. [w EXCEPT !.proof = Append(Siblings(key, e, n), SiblingOf(key, e, n))] = v
    <3> HIDE DEF w, v
    <3>1. QED
      BY <1>3, <2>2, <2>3
  <2> HIDE DEF w, v
  <2>5. QED
    BY <2>1, <2>4
<1>8. CallFits(key, cache, holder, t, v)
  <2>1. LogLifetime \in Nat /\ n < LogLifetime
    BY <1>2, <1>4, XmssAssumption
  <2>2. n + 1 \in 0 .. LogLifetime
    BY <1>4, <2>1
  <2> HIDE DEF w, m
  <2>3. \E l \in 0 .. LogLifetime : v = Signing(key, "read", message, e, trial, l)
    BY <2>2
  <2> HIDE DEF v
  <2>4. QED
    BY <1>3, <2>3 DEF CallFits
<1> HIDE DEF w, v
<1>9. QED
  BY <1>2, <1>7, <1>8, LonelyStep

\* A signature is returned.
LEMMA SignReturnsKeeps ==
    ASSUME XmssInv, KeyOk(key), DigitsFit, NEW t \in Thread, SignReturns(t)
    PROVE  XmssInv'
<1> DEFINE w == threads[t]
           s == [message |-> w.message, epoch |-> w.epoch, wots |-> w.wots, proof |-> w.proof]
<1>1. KeyOk(key) /\ CacheFits(key, cache) /\ \A u \in Thread : CallFits(key, cache, holder, u, threads[u])
  <2>1. key # NoKey
    BY DEF KeyOk, NoKey
  <2>2. QED
    BY <2>1, KeyIs
<1>2. /\ w.at = "read" /\ Len(w.proof) = LogLifetime /\ UNCHANGED <<key, cache>>
      /\ signed' = signed \cup {s} /\ threads' = [threads EXCEPT ![t] = Idle]
      /\ holder' = IF holder = t THEN NoThread ELSE holder
  BY DEF SignReturns, Return
<1>3. PICK e \in key.first .. key.last, message \in Messages, trial \in 0 .. MaxRandomizerTrials - 1,
           n \in 0 .. LogLifetime :
             /\ Encodes(key, message, e, trial) /\ holder = t /\ cache.index = Shift(e, key.split)
             /\ w = Signing(key, "read", message, e, trial, n)
  BY <1>1, <1>2, AtTheRead
<1> DEFINE r == Randomness(key.seed, key.param, message, e, trial)
<1>4. /\ w.proof = Siblings(key, e, n) /\ w.epoch = e /\ w.message = message
      /\ w.wots = WotsSign(key.seed, key.param, message, e, r)
  BY <1>3 DEF Signing
<1>5. n = LogLifetime
  <2>1. n \in Nat
    BY XmssAssumption
  <2> HIDE DEF w
  <2>2. QED
    BY <1>2, <1>4, <2>1, SiblingsGrow
<1>6. XmssVerify(Root, key.param, s.message, s, s.epoch) = "ok"
  <2>1. /\ s.wots = WotsSign(key.seed, key.param, message, e, r) /\ s.proof = Siblings(key, e, LogLifetime)
        /\ s.message = message /\ s.epoch = e
    <3> HIDE DEF w
    <3>1. QED
      BY <1>4, <1>5
  <2>2. WotsEncode(message, e, key.param, r) # << >>
    BY <1>3 DEF Encodes
  <2> HIDE DEF s, w, r
  <2>3. XmssVerify(key.top[LogLifetime][0], key.param, message, s, e) = "ok"
    BY <1>1, <2>1, <2>2, Verifies
  <2>4. QED
    BY <2>1, <2>3 DEF Root
<1>7. SignaturesVerify'
  <2>1. \A x \in signed : XmssVerify(Root, key.param, x.message, x, x.epoch) = "ok"
    BY DEF XmssInv, SignaturesVerify
  <2>2. Root' = Root /\ key' = key
    BY <1>2 DEF Root
  <2> HIDE DEF s, w
  <2>3. \A x \in signed' : XmssVerify(Root, key.param, x.message, x, x.epoch) = "ok"
    BY <1>2, <1>6, <2>1
  <2>4. QED
    BY <2>2, <2>3 DEF SignaturesVerify
<1>8. ASSUME NEW u \in Thread \ {t}
      PROVE  CallFits(key, cache', holder', u, threads[u])
  <2>1. CallFits(key, cache, holder, u, threads[u]) /\ holder # u
    BY <1>1, <1>3
  <2>2. QED
    BY <2>1 DEF CallFits
<1>9. CallFits(key, cache', holder', t, Idle) /\ CacheFits(key, cache') /\ UNCHANGED key
  BY <1>1, <1>2 DEF CallFits
<1>10. QED
  <2> HIDE DEF w, s
  <2>1. threads' = [threads EXCEPT ![t] = Idle]
    BY <1>2
  <2>2. QED
    BY <1>1, <1>7, <1>8, <1>9, <2>1, ThreadStep

\* A thread that has a call has a key.
LEMMA KeyThere ==
    ASSUME XmssInv, NEW t \in Thread, threads[t].at # "idle"
    PROVE  KeyOk(key)
BY DEF XmssInv, Idle

\* A step of the scheme keeps the invariant.
LEMMA XmssKeeps == ASSUME DigitsFit, XmssInv, XmssNext PROVE XmssInv'
<1>1. ASSUME NEW t \in Thread, CachedBottomSubtree(t) \/ ReadSibling(t) \/ SignReturns(t)
      PROVE  XmssInv'
  <2>1. threads[t].at # "idle"
    BY <1>1 DEF CachedBottomSubtree, ReadSibling, SignReturns
  <2>2. KeyOk(key)
    BY <2>1, KeyThere
  <2>3. QED
    BY <1>1, <2>2, TakeSubtreeKeeps, ReadSiblingKeeps, SignReturnsKeeps
<1>2. QED
  BY <1>1, KeyGenKeeps, SignCallKeeps, PrepareKeeps DEF XmssNext

-----------------------------------------------------------------------------
(* A tree of a layer of the hypertree.                                     *)

\* A row of a tree, the one below it being known.
RowOn(layers, pp, lay, tau, count, from, first, level) ==
    [j \in 1 .. count \div 2 ^ (level - from) |->
       Node(pp, lay, tau, level, (first \div 2 ^ (level - from)) + j - 1,
            layers[level - 1][2 * j - 1], layers[level - 1][2 * j])]

\* The recursion that SphincsBuildUp is made of.
Growing(layers, pp, lay, tau, bottom, from, to, first) ==
    [level \in from .. to |->
       IF level = from THEN bottom ELSE RowOn(layers, pp, lay, tau, Len(bottom), from, first, level)]

\* There is such a tree.
LEMMA GrowingExists ==
    ASSUME NEW from \in Nat, NEW n \in Nat, NEW pp, NEW lay, NEW tau, NEW bottom, NEW first
    PROVE  \E layers : layers = Growing(layers, pp, lay, tau, bottom, from, from + n, first)
<1> DEFINE S == {m \in 0 .. n : \E layers : layers = Growing(layers, pp, lay, tau, bottom, from, from + m, first)}
           Row(layers, level) == RowOn(layers, pp, lay, tau, Len(bottom), from, first, level)
<1>1. 0 \in S
  <2> DEFINE v == [level \in from .. from + 0 |-> bottom]
  <2>1. ASSUME NEW level \in from .. from + 0
        PROVE  level = from
    OBVIOUS
  <2>2. v = Growing(v, pp, lay, tau, bottom, from, from + 0, first)
    <3> HIDE DEF v
    <3>1. v = [level \in from .. from + 0 |-> IF level = from THEN bottom ELSE Row(v, level)]
      BY <2>1 DEF v
    <3>2. QED
      BY <3>1 DEF Growing
  <2> HIDE DEF v
  <2>3. QED
    BY <2>2
<1>2. ASSUME NEW m \in 0 .. n - 1, m \in S
      PROVE  m + 1 \in S
  <2> DEFINE top == from + m
  <2>1. PICK old : old = Growing(old, pp, lay, tau, bottom, from, top, first)
    BY <1>2
  <2>2. top \in Nat /\ from <= top /\ from + (m + 1) = top + 1
    OBVIOUS
  <2> HIDE DEF top
  <2> DEFINE v == [level \in from .. top + 1 |-> IF level <= top THEN old[level] ELSE Row(old, level)]
  <2>3. \A level \in from .. top : v[level] = old[level]
    BY <2>2
  <2>4. v[top + 1] = Row(old, top + 1)
    BY <2>2
  <2>5. DOMAIN v = from .. top + 1 /\ v = [level \in from .. top + 1 |-> v[level]]
    OBVIOUS
  <2> HIDE DEF v
  <2>6. ASSUME NEW level \in from + 1 .. top + 1
        PROVE  Row(v, level) = Row(old, level)
    <3>1. level - 1 \in from .. top
      BY <2>2
    <3>2. v[level - 1] = old[level - 1]
      BY <2>3, <3>1
    <3>3. QED
      BY <3>2 DEF RowOn
  <2>7. ASSUME NEW level \in from .. top + 1
        PROVE  v[level] = IF level = from THEN bottom ELSE Row(v, level)
    <3>1. \A l \in from .. top : old[l] = IF l = from THEN bottom ELSE Row(old, l)
      BY <2>1 DEF Growing
    <3> HIDE DEF Row
    <3>2. CASE level \in from .. top
      <4>1. level = from \/ level \in from + 1 .. top + 1
        BY <3>2
      <4>2. v[level] = IF level = from THEN bottom ELSE Row(old, level)
        BY <2>3, <3>1, <3>2
      <4>3. QED
        BY <2>6, <4>1, <4>2
    <3>3. CASE level = top + 1
      <4>1. level # from /\ level \in from + 1 .. top + 1
        BY <2>2, <3>3
      <4>2. QED
        BY <2>4, <2>6, <3>3, <4>1
    <3>4. QED
      BY <2>2, <3>2, <3>3
  <2>8. v = Growing(v, pp, lay, tau, bottom, from, top + 1, first)
    BY <2>5, <2>7 DEF Growing
  <2>9. QED
    BY <2>2, <2>8
<1>3. n \in S
  <2> HIDE DEF S
  <2>1. \A k \in 0 .. n : k \in S
    BY <1>1, <1>2, UpTo
  <2>2. QED
    BY <2>1
<1>4. QED
  BY <1>3

\* What such a tree is, row by row.
IsForest(layers, pp, lay, tau, bottom, from, to, first) ==
    /\ layers[from] = bottom
    /\ \A level \in from + 1 .. to : layers[level] = RowOn(layers, pp, lay, tau, Len(bottom), from, first, level)

\* SphincsBuildUp makes one.
LEMMA SphincsBuildUpIs ==
    ASSUME NEW from \in Nat, NEW to \in Nat, from <= to, NEW pp, NEW lay, NEW tau, NEW bottom, NEW first
    PROVE  IsForest(SphincsBuildUp(pp, lay, tau, bottom, from, to, first), pp, lay, tau, bottom, from, to, first)
<1> DEFINE h == CHOOSE h : h = Growing(h, pp, lay, tau, bottom, from, to, first)
<1>1. h = Growing(h, pp, lay, tau, bottom, from, to, first)
  <2> DEFINE n == to - from
  <2>1. n \in Nat /\ from + n = to
    OBVIOUS
  <2>2. \E layers : layers = Growing(layers, pp, lay, tau, bottom, from, from + n, first)
    <3> HIDE DEF n
    <3>1. QED
      BY <2>1, GrowingExists
  <2>3. \E layers : layers = Growing(layers, pp, lay, tau, bottom, from, to, first)
    BY <2>1, <2>2
  <2>4. QED
    BY <2>3
<1>2. SphincsBuildUp(pp, lay, tau, bottom, from, to, first) = h
  BY Zenon DEF SphincsBuildUp, Growing, RowOn
<1> HIDE DEF h
<1>3. h = [level \in from .. to |->
             IF level = from THEN bottom ELSE RowOn(h, pp, lay, tau, Len(bottom), from, first, level)]
  BY <1>1 DEF Growing
<1>4. h[from] = bottom
  <2>1. from \in from .. to
    OBVIOUS
  <2>2. QED
    BY <1>3, <2>1
<1>5. ASSUME NEW level \in from + 1 .. to
      PROVE  h[level] = RowOn(h, pp, lay, tau, Len(bottom), from, first, level)
  <2>1. level \in from .. to /\ level # from
    OBVIOUS
  <2>2. QED
    BY <1>3, <2>1
<1>6. QED
  BY <1>2, <1>4, <1>5 DEF IsForest

\* The whole tree of a layer, its leaves from 0.
WholeTree(pp, master, lay, tau) ==
    SphincsBuildUp(pp, lay, tau, LeavesOf(pp, master, lay, tau, 0, 2 ^ Heights[lay]), 0, Heights[lay], 0)

\* Its nodes.
IsWhole(full, pp, master, lay, tau, h) ==
    /\ full[0] = LeavesOf(pp, master, lay, tau, 0, 2 ^ h)
    /\ \A level \in 1 .. h :
         full[level] = [j \in 1 .. 2 ^ (h - level) |->
                          Node(pp, lay, tau, level, j - 1, full[level - 1][2 * j - 1], full[level - 1][2 * j])]

\* A whole tree has these nodes.
LEMMA NodesOfWhole ==
    ASSUME NEW lay, Heights[lay] \in Nat, NEW pp, NEW master, NEW tau
    PROVE  IsWhole(WholeTree(pp, master, lay, tau), pp, master, lay, tau, Heights[lay])
<1> DEFINE h == Heights[lay]
           bottom == LeavesOf(pp, master, lay, tau, 0, 2 ^ h)
           full == WholeTree(pp, master, lay, tau)
<1>1. 0 \in Nat /\ h \in Nat /\ 0 <= h /\ 2 ^ h \in Nat
  BY Halving
<1>2. IsForest(full, pp, lay, tau, bottom, 0, h, 0)
  <2> HIDE DEF bottom, h
  <2>1. IsForest(SphincsBuildUp(pp, lay, tau, bottom, 0, h, 0), pp, lay, tau, bottom, 0, h, 0)
    BY <1>1, SphincsBuildUpIs
  <2>2. QED
    BY <2>1 DEF WholeTree, bottom, h
<1> HIDE DEF full
<1>3. Len(bottom) = 2 ^ h
  <2> DEFINE n == 2 ^ h
  <2>1. n \in Nat
    BY <1>1
  <2> HIDE DEF n
  <2>2. Len(LeavesOf(pp, master, lay, tau, 0, n)) = n
    BY <2>1 DEF LeavesOf
  <2>3. QED
    BY <2>2 DEF n
<1>4. ASSUME NEW level \in 1 .. h
      PROVE  full[level] = [j \in 1 .. 2 ^ (h - level) |->
                              Node(pp, lay, tau, level, j - 1, full[level - 1][2 * j - 1], full[level - 1][2 * j])]
  <2>1. level \in 0 + 1 .. h /\ level - 0 = level /\ level \in 0 .. h
    BY <1>1
  <2>2. full[level] = RowOn(full, pp, lay, tau, 2 ^ h, 0, 0, level)
    BY <1>2, <1>3, <2>1 DEF IsForest
  <2>3. 2 ^ h \div 2 ^ level = 2 ^ (h - level) /\ 2 ^ level \in Nat \ {0}
    <3> HIDE DEF h
    <3>1. QED
      BY <1>1, <2>1, PowersDivide
  <2>4. 0 \div 2 ^ level = 0
    <3> DEFINE w == 2 ^ level
    <3> HIDE DEF w
    <3>1. w \in Nat \ {0}
      BY <2>3 DEF w
    <3>2. 0 \div w = 0
      BY <3>1
    <3>3. QED
      BY <3>2 DEF w
  <2>5. \A j \in 1 .. 2 ^ (h - level) : 0 + j - 1 = j - 1
    OBVIOUS
  <2>6. full[level] = [j \in 1 .. 2 ^ (h - level) |->
                         Node(pp, lay, tau, level, 0 + j - 1, full[level - 1][2 * j - 1], full[level - 1][2 * j])]
    BY <2>1, <2>2, <2>3, <2>4, Zenon DEF RowOn
  <2> HIDE DEF h
  <2>7. QED
    BY <2>5, <2>6
<1>5. full[0] = bottom
  BY <1>2 DEF IsForest
<1>6. QED
  <2> HIDE DEF full
  <2>1. IsWhole(full, pp, master, lay, tau, h)
    BY <1>4, <1>5 DEF IsWhole
  <2>2. QED
    BY <2>1 DEF full, h

\* A node on the way of a leaf is the hash of the one before and its sibling.
LinkAt(full, pp, lay, tau, e, level) ==
    full[level][Shift(e, level) + 1] =
      Th(pp, NodeTweak(lay, tau, level, Shift(e, level)),
         InOrder(e, level - 1, full[level - 1][Shift(e, level - 1) + 1],
                  full[level - 1][Neighbour(Shift(e, level - 1)) + 1]))

\* So it is in a whole tree.
LEMMA WholeLinks ==
    ASSUME NEW lay, Heights[lay] \in Nat, NEW pp, NEW master, NEW tau, NEW full,
           IsWhole(full, pp, master, lay, tau, Heights[lay]), NEW e \in 0 .. 2 ^ Heights[lay] - 1,
           NEW level \in 1 .. Heights[lay]
    PROVE  LinkAt(full, pp, lay, tau, e, level)
<1> DEFINE h == Heights[lay]
           n == Shift(e, level)
           m == Shift(e, level - 1)
           below(c) == full[level - 1][c + 1]
<1>1. h \in Nat /\ level \in Nat \ {0} /\ level \in 0 .. h /\ 2 ^ h \in Nat \ {0} /\ e \in Nat
  BY Halving
<1>2. n = m \div 2 /\ n \in Nat /\ m \in Nat
  BY <1>1, Shifted
<1>3. n < 2 ^ (h - level)
  <2> DEFINE w == 2 ^ level
             q == 2 ^ (h - level)
             x == 2 ^ h
  <2>1. w \in Nat \ {0} /\ q \in Nat /\ x = q * w /\ e < x /\ 0 * w <= e
    <3>1. x = q * w /\ w \in Nat \ {0} /\ q \in Nat
      <4> HIDE DEF h
      <4>1. QED
        BY <1>1, PowersDivide
    <3>2. e < x /\ 0 * w <= e
      BY <1>1, <3>1
    <3>3. QED
      BY <3>1, <3>2
  <2> HIDE DEF w, q, x
  <2>2. e \div w < q
    BY <1>1, <2>1, Between
  <2>3. QED
    BY <2>2 DEF Shift, w, q
<1>4. full[level] = [j \in 1 .. 2 ^ (h - level) |->
                       Node(pp, lay, tau, level, j - 1, full[level - 1][2 * j - 1], full[level - 1][2 * j])]
  BY <1>1 DEF IsWhole
<1>5. full[level][n + 1] = Node(pp, lay, tau, level, n, below(2 * n), below(2 * n + 1))
  <2> DEFINE q == 2 ^ (h - level)
  <2>1. q \in Nat
    <3> DEFINE d == h - level
    <3>1. d \in Nat
      BY <1>1
    <3> HIDE DEF d
    <3>2. 2 ^ d \in Nat
      BY <3>1, Halving
    <3>3. QED
      BY <3>2 DEF d
  <2> HIDE DEF q, n
  <2>2. n + 1 \in 1 .. q /\ (n + 1) - 1 = n /\ 2 * (n + 1) - 1 = 2 * n + 1 /\ 2 * (n + 1) = (2 * n + 1) + 1
    BY <1>2, <1>3, <2>1 DEF q
  <2>3. full[level][n + 1] = Node(pp, lay, tau, level, (n + 1) - 1, full[level - 1][2 * (n + 1) - 1],
                                  full[level - 1][2 * (n + 1)])
    BY <1>4, <2>2 DEF q
  <2>4. QED
    BY <2>2, <2>3
<1> HIDE DEF n, m, below
<1>6. <<below(2 * n), below(2 * n + 1)>> = IF m % 2 = 0 THEN <<below(m), below(Neighbour(m))>>
                                         ELSE <<below(Neighbour(m)), below(m)>>
  <2>1. CASE m % 2 = 0
    <3>1. m = 2 * n /\ Neighbour(m) = 2 * n + 1
      BY <1>2, <2>1, Family
    <3>2. QED
      BY <2>1, <3>1
  <2>2. CASE m % 2 # 0
    <3>1. m = 2 * n + 1 /\ Neighbour(m) = 2 * n
      BY <1>2, <2>2, Family
    <3>2. QED
      BY <2>2, <3>1
  <2>3. QED
    BY <2>1, <2>2
<1>7. full[level][n + 1] = Th(pp, NodeTweak(lay, tau, level, n), InOrder(e, level - 1, below(m), below(Neighbour(m))))
  BY <1>5, <1>6, Zenon DEF Node, InOrder, m
<1>8. QED
  BY <1>7, Zenon DEF LinkAt, n, m, below

\* The path of a leaf.
PathIn(full, e, n) == [level \in 1 .. n |-> full[level - 1][Neighbour(Shift(e, level - 1)) + 1]]

\* The way of a leaf.
TweaksUp(lay, tau, e, n) == [level \in 1 .. n |-> NodeTweak(lay, tau, level, Shift(e, level))]

\* The path of a leaf leads to the root of its tree.
LeadsUp(full, pp, lay, tau, e, h) ==
    FoldPath(pp, TweaksUp(lay, tau, e, h), full[0][e + 1], e, PathIn(full, e, h)) = full[h][1]

\* So it does in a whole tree.
LEMMA WholePath ==
    ASSUME NEW lay, Heights[lay] \in Nat, NEW pp, NEW master, NEW tau, NEW full,
           IsWhole(full, pp, master, lay, tau, Heights[lay]), NEW e \in 0 .. 2 ^ Heights[lay] - 1
    PROVE  LeadsUp(full, pp, lay, tau, e, Heights[lay])
<1> DEFINE h == Heights[lay]
           tweaks == TweaksUp(lay, tau, e, h)
           path == PathIn(full, e, h)
           value == [level \in 0 .. h |-> full[level][Shift(e, level) + 1]]
<1>1. h \in Nat /\ 2 ^ h \in Nat \ {0} /\ e \in Nat
  BY Halving
<1>2. Len(path) = h
  BY <1>1 DEF PathIn
<1>3. ASSUME NEW level \in 1 .. h
      PROVE  value[level] = TweakHashOf(pp, tweaks[level], Pair(e, path, level, value[level - 1]))
  <2>1. LinkAt(full, pp, lay, tau, e, level)
    BY WholeLinks
  <2>2. level \in 0 .. h /\ level - 1 \in 0 .. h
    BY <1>1
  <2>3. value[level] = full[level][Shift(e, level) + 1] /\ value[level - 1] = full[level - 1][Shift(e, level - 1) + 1]
    BY <2>2
  <2>4. tweaks[level] = NodeTweak(lay, tau, level, Shift(e, level))
    BY DEF TweaksUp
  <2>5. path[level] = full[level - 1][Neighbour(Shift(e, level - 1)) + 1]
    BY DEF PathIn
  <2> HIDE DEF value, tweaks, path
  <2>6. QED
    BY <2>1, <2>3, <2>4, <2>5 DEF LinkAt, InOrder, Pair, Shift, Th
<1>4. Shift(e, 0) = e /\ Shift(e, h) = 0
  <2> DEFINE w == 2 ^ h
  <2>1. w \in Nat \ {0} /\ e < w
    BY <1>1
  <2> HIDE DEF w
  <2>2. e \div w = 0
    BY <1>1, <2>1
  <2>3. e \div 2 ^ 0 = e
    BY <1>1, Halving
  <2>4. QED
    BY <2>2, <2>3 DEF Shift, w
<1>5. value[0] = full[0][e + 1] /\ value[h] = full[h][1]
  <2>1. 0 \in 0 .. h /\ h \in 0 .. h /\ 0 + 1 = 1
    BY <1>1
  <2>2. value[0] = full[0][Shift(e, 0) + 1] /\ value[h] = full[h][Shift(e, h) + 1]
    BY <2>1
  <2>3. QED
    BY <1>4, <2>1, <2>2
<1>6. FoldPath(pp, tweaks, full[0][e + 1], e, path) = value[h]
  <2> HIDE DEF value, tweaks, h, path
  <2>1. IsWalk(value, pp, tweaks, full[0][e + 1], e, path, h)
    BY <1>3, <1>5 DEF IsWalk
  <2>2. QED
    BY <1>1, <1>2, <2>1, FoldPathIs
<1>7. QED
  BY <1>5, <1>6 DEF LeadsUp

\* A leaf is the hash of its one-time key, and the root is a digest.
EndsWell(full, pp, master, lay, tau, e, h) ==
    full[0][e + 1] = OtsPublicLeaf(pp, master, Pos(lay, tau, e)) /\ full[h][1] # << >>

\* So it is in a whole tree.
LEMMA WholeEnds ==
    ASSUME NEW lay, Heights[lay] \in Nat, NEW pp, NEW master, NEW tau, NEW full,
           IsWhole(full, pp, master, lay, tau, Heights[lay]), NEW e \in 0 .. 2 ^ Heights[lay] - 1
    PROVE  EndsWell(full, pp, master, lay, tau, e, Heights[lay])
<1> DEFINE h == Heights[lay]
           leaves == LeavesOf(pp, master, lay, tau, 0, 2 ^ h)
<1>1. h \in Nat /\ 2 ^ h \in Nat \ {0} /\ e \in Nat
  BY Halving
<1>2. full[0] = leaves
  BY DEF IsWhole
<1>3. ASSUME NEW i \in 0 .. 2 ^ h - 1
      PROVE  leaves[i + 1] = OtsPublicLeaf(pp, master, Pos(lay, tau, i))
  <2>1. i + 1 \in 1 .. 2 ^ h /\ 0 + (i + 1) - 1 = i
    BY <1>1
  <2>2. QED
    BY <2>1 DEF LeavesOf
<1>4. full[h][1] # << >>
  <2>1. CASE h = 0
    <3>1. 0 \in 0 .. 2 ^ h - 1 /\ 0 + 1 = 1
      BY <1>1
    <3>2. full[h][1] = OtsPublicLeaf(pp, master, Pos(lay, tau, 0))
      BY <1>2, <1>3, <2>1, <3>1
    <3>3. QED
      BY <3>2 DEF OtsPublicLeaf, OtsLeafHash, Th, TweakHashOf
  <2>2. CASE h # 0
    <3>1. h \in 1 .. h /\ h - h = 0 /\ 2 ^ 0 = 1 /\ 1 \in 1 .. 1
      BY <1>1, <2>2
    <3>2. full[h] = [j \in 1 .. 2 ^ (h - h) |-> Node(pp, lay, tau, h, j - 1, full[h - 1][2 * j - 1], full[h - 1][2 * j])]
      BY <3>1 DEF IsWhole
    <3>3. full[h][1] = Node(pp, lay, tau, h, 1 - 1, full[h - 1][2 * 1 - 1], full[h - 1][2 * 1])
      BY <3>1, <3>2
    <3>4. QED
      BY <3>3 DEF Node, Th, TweakHashOf
  <2>3. QED
    BY <2>1, <2>2
<1>5. QED
  BY <1>2, <1>3, <1>4 DEF EndsWell

\* The rows of a subtree are parts of those of the whole tree.
PartOf(below, full, b, s) ==
    \A l \in 0 .. s : \A j \in 1 .. 2 ^ (s - l) : below[l][j] = full[l][b * 2 ^ (s - l) + j]

\* The subtree b of height s that is built for a leaf is part of the whole tree.
LEMMA SubtreePart ==
    ASSUME NEW lay, Heights[lay] \in Nat, NEW pp, NEW master, NEW tau, NEW full,
           IsWhole(full, pp, master, lay, tau, Heights[lay]), NEW s \in 0 .. Heights[lay],
           NEW b \in 0 .. 2 ^ (Heights[lay] - s) - 1, NEW below,
           below = SphincsBuildUp(pp, lay, tau, LeavesOf(pp, master, lay, tau, b * 2 ^ s, 2 ^ s), 0, s, b * 2 ^ s)
    PROVE  PartOf(below, full, b, s)
<1> DEFINE h == Heights[lay]
           first == b * 2 ^ s
           leaves == LeavesOf(pp, master, lay, tau, first, 2 ^ s)
           Part(l) == \A j \in 1 .. 2 ^ (s - l) : below[l][j] = full[l][b * 2 ^ (s - l) + j]
           P == {l \in 0 .. s : Part(l)}
<1>1. 0 \in Nat /\ h \in Nat /\ s \in Nat /\ s <= h /\ 0 <= s /\ h - s \in Nat
  OBVIOUS
<1>2. 2 ^ s \in Nat \ {0} /\ 2 ^ (h - s) \in Nat \ {0} /\ b \in Nat
  <2> HIDE DEF h
  <2>1. 2 ^ s \in Nat \ {0} /\ 2 ^ (h - s) \in Nat \ {0}
    BY <1>1, PowersDivide DEF h
  <2>2. QED
    BY <2>1 DEF h
<1>3. IsForest(below, pp, lay, tau, leaves, 0, s, first)
  <2> HIDE DEF leaves, first
  <2>1. IsForest(SphincsBuildUp(pp, lay, tau, leaves, 0, s, first), pp, lay, tau, leaves, 0, s, first)
    BY <1>1, SphincsBuildUpIs
  <2>2. below = SphincsBuildUp(pp, lay, tau, leaves, 0, s, first)
    BY DEF leaves, first
  <2>3. QED
    BY <2>1, <2>2
<1>4. ASSUME NEW l \in 0 .. s
      PROVE  /\ 2 ^ (h - l) \in Nat /\ 2 ^ (s - l) \in Nat \ {0}
             /\ \A j \in 1 .. 2 ^ (s - l) : b * 2 ^ (s - l) + j \in 1 .. 2 ^ (h - l)
  <2> DEFINE x == 2 ^ (h - l)
             y == 2 ^ (h - s)
             w == 2 ^ (s - l)
  <2>1. h - l \in Nat /\ s - l \in 0 .. h - l /\ (h - l) - (s - l) = h - s
    BY <1>1
  <2>2. x = y * w /\ x \in Nat \ {0} /\ y \in Nat \ {0} /\ w \in Nat \ {0}
    <3> DEFINE c == h - l
               d == s - l
    <3>1. c \in Nat /\ d \in 0 .. c /\ c - d = h - s
      BY <2>1
    <3> HIDE DEF c, d
    <3>2. 2 ^ c = 2 ^ (c - d) * 2 ^ d /\ 2 ^ c \in Nat \ {0} /\ 2 ^ d \in Nat \ {0} /\ 2 ^ (c - d) \in Nat \ {0}
      BY <3>1, PowersDivide
    <3>3. QED
      BY <3>1, <3>2 DEF c, d
  <2>3. b \in Nat /\ b + 1 <= y
    BY <1>2, <2>2
  <2> HIDE DEF x, y, w
  <2>4. (b + 1) * w <= x /\ (b + 1) * w = b * w + w /\ b * w \in Nat
    <3>1. PICK d \in Nat : y = (b + 1) + d
      <4>1. y - (b + 1) \in Nat /\ y = (b + 1) + (y - (b + 1))
        BY <2>2, <2>3
      <4>2. QED
        BY <4>1
    <3>2. y * w = (b + 1) * w + d * w /\ d * w \in Nat /\ (b + 1) * w \in Nat /\ b * w \in Nat
      BY <2>2, <2>3, <3>1
    <3>3. (b + 1) * w = b * w + w
      BY <2>2, <2>3
    <3>4. QED
      BY <2>2, <3>2, <3>3
  <2>5. \A j \in 1 .. w : b * w + j \in 1 .. x
    <3> DEFINE z == b * w
    <3>1. z \in Nat /\ z + w <= x
      BY <2>2, <2>4
    <3> HIDE DEF z
    <3>2. \A j \in 1 .. w : z + j \in 1 .. x
      BY <2>2, <3>1
    <3>3. QED
      BY <3>2 DEF z
  <2>6. QED
    BY <2>2, <2>5 DEF x, y, w
<1>5. 0 \in P
  <2>1. s - 0 = s /\ 0 \in 0 .. s /\ h - 0 = h
    BY <1>1
  <2>2. below[0] = leaves /\ full[0] = LeavesOf(pp, master, lay, tau, 0, 2 ^ h)
    BY <1>3 DEF IsForest, IsWhole
  <2>3. ASSUME NEW j \in 1 .. 2 ^ s
        PROVE  below[0][j] = full[0][first + j]
    <3>1. first + j \in 1 .. 2 ^ h
      BY <1>4, <2>1
    <3>2. first \in Nat /\ j \in Nat
      <4>1. first \in Nat
        <5> DEFINE w == 2 ^ s
        <5>1. w \in Nat /\ b \in Nat
          BY <1>2
        <5> HIDE DEF w
        <5>2. b * w \in Nat
          BY <5>1
        <5>3. QED
          BY <5>2 DEF w
      <4>2. QED
        BY <1>2, <4>1
    <3> HIDE DEF first, leaves
    <3>3. leaves[j] = OtsPublicLeaf(pp, master, Pos(lay, tau, first + j - 1))
      BY DEF LeavesOf, leaves
    <3>4. full[0][first + j] = OtsPublicLeaf(pp, master, Pos(lay, tau, 0 + (first + j) - 1))
      BY <2>2, <3>1 DEF LeavesOf
    <3>5. 0 + (first + j) - 1 = first + j - 1
      BY <3>2
    <3>6. QED
      BY <2>2, <3>3, <3>4, <3>5
  <2>4. Part(0)
    BY <2>1, <2>3
  <2>5. QED
    BY <2>1, <2>4
<1>6. ASSUME NEW l \in 0 .. s - 1, l \in P
      PROVE  l + 1 \in P
  <2> DEFINE m == l + 1
             w == 2 ^ (s - m)
             B == b * w
  <2>1. m \in 0 .. s /\ m \in 1 .. h /\ m \in 0 + 1 .. s /\ m - 1 = l /\ m - 0 = m /\ l \in 0 .. s /\ m \in Nat
    BY <1>1
  <2>2. w \in Nat \ {0} /\ 2 ^ (s - l) = 2 * w /\ B \in Nat /\ b * 2 ^ (s - l) = 2 * B
    <3>1. w \in Nat \ {0}
      BY <1>4, <2>1
    <3>2. 2 ^ (s - l) = 2 * w
      <4> DEFINE d == s - m
      <4>1. d \in Nat /\ s - l = d + 1
        BY <1>1, <2>1
      <4> HIDE DEF d
      <4>2. 2 ^ (d + 1) = 2 * 2 ^ d
        BY <4>1, Doubling
      <4>3. QED
        BY <4>1, <4>2 DEF d
    <3> HIDE DEF w
    <3>3. B \in Nat /\ b * (2 * w) = 2 * B
      BY <1>2, <3>1
    <3>4. QED
      BY <3>1, <3>2, <3>3
  <2>3. full[m] = [j \in 1 .. 2 ^ (h - m) |->
                     Node(pp, lay, tau, m, j - 1, full[m - 1][2 * j - 1], full[m - 1][2 * j])]
    BY <2>1 DEF IsWhole
  <2>4. below[m] = RowOn(below, pp, lay, tau, 2 ^ s, 0, first, m)
    <3>1. Len(leaves) = 2 ^ s
      <4> DEFINE n == 2 ^ s
      <4>1. n \in Nat
        BY <1>2
      <4> HIDE DEF n, first
      <4>2. Len(LeavesOf(pp, master, lay, tau, first, n)) = n
        BY <4>1 DEF LeavesOf
      <4>3. QED
        BY <4>2 DEF n
    <3>2. below[m] = RowOn(below, pp, lay, tau, Len(leaves), 0, first, m)
      <4> HIDE DEF leaves, first, m
      <4>1. QED
        BY <1>3, <2>1 DEF IsForest
    <3>3. QED
      BY <3>1, <3>2
  <2>5. below[m] = [j \in 1 .. w |-> Node(pp, lay, tau, m, B + j - 1, below[m - 1][2 * j - 1], below[m - 1][2 * j])]
    <3>1. 2 ^ s \div 2 ^ m = w /\ first \div 2 ^ m = B
      <4> HIDE DEF m
      <4>1. 2 ^ s \div 2 ^ m = 2 ^ (s - m) /\ (b * 2 ^ s) \div 2 ^ m = b * 2 ^ (s - m)
        BY <1>1, <1>2, <2>1, PowersDivide
      <4>2. QED
        BY <4>1
    <3> HIDE DEF m, w, B, first
    <3>2. QED
      BY <2>1, <2>4, <3>1, Zenon DEF RowOn
  <2>6. ASSUME NEW j \in 1 .. w
        PROVE  below[m][j] = full[m][B + j]
    <3> HIDE DEF P
    <3>1. B + j \in 1 .. 2 ^ (h - m)
      BY <1>4, <2>1
    <3>2. \A i \in 1 .. 2 ^ (s - l) : below[l][i] = full[l][b * 2 ^ (s - l) + i]
      BY <1>6 DEF P
    <3>3. \A i \in 1 .. 2 * w : below[l][i] = full[l][2 * B + i]
      <4> HIDE DEF w, B
      <4>1. QED
        BY <2>2, <3>2
    <3> HIDE DEF m, w, B
    <3>4. 2 * j - 1 \in 1 .. 2 * w /\ 2 * j \in 1 .. 2 * w
      BY <2>2
    <3>5. below[l][2 * j - 1] = full[l][2 * (B + j) - 1] /\ below[l][2 * j] = full[l][2 * (B + j)]
      <4>1. 2 * B + (2 * j - 1) = 2 * (B + j) - 1 /\ 2 * B + 2 * j = 2 * (B + j)
        BY <2>2
      <4>2. QED
        BY <3>3, <3>4, <4>1
    <3>6. below[m][j] = Node(pp, lay, tau, m, B + j - 1, below[l][2 * j - 1], below[l][2 * j])
      BY <2>1, <2>5
    <3>7. full[m][B + j] = Node(pp, lay, tau, m, B + j - 1, full[l][2 * (B + j) - 1], full[l][2 * (B + j)])
      <4>1. m - 1 = l
        BY <2>1
      <4> HIDE DEF h
      <4>2. \A i \in 1 .. 2 ^ (h - m) : full[m][i] = Node(pp, lay, tau, m, i - 1, full[l][2 * i - 1], full[l][2 * i])
        BY <2>3, <4>1
      <4>3. (B + j) - 1 = B + j - 1 /\ B + j \in 1 .. 2 ^ (h - m)
        BY <2>2, <3>1
      <4>4. QED
        BY <4>2, <4>3
    <3>8. QED
      BY <3>5, <3>6, <3>7
  <2>7. Part(m)
    BY <2>6
  <2>8. QED
    BY <2>1, <2>7
<1>7. \A l \in 0 .. s : l \in P
  <2> HIDE DEF P
  <2>1. QED
    BY <1>1, <1>5, <1>6, UpTo
<1>8. QED
  BY <1>7 DEF PartOf

\* The rows from s on are those of the whole tree.
TopOf(above, full, s, h) == \A l \in s .. h : above[l] = full[l]

\* What is built on a row of the whole tree is the rest of it.
LEMMA TopPart ==
    ASSUME NEW lay, Heights[lay] \in Nat, NEW pp, NEW master, NEW tau, NEW full,
           IsWhole(full, pp, master, lay, tau, Heights[lay]), NEW s \in 0 .. Heights[lay], NEW above,
           above = SphincsBuildUp(pp, lay, tau, full[s], s, Heights[lay], 0)
    PROVE  TopOf(above, full, s, Heights[lay])
<1> DEFINE h == Heights[lay]
           row == full[s]
           P == {k \in 0 .. h - s : above[s + k] = full[s + k]}
<1>1. h \in Nat /\ s \in Nat /\ s <= h /\ h - s \in Nat
  OBVIOUS
<1>2. IsForest(above, pp, lay, tau, row, s, h, 0)
  <2> HIDE DEF row, h
  <2>1. IsForest(SphincsBuildUp(pp, lay, tau, row, s, h, 0), pp, lay, tau, row, s, h, 0)
    BY <1>1, SphincsBuildUpIs
  <2>2. QED
    BY <2>1 DEF row, h
<1>3. 2 ^ (h - s) \in Nat \ {0}
  <2> DEFINE d == h - s
  <2>1. d \in Nat
    BY <1>1
  <2> HIDE DEF d
  <2>2. 2 ^ d \in Nat \ {0}
    BY <2>1, Halving
  <2>3. QED
    BY <2>2 DEF d
<1>4. Len(row) = 2 ^ (h - s)
  <2>1. CASE s = 0
    <3>1. h - s = h /\ row = LeavesOf(pp, master, lay, tau, 0, 2 ^ h)
      BY <1>1, <2>1 DEF IsWhole
    <3> DEFINE n == 2 ^ h
    <3>2. n \in Nat
      BY <1>3, <3>1
    <3> HIDE DEF n
    <3>3. Len(LeavesOf(pp, master, lay, tau, 0, n)) = n
      BY <3>2 DEF LeavesOf
    <3>4. QED
      BY <3>1, <3>3 DEF n
  <2>2. CASE s # 0
    <3>1. s \in 1 .. h
      BY <1>1, <2>2
    <3>2. row = [j \in 1 .. 2 ^ (h - s) |-> Node(pp, lay, tau, s, j - 1, full[s - 1][2 * j - 1], full[s - 1][2 * j])]
      BY <3>1 DEF IsWhole
    <3> DEFINE n == 2 ^ (h - s)
    <3>3. n \in Nat /\ row = [j \in 1 .. n |-> Node(pp, lay, tau, s, j - 1, full[s - 1][2 * j - 1], full[s - 1][2 * j])]
      BY <1>3, <3>2
    <3> HIDE DEF n, row
    <3>4. Len(row) = n
      BY <3>3
    <3>5. QED
      BY <3>4 DEF n
  <2>3. QED
    BY <2>1, <2>2
<1> HIDE DEF row
<1>5. 0 \in P
  <2>1. s + 0 = s /\ above[s] = row
    BY <1>1, <1>2 DEF IsForest
  <2>2. QED
    BY <1>1, <2>1 DEF row
<1>6. ASSUME NEW k \in 0 .. (h - s) - 1, k \in P
      PROVE  k + 1 \in P
  <2> DEFINE m == s + (k + 1)
  <2>1. m \in s + 1 .. h /\ m \in 1 .. h /\ m - 1 = s + k /\ m - s \in 0 .. h - s /\ (h - s) - (m - s) = h - m
    BY <1>1
  <2>2. above[m - 1] = full[m - 1]
    BY <1>6, <2>1
  <2> HIDE DEF m
  <2>3. full[m] = [j \in 1 .. 2 ^ (h - m) |->
                     Node(pp, lay, tau, m, j - 1, full[m - 1][2 * j - 1], full[m - 1][2 * j])]
    BY <2>1 DEF IsWhole
  <2>4. above[m] = RowOn(above, pp, lay, tau, 2 ^ (h - s), s, 0, m)
    <3>1. above[m] = RowOn(above, pp, lay, tau, Len(row), s, 0, m)
      <4> HIDE DEF h
      <4>1. QED
        BY <1>2, <2>1 DEF IsForest
    <3>2. QED
      BY <1>4, <3>1
  <2>5. 2 ^ (h - s) \div 2 ^ (m - s) = 2 ^ (h - m) /\ 0 \div 2 ^ (m - s) = 0
    <3> DEFINE c == h - s
               d == m - s
               w == 2 ^ d
    <3>1. c \in Nat /\ d \in 0 .. c /\ c - d = h - m
      BY <1>1, <2>1
    <3> HIDE DEF c, d
    <3>2. 2 ^ c \div 2 ^ d = 2 ^ (c - d) /\ w \in Nat \ {0}
      BY <3>1, PowersDivide
    <3> HIDE DEF w
    <3>3. 0 \div w = 0
      BY <3>2
    <3>4. QED
      BY <3>1, <3>2, <3>3 DEF c, d, w
  <2>6. above[m] = [j \in 1 .. 2 ^ (h - m) |->
                      Node(pp, lay, tau, m, 0 + j - 1, above[m - 1][2 * j - 1], above[m - 1][2 * j])]
    BY <2>4, <2>5, Zenon DEF RowOn
  <2>7. \A j \in 1 .. 2 ^ (h - m) : 0 + j - 1 = j - 1
    OBVIOUS
  <2>8. above[m] = full[m]
    <3> HIDE DEF h
    <3>1. QED
      BY <2>2, <2>3, <2>6, <2>7
  <2>9. k + 1 \in 0 .. h - s
    BY <1>1
  <2>10. QED
    BY <2>8, <2>9 DEF m
<1>7. \A k \in 0 .. h - s : k \in P
  <2> HIDE DEF P
  <2> DEFINE n == h - s
  <2>1. n \in Nat /\ 0 \in P /\ \A k \in 0 .. n - 1 : k \in P => k + 1 \in P
    BY <1>1, <1>5, <1>6
  <2> HIDE DEF n
  <2>2. \A k \in 0 .. n : k \in P
    BY <2>1, UpTo
  <2>3. QED
    BY <2>2 DEF n
<1>8. ASSUME NEW l \in s .. h
      PROVE  above[l] = full[l]
  <2>1. l - s \in 0 .. h - s /\ s + (l - s) = l
    BY <1>1
  <2>2. QED
    BY <1>7, <2>1
<1>9. QED
  BY <1>8 DEF TopOf

-----------------------------------------------------------------------------
(* The secret key. *)

\* What a key keeps of its one tree on the top layer.
SecretOk(k) ==
    LET full == WholeTree(k.param, k.master, 1, 0)
    IN  k.made = TRUE /\ k.cache = full[SplitLevel] /\ k.root = full[Heights[1]][1]

\* The split is inside of the tree.
LEMMA SplitInside == /\ Heights[1] \in Nat /\ SplitLevel \in 0 .. Heights[1] /\ Len(Heights) \in Nat \ {0}
                     /\ \A lay \in Layers : Heights[lay] \in Nat
<1>1. Len(Heights) \in Nat \ {0} /\ \A lay \in 1 .. Len(Heights) : Heights[lay] \in Nat
  BY SphincsAssumption
<1>2. 1 \in 1 .. Len(Heights)
  BY <1>1
<1>3. Heights[1] \in Nat
  BY <1>1, <1>2
<1>4. (Heights[1] + 1) \div 2 \in 0 .. Heights[1]
  BY <1>3
<1>5. QED
  BY <1>1, <1>3, <1>4 DEF SplitLevel, Layers

\* A sibling below the split is in the subtree of the leaf.
SitsIn(s, e, l, b) ==
    /\ Neighbour(Shift(e, l)) - b * 2 ^ (s - l) + 1 \in 1 .. 2 ^ (s - l)
    /\ (b * 2 ^ s) \div 2 ^ l = b * 2 ^ (s - l)
    /\ b * 2 ^ (s - l) \in Nat /\ Neighbour(Shift(e, l)) \in Nat

\* It is there because its parent is on the way of the leaf.
LEMMA SiblingInside ==
    ASSUME NEW s \in Nat, NEW e \in Nat, NEW l \in 0 .. s - 1, NEW b, b = e \div 2 ^ s
    PROVE  SitsIn(s, e, l, b)
<1> DEFINE x == 2 ^ s
           w == 2 ^ l
           y == 2 ^ (s - l)
           m == e \div w
<1>1. l \in 0 .. s /\ s - (l + 1) \in Nat /\ (s - (l + 1)) + 1 = s - l /\ l \in Nat
  OBVIOUS
<1>2. x \in Nat \ {0}
  BY Halving
<1>3. b \in Nat /\ b * x <= e /\ e < b * x + x
  <2> HIDE DEF x
  <2>1. b = e \div x
    BY DEF x
  <2>2. QED
    BY <1>2, <2>1
<1>4. x = y * w /\ y \in Nat \ {0} /\ w \in Nat \ {0} /\ (b * x) \div w = b * y
  <2> HIDE DEF x, y, w
  <2>1. /\ (b * 2 ^ s) \div 2 ^ l = b * 2 ^ (s - l) /\ 2 ^ s = 2 ^ (s - l) * 2 ^ l
        /\ 2 ^ l \in Nat \ {0} /\ 2 ^ (s - l) \in Nat \ {0}
    BY <1>1, <1>3, PowersDivide
  <2>2. QED
    BY <2>1 DEF x, y, w
<1>5. \E z \in Nat \ {0} : y = 2 * z
  <2> DEFINE d == s - (l + 1)
  <2>1. d \in Nat /\ d + 1 = s - l
    BY <1>1
  <2> HIDE DEF d
  <2>2. 2 ^ (d + 1) = 2 * 2 ^ d /\ 2 ^ d \in Nat \ {0}
    BY <2>1, Doubling, Halving
  <2>3. QED
    BY <2>1, <2>2
<1>6. Shift(e, l) = m
  BY DEF Shift
<1> HIDE DEF x, y, w
<1> DEFINE B == b * y
<1>7. B \in Nat /\ b * x = B * w /\ (b + 1) * x = (B + y) * w /\ (b + 1) * x = b * x + x
  <2>1. b \in Nat /\ x \in Nat /\ y \in Nat /\ w \in Nat /\ x = y * w
    BY <1>2, <1>3, <1>4
  <2>2. b * (y * w) = (b * y) * w /\ b * y \in Nat
    BY <2>1
  <2> HIDE DEF B
  <2>3. B \in Nat /\ b * x = B * w
    BY <2>1, <2>2 DEF B
  <2>4. (b + 1) * x = b * x + x /\ (B + y) * w = B * w + y * w
    <3>1. \A p, q, r \in Nat : (p + q) * r = p * r + q * r
      BY Z3
    <3>2. \A p, r \in Nat : (p + 1) * r = p * r + r
      BY Z3
    <3>3. (b + 1) * x = b * x + x
      BY <2>1, <3>2, Zenon
    <3>4. (B + y) * w = B * w + y * w
      BY <2>1, <2>3, <3>1, SMTT(60)
    <3>5. QED
      BY <3>3, <3>4
  <2>5. QED
    BY <2>1, <2>3, <2>4
<1>8. m \in Nat /\ B <= m /\ m < B + y
  <2>1. B * w <= e /\ e < (B + y) * w /\ B + y \in Nat
    BY <1>3, <1>4, <1>7
  <2> HIDE DEF B, m
  <2>2. e \div w \in Nat /\ B <= e \div w /\ e \div w < B + y
    BY <1>4, <1>7, <2>1, Between
  <2>3. QED
    BY <2>2 DEF m
<1> HIDE DEF m
<1>9. \E c \in Nat : B = 2 * c
  <2>1. PICK z \in Nat \ {0} : y = 2 * z
    BY <1>5
  <2>2. B = 2 * (b * z) /\ b * z \in Nat
    BY <1>3, <2>1
  <2>3. QED
    BY <2>2
<1> HIDE DEF B
<1>10. Neighbour(m) \in Nat /\ Neighbour(m) - B + 1 \in 1 .. y
  <2>1. PICK z \in Nat \ {0}, c \in Nat : y = 2 * z /\ B = 2 * c
    BY <1>5, <1>9
  <2>2. QED
    BY <1>7, <1>8, <2>1 DEF Neighbour
<1>11. QED
  BY <1>4, <1>6, <1>7, <1>10 DEF B, x, y, w, SitsIn

\* The path from the kept nodes and the subtree of a leaf is that of the whole tree, and so is the root.
LEMMA CachedIs ==
    ASSUME SecretOk(sk), NEW e \in 0 .. 2 ^ Heights[1] - 1, NEW full,
           full = WholeTree(sk.param, sk.master, 1, 0)
    PROVE  CachedPathAndRoot(e) = [path |-> PathIn(full, e, Heights[1]), root |-> full[Heights[1]][1]]
<1> DEFINE h == Heights[1]
           s == SplitLevel
           b == e \div 2 ^ s
           first == b * 2 ^ s
           below == SphincsBuildUp(sk.param, 1, 0, LeavesOf(sk.param, sk.master, 1, 0, first, 2 ^ s), 0, s, first)
           above == SphincsBuildUp(sk.param, 1, 0, sk.cache, s, h, 0)
           read(level) == IF level - 1 < s
                          THEN below[level - 1][Sibling(e, level - 1) - first \div 2 ^ (level - 1) + 1]
                          ELSE above[level - 1][Sibling(e, level - 1) + 1]
<1>1. h \in Nat /\ s \in 0 .. h /\ s \in Nat /\ e \in Nat /\ 2 ^ h \in Nat /\ 2 ^ s \in Nat \ {0} /\ b \in Nat
  <2>1. h \in Nat /\ s \in 0 .. h
    BY SplitInside
  <2>2. s \in Nat /\ 2 ^ h \in Nat
    BY <2>1, Halving
  <2>3. e \in Nat
    BY <2>2
  <2> HIDE DEF s
  <2>4. e \div 2 ^ s \in Nat /\ 2 ^ s \in Nat \ {0}
    BY <2>2, <2>3, Halving
  <2>5. QED
    BY <2>1, <2>2, <2>3, <2>4
<1>2. IsWhole(full, sk.param, sk.master, 1, 0, Heights[1])
  BY <1>1, NodesOfWhole
<1>3. sk.cache = full[s] /\ Heights[1] \in Nat /\ s \in 0 .. Heights[1]
  BY <1>1 DEF SecretOk
<1>4. b \in 0 .. 2 ^ (Heights[1] - s) - 1
  <2> DEFINE x == 2 ^ h
             y == 2 ^ (h - s)
             w == 2 ^ s
  <2>1. x = y * w /\ w \in Nat \ {0} /\ y \in Nat \ {0}
    <3> HIDE DEF h, s
    <3>1. QED
      BY <1>1, PowersDivide
  <2>2. e < x /\ 0 * w <= e /\ b = e \div w
    <3>1. e < x
      BY <1>1
    <3>2. b = e \div w
      OBVIOUS
    <3> HIDE DEF w, x, b
    <3>3. 0 * w <= e
      BY <1>1, <2>1
    <3>4. QED
      BY <3>1, <3>2, <3>3
  <2> HIDE DEF x, y, w, b, s
  <2>3. e \div w < y
    BY <1>1, <2>1, <2>2, Between
  <2>4. b \in 0 .. y - 1
    BY <1>1, <2>1, <2>2, <2>3
  <2>5. QED
    BY <2>4 DEF y, h
<1>5. PartOf(below, full, b, s)
  <2> HIDE DEF below, b, s
  <2>1. below = SphincsBuildUp(sk.param, 1, 0, LeavesOf(sk.param, sk.master, 1, 0, b * 2 ^ s, 2 ^ s), 0, s, b * 2 ^ s)
    BY DEF below
  <2>2. QED
    BY <1>2, <1>3, <1>4, <2>1, SubtreePart
<1>6. TopOf(above, full, s, Heights[1])
  <2> HIDE DEF above, s
  <2>1. above = SphincsBuildUp(sk.param, 1, 0, full[s], s, Heights[1], 0)
    BY <1>3 DEF above
  <2>2. QED
    BY <1>2, <1>3, <2>1, TopPart
<1>7. ASSUME NEW level \in 1 .. h
      PROVE  read(level) = full[level - 1][Neighbour(Shift(e, level - 1)) + 1]
  <2> DEFINE l == level - 1
             n == Neighbour(Shift(e, l))
  <2>1. Sibling(e, l) = n
    BY DEF Sibling, Neighbour, Shift
  <2>2. l \in 0 .. h /\ l \in Nat
    BY <1>1
  <2> HIDE DEF l, n, below, above
  <2>3. CASE l < s
    <3>1. l \in 0 .. s - 1 /\ l \in 0 .. s
      BY <1>1, <2>2, <2>3
    <3> DEFINE B == b * 2 ^ (s - l)
    <3>2. n - B + 1 \in 1 .. 2 ^ (s - l) /\ first \div 2 ^ l = B /\ B \in Nat /\ n \in Nat
      <4> HIDE DEF b, s, h
      <4>1. b = e \div 2 ^ s
        BY DEF b
      <4>2. SitsIn(s, e, l, b)
        BY <1>1, <3>1, <4>1, SiblingInside
      <4>3. QED
        BY <4>2 DEF n, SitsIn
    <3>3. \A j \in 1 .. 2 ^ (s - l) : below[l][j] = full[l][B + j]
      BY <1>5, <3>1 DEF PartOf
    <3> HIDE DEF B, first, s
    <3>4. below[l][n - B + 1] = full[l][B + (n - B + 1)]
      BY <3>2, <3>3
    <3>5. B + (n - B + 1) = n + 1
      BY <3>2
    <3>6. read(level) = below[l][Sibling(e, l) - first \div 2 ^ l + 1]
      BY <2>3 DEF l
    <3> HIDE DEF read
    <3>7. read(level) = full[l][n + 1]
      BY <2>1, <3>2, <3>4, <3>5, <3>6
    <3>8. QED
      BY <3>7 DEF n, l
  <2>4. CASE ~(l < s)
    <3>1. l \in s .. Heights[1]
      BY <1>1, <2>2, <2>4
    <3>2. above[l] = full[l]
      BY <1>6, <3>1 DEF TopOf
    <3>3. read(level) = above[l][Sibling(e, l) + 1]
      BY <2>4 DEF l
    <3> HIDE DEF read
    <3>4. read(level) = full[l][n + 1]
      BY <2>1, <3>2, <3>3
    <3>5. QED
      BY <3>4 DEF n, l
  <2>5. QED
    BY <2>3, <2>4
<1>8. above[h] = full[h]
  <2>1. h \in s .. Heights[1]
    BY <1>1
  <2>2. QED
    BY <1>6, <2>1 DEF TopOf
<1>9. CachedPathAndRoot(e) = [path |-> [level \in 1 .. h |-> read(level)], root |-> above[h][1]]
  BY Zenon DEF CachedPathAndRoot
<1> HIDE DEF read, above
<1>10. [level \in 1 .. h |-> read(level)] = PathIn(full, e, h)
  BY <1>7 DEF PathIn
<1>11. QED
  BY <1>8, <1>9, <1>10

\* So are the path and the root of any other tree.
LEMMA TreeIs ==
    ASSUME NEW lay, Heights[lay] \in Nat, NEW tau, NEW e \in Nat, NEW full,
           full = WholeTree(sk.param, sk.master, lay, tau)
    PROVE  TreePathAndRoot(lay, tau, e) = [path |-> PathIn(full, e, Heights[lay]), root |-> full[Heights[lay]][1]]
<1>1. \A level : Sibling(e, level) = Neighbour(Shift(e, level))
  BY DEF Sibling, Neighbour, Shift
<1>2. TreePathAndRoot(lay, tau, e) =
        [path |-> [level \in 1 .. Heights[lay] |-> full[level - 1][Sibling(e, level - 1) + 1]],
         root |-> full[Heights[lay]][1]]
  BY Zenon DEF TreePathAndRoot, WholeTree
<1>3. PathIn(full, e, Heights[lay]) = [level \in 1 .. Heights[lay] |-> full[level - 1][Sibling(e, level - 1) + 1]]
  BY <1>1 DEF PathIn
<1>4. QED
  BY <1>2, <1>3

\* The first of the good is good.
LEMMA FirstIsGood ==
    ASSUME NEW T \in SUBSET Nat, FirstOf(T) # -1
    PROVE  FirstOf(T) \in T
<1>1. T # {}
  BY DEF FirstOf
<1>2. \E i \in T : \A j \in T : i <= j
  BY <1>1, LeastElement
<1>3. FirstOf(T) = CHOOSE i \in T : \A j \in T : i <= j
  BY <1>1 DEF FirstOf
<1>4. QED
  BY <1>2, <1>3

\* The digits of a one-time signature are those of a codeword, or there are none.
OtsDigitsFit == \A d : OtsDigitsOf(d) = << >> \/ OtsDigitsOf(d) \in [1 .. OtsChains -> 0 .. OtsLength - 1]

\* The rest of a chain leads to its end.
LEMMA RestOfOts ==
    ASSUME NEW a \in 0 .. OtsLength - 1, NEW value, NEW pp, NEW pos, NEW i \in Nat
    PROVE  Chain(pp, pos, i, a, OtsLength - 1 - a, Chain(pp, pos, i, 0, a, value))
             = Chain(pp, pos, i, 0, OtsLength - 1, value)
<1> DEFINE n == OtsLength - 1
           T(start, k) == SphincsTweak("CHAIN", pos.lay, pos.tau, OtsLength * i + start + k - 1, pos.e)
           tweaks == [k \in 1 .. n |-> T(0, k)]
           first == [k \in 1 .. a |-> T(0, k)]
           rest == [k \in 1 .. n - a |-> T(a, k)]
<1>1. n \in Nat /\ a \in 0 .. n /\ Len(tweaks) = n /\ OtsLength * i \in Nat
  BY SphincsAssumption
<1>2. first = [k \in 1 .. a |-> tweaks[k]]
  <2>1. \A k \in 1 .. a : k \in 1 .. n
    BY <1>1
  <2> HIDE DEF T
  <2>2. QED
    BY <2>1
<1>3. rest = [k \in 1 .. n - a |-> tweaks[a + k]]
  <2> DEFINE x == OtsLength * i
  <2>1. \A k \in 1 .. n - a : a + k \in 1 .. n /\ x + 0 + (a + k) - 1 = x + a + k - 1
    <3> HIDE DEF x
    <3>1. QED
      BY <1>1 DEF x
  <2>2. \A k \in 1 .. n - a : T(0, a + k) = T(a, k)
    BY <2>1
  <2> HIDE DEF T
  <2>3. QED
    BY <2>1, <2>2
<1>4. Iterate(pp, rest, Iterate(pp, first, value)) = Iterate(pp, tweaks, value)
  <2> HIDE DEF n, tweaks, first, rest
  <2>1. QED
    BY <1>1, <1>2, <1>3, IterateTwice, SMTT(60)
<1>5. QED
  BY <1>4 DEF Chain

\* A one-time signature leads to the leaf of its key.
LEMMA OtsRecovers ==
    ASSUME OtsDigitsFit, NEW pp, NEW master, NEW pos, NEW m, NEW ots, ots = OtsSign(pp, master, pos, m),
           ots.counter # -1
    PROVE  OtsLeaf(pp, pos, m, ots) = OtsPublicLeaf(pp, master, pos)
<1> DEFINE Good == {k \in 0 .. MaxEncodingAttempts - 1 : Encode(pp, pos, m, k) # << >>}
           c == FirstOf(Good)
           x == Encode(pp, pos, m, c)
           d == OtsDigitsOf(Th(pp, SphincsTweak("ENC", pos.lay, pos.tau, 0, pos.e), <<m, <<c>>>>))
           O == [counter |-> c,
                 tips |-> [i \in 1 .. OtsChains |-> Chain(pp, pos, i, 0, x[i], OtsSecret(pp, master, pos, i))]]
<1>1. ots = IF c = -1 THEN [counter |-> -1] ELSE O
  BY Zenon DEF OtsSign
<1>2. c # -1
  BY <1>1
<1>3. ots.counter = c /\ ots.tips = [i \in 1 .. OtsChains |-> Chain(pp, pos, i, 0, x[i], OtsSecret(pp, master, pos, i))]
  BY <1>1, <1>2
<1>4. x # << >>
  <2>1. Good \in SUBSET Nat
    BY SphincsAssumption
  <2>2. c \in Good
    <3> HIDE DEF Good
    <3>1. QED
      BY <1>2, <2>1, FirstIsGood
  <2> HIDE DEF c
  <2>3. QED
    BY <2>2
<1>5. x \in [1 .. OtsChains -> 0 .. OtsLength - 1]
  <2>1. x = d
    BY <1>4 DEF Encode, CodewordOf
  <2>2. d = << >> \/ d \in [1 .. OtsChains -> 0 .. OtsLength - 1]
    BY Zenon DEF OtsDigitsFit
  <2> HIDE DEF d, x
  <2>3. QED
    BY <1>4, <2>1, <2>2
<1> HIDE DEF c
<1>6. ASSUME NEW i \in 1 .. OtsChains
      PROVE  Chain(pp, pos, i, x[i], OtsLength - 1 - x[i], ots.tips[i])
               = Chain(pp, pos, i, 0, OtsLength - 1, OtsSecret(pp, master, pos, i))
  <2> HIDE DEF x
  <2>1. x[i] \in 0 .. OtsLength - 1
    BY <1>5
  <2>2. ots.tips[i] = Chain(pp, pos, i, 0, x[i], OtsSecret(pp, master, pos, i))
    BY <1>3
  <2>3. i \in Nat
    BY SphincsAssumption
  <2>4. QED
    BY <2>1, <2>2, <2>3, RestOfOts
<1>7. OtsLeaf(pp, pos, m, ots) = OtsLeafHash(pp, pos, [i \in 1 .. OtsChains |->
                                   Chain(pp, pos, i, x[i], OtsLength - 1 - x[i], ots.tips[i])])
  BY <1>3, <1>4 DEF OtsLeaf
<1> HIDE DEF x
<1>8. QED
  BY <1>6, <1>7 DEF OtsPublicLeaf

-----------------------------------------------------------------------------
(* Few-time signatures. *)

\* A node of a few-time tree, the level below it being known.
FtsAt(at, pp, master, idx, kappa, level, j) ==
    IF level = 0 THEN FtsLeaf(pp, idx, kappa, j, FtsSecret(pp, master, idx, kappa, j))
    ELSE FtsNode(pp, idx, kappa, level, j, at[level - 1][2 * j], at[level - 1][2 * j + 1])
FtsRow(at, pp, master, idx, kappa, h, level) ==
    [j \in 0 .. 2 ^ (h - level) - 1 |-> FtsAt(at, pp, master, idx, kappa, level, j)]

\* The recursion of a few-time tree.
FtsGrowing(at, pp, master, idx, kappa, h, n) == [level \in 0 .. n |-> FtsRow(at, pp, master, idx, kappa, h, level)]

\* There is such a tree.
LEMMA FtsGrowingExists ==
    ASSUME NEW n \in Nat, NEW pp, NEW master, NEW idx, NEW kappa, NEW h
    PROVE  \E at : at = FtsGrowing(at, pp, master, idx, kappa, h, n)
<1> DEFINE Row(at, level) == FtsRow(at, pp, master, idx, kappa, h, level)
           S == {m \in 0 .. n : \E at : at = FtsGrowing(at, pp, master, idx, kappa, h, m)}
<1>1. 0 \in S
  <2> DEFINE v == [level \in 0 .. 0 |-> Row(<< >>, 0)]
  <2>1. \A at : Row(at, 0) = Row(<< >>, 0)
    BY DEF FtsRow, FtsAt
  <2>2. \A level \in 0 .. 0 : level = 0
    OBVIOUS
  <2>3. v = [level \in 0 .. 0 |-> Row(v, level)]
    <3> HIDE DEF v, Row
    <3>1. \A level \in 0 .. 0 : Row(v, level) = Row(<< >>, 0)
      BY <2>1, <2>2
    <3>2. QED
      BY <3>1 DEF v
  <2> HIDE DEF v
  <2>4. v = FtsGrowing(v, pp, master, idx, kappa, h, 0)
    BY <2>3 DEF FtsGrowing
  <2>5. QED
    BY <2>4
<1>2. ASSUME NEW m \in 0 .. n - 1, m \in S
      PROVE  m + 1 \in S
  <2>1. PICK old : old = FtsGrowing(old, pp, master, idx, kappa, h, m)
    BY <1>2
  <2> DEFINE v == [level \in 0 .. m + 1 |-> IF level <= m THEN old[level] ELSE Row(old, level)]
  <2>2. \A level \in 0 .. m : v[level] = old[level]
    OBVIOUS
  <2>3. v[m + 1] = Row(old, m + 1)
    <3>1. m + 1 \in 0 .. m + 1 /\ ~(m + 1 <= m)
      OBVIOUS
    <3> HIDE DEF Row
    <3>2. QED
      BY <3>1
  <2>4. v = [level \in 0 .. m + 1 |-> v[level]]
    OBVIOUS
  <2> HIDE DEF v
  <2>5. ASSUME NEW level \in 0 .. m + 1
        PROVE  Row(v, level) = Row(old, level)
    <3>1. CASE level = 0
      BY <3>1 DEF FtsRow, FtsAt
    <3>2. CASE level # 0
      <4>1. level - 1 \in 0 .. m
        BY <3>2
      <4>2. v[level - 1] = old[level - 1]
        BY <2>2, <4>1
      <4>3. QED
        BY <4>2 DEF FtsRow, FtsAt
    <3>3. QED
      BY <3>1, <3>2
  <2>6. ASSUME NEW level \in 0 .. m + 1
        PROVE  v[level] = Row(v, level)
    <3>1. \A l \in 0 .. m : old[l] = Row(old, l)
      BY <2>1 DEF FtsGrowing
    <3> HIDE DEF Row
    <3>2. level \in 0 .. m \/ level = m + 1
      OBVIOUS
    <3>3. QED
      BY <2>2, <2>3, <2>5, <3>1, <3>2
  <2>7. v = FtsGrowing(v, pp, master, idx, kappa, h, m + 1)
    BY <2>4, <2>6 DEF FtsGrowing
  <2>8. QED
    BY <2>7
<1>3. n \in S
  <2> HIDE DEF S
  <2>1. \A k \in 0 .. n : k \in S
    BY <1>1, <1>2, UpTo
  <2>2. QED
    BY <2>1
<1>4. QED
  BY <1>3

\* The tree of a few-time signature.
FtsTree(pp, master, idx, kappa) ==
    CHOOSE at : at = FtsGrowing(at, pp, master, idx, kappa, FtsHeight, FtsHeight)

\* It is one.
IsFts(at, pp, master, idx, kappa) ==
    /\ \A j \in 0 .. 2 ^ FtsHeight - 1 : at[0][j] = FtsLeaf(pp, idx, kappa, j, FtsSecret(pp, master, idx, kappa, j))
    /\ \A level \in 1 .. FtsHeight : \A j \in 0 .. 2 ^ (FtsHeight - level) - 1 :
         at[level][j] = FtsNode(pp, idx, kappa, level, j, at[level - 1][2 * j], at[level - 1][2 * j + 1])

\* The tree that is computed is one.
LEMMA FtsTreeIs ==
    ASSUME NEW pp, NEW master, NEW idx, NEW kappa
    PROVE  IsFts(FtsTree(pp, master, idx, kappa), pp, master, idx, kappa)
<1> DEFINE at == FtsTree(pp, master, idx, kappa)
           h == FtsHeight
<1>1. h \in Nat
  BY SphincsAssumption
<1>2. at = FtsGrowing(at, pp, master, idx, kappa, h, h)
  BY <1>1, FtsGrowingExists DEF FtsTree
<1> HIDE DEF at
<1>3. \A level \in 0 .. h : at[level] = FtsRow(at, pp, master, idx, kappa, h, level)
  BY <1>2 DEF FtsGrowing
<1>4. ASSUME NEW j \in 0 .. 2 ^ h - 1
      PROVE  at[0][j] = FtsLeaf(pp, idx, kappa, j, FtsSecret(pp, master, idx, kappa, j))
  <2>1. 0 \in 0 .. h /\ h - 0 = h
    BY <1>1
  <2>2. at[0] = FtsRow(at, pp, master, idx, kappa, h, 0)
    BY <1>3, <2>1
  <2>3. at[0][j] = FtsAt(at, pp, master, idx, kappa, 0, j)
    <3> HIDE DEF h
    <3>1. QED
      BY <2>1, <2>2 DEF FtsRow
  <2>4. QED
    BY <2>3, Zenon DEF FtsAt
<1>5. ASSUME NEW level \in 1 .. h, NEW j \in 0 .. 2 ^ (h - level) - 1
      PROVE  at[level][j] = FtsNode(pp, idx, kappa, level, j, at[level - 1][2 * j], at[level - 1][2 * j + 1])
  <2>1. level \in 0 .. h /\ level # 0
    OBVIOUS
  <2>2. at[level] = FtsRow(at, pp, master, idx, kappa, h, level)
    BY <1>3, <2>1
  <2>3. at[level][j] = FtsAt(at, pp, master, idx, kappa, level, j)
    BY <2>2 DEF FtsRow
  <2>4. QED
    BY <2>1, <2>3 DEF FtsAt
<1>6. IsFts(at, pp, master, idx, kappa)
  BY <1>4, <1>5 DEF IsFts
<1>7. QED
  BY <1>6 DEF at

\* A node on the way of a few-time leaf is the hash of the one before and its sibling.
FtsLinkAt(at, pp, idx, kappa, e, level) ==
    at[level][Shift(e, level)] =
      Th(pp, FtsNodeTweak(idx, kappa, level, Shift(e, level)),
         InOrder(e, level - 1, at[level - 1][Shift(e, level - 1)], at[level - 1][Neighbour(Shift(e, level - 1))]))

\* So it is in every few-time tree.
LEMMA FtsLinks ==
    ASSUME NEW pp, NEW master, NEW idx, NEW kappa, NEW at, IsFts(at, pp, master, idx, kappa),
           NEW e \in 0 .. 2 ^ FtsHeight - 1, NEW level \in 1 .. FtsHeight
    PROVE  FtsLinkAt(at, pp, idx, kappa, e, level)
<1> DEFINE h == FtsHeight
           n == Shift(e, level)
           m == Shift(e, level - 1)
           below(c) == at[level - 1][c]
<1>1. h \in Nat /\ level \in Nat \ {0} /\ level \in 0 .. h /\ 2 ^ h \in Nat \ {0} /\ e \in Nat
  <2>1. h \in Nat
    BY SphincsAssumption
  <2>2. QED
    BY <2>1, Halving
<1>2. n = m \div 2 /\ n \in Nat /\ m \in Nat
  BY <1>1, Shifted
<1>3. n \in 0 .. 2 ^ (h - level) - 1
  <2> DEFINE w == 2 ^ level
             q == 2 ^ (h - level)
             x == 2 ^ h
  <2>1. w \in Nat \ {0} /\ q \in Nat /\ x = q * w
    <3> HIDE DEF h
    <3>1. QED
      BY <1>1, PowersDivide
  <2>2. e < x
    BY <1>1
  <2> HIDE DEF w, q, x
  <2>3. 0 * w <= e
    BY <1>1, <2>1
  <2>4. e \div w < q
    BY <1>1, <2>1, <2>2, <2>3, Between
  <2>5. n < q
    BY <2>4 DEF Shift, w
  <2> HIDE DEF n
  <2>6. n \in 0 .. q - 1
    BY <1>2, <2>1, <2>5
  <2>7. QED
    BY <2>6 DEF q
<1>4. at[level][n] = FtsNode(pp, idx, kappa, level, n, below(2 * n), below(2 * n + 1))
  BY <1>3 DEF IsFts
<1> HIDE DEF n, m, below
<1>5. <<below(2 * n), below(2 * n + 1)>> = IF m % 2 = 0 THEN <<below(m), below(Neighbour(m))>>
                                         ELSE <<below(Neighbour(m)), below(m)>>
  <2>1. CASE m % 2 = 0
    <3>1. m = 2 * n /\ Neighbour(m) = 2 * n + 1
      BY <1>2, <2>1, Family
    <3>2. QED
      BY <2>1, <3>1
  <2>2. CASE m % 2 # 0
    <3>1. m = 2 * n + 1 /\ Neighbour(m) = 2 * n
      BY <1>2, <2>2, Family
    <3>2. QED
      BY <2>2, <3>1
  <2>3. QED
    BY <2>1, <2>2
<1>6. at[level][n] = Th(pp, FtsNodeTweak(idx, kappa, level, n), InOrder(e, level - 1, below(m), below(Neighbour(m))))
  BY <1>4, <1>5, Zenon DEF FtsNode, InOrder, m
<1>7. QED
  BY <1>6, Zenon DEF FtsLinkAt, n, m, below

\* The path of a few-time leaf and its way.
FtsPath(at, e) == [level \in 1 .. FtsHeight |-> at[level - 1][Neighbour(Shift(e, level - 1))]]
FtsTweaks(idx, kappa, e) == [level \in 1 .. FtsHeight |-> FtsNodeTweak(idx, kappa, level, Shift(e, level))]

\* It leads to the root.
LEMMA FtsPathIs ==
    ASSUME NEW pp, NEW master, NEW idx, NEW kappa, NEW at, IsFts(at, pp, master, idx, kappa),
           NEW e \in 0 .. 2 ^ FtsHeight - 1
    PROVE  FoldPath(pp, FtsTweaks(idx, kappa, e), at[0][e], e, FtsPath(at, e)) = at[FtsHeight][0]
<1> DEFINE h == FtsHeight
           tweaks == FtsTweaks(idx, kappa, e)
           path == FtsPath(at, e)
           value == [level \in 0 .. h |-> at[level][Shift(e, level)]]
<1>1. h \in Nat /\ 2 ^ h \in Nat \ {0} /\ e \in Nat
  <2>1. h \in Nat
    BY SphincsAssumption
  <2>2. QED
    BY <2>1, Halving
<1>2. Len(path) = h
  BY <1>1 DEF FtsPath
<1>3. ASSUME NEW level \in 1 .. h
      PROVE  value[level] = TweakHashOf(pp, tweaks[level], Pair(e, path, level, value[level - 1]))
  <2>1. FtsLinkAt(at, pp, idx, kappa, e, level)
    BY FtsLinks
  <2>2. level \in 0 .. h /\ level - 1 \in 0 .. h
    BY <1>1
  <2>3. value[level] = at[level][Shift(e, level)] /\ value[level - 1] = at[level - 1][Shift(e, level - 1)]
    BY <2>2
  <2>4. tweaks[level] = FtsNodeTweak(idx, kappa, level, Shift(e, level))
    BY DEF FtsTweaks
  <2>5. path[level] = at[level - 1][Neighbour(Shift(e, level - 1))]
    BY DEF FtsPath
  <2> HIDE DEF value, tweaks, path
  <2>6. QED
    BY <2>1, <2>3, <2>4, <2>5 DEF FtsLinkAt, InOrder, Pair, Shift, Th
<1>4. Shift(e, 0) = e /\ Shift(e, h) = 0
  <2> DEFINE w == 2 ^ h
  <2>1. w \in Nat \ {0} /\ e < w
    BY <1>1
  <2> HIDE DEF w
  <2>2. e \div w = 0
    BY <1>1, <2>1
  <2>3. e \div 2 ^ 0 = e
    BY <1>1, Halving
  <2>4. QED
    BY <2>2, <2>3 DEF Shift, w
<1>5. value[0] = at[0][e] /\ value[h] = at[h][0]
  BY <1>1, <1>4
<1>6. FoldPath(pp, tweaks, at[0][e], e, path) = value[h]
  <2> HIDE DEF value, tweaks, h, path
  <2>1. IsWalk(value, pp, tweaks, at[0][e], e, path, h)
    BY <1>3, <1>5 DEF IsWalk
  <2>2. QED
    BY <1>1, <1>2, <2>1, FoldPathIs
<1>7. QED
  BY <1>5, <1>6

\* What is opened is that, of every tree.
LEMMA FtsOpenIs ==
    ASSUME NEW pp, NEW master, NEW idx, NEW u
    PROVE  FtsOpen(pp, master, idx, u) =
             [key |-> FtsKeyOfRoots(pp, idx, [kappa \in 1 .. FtsTrees |-> FtsTree(pp, master, idx, kappa)[FtsHeight][0]]),
              opening |-> [kappa \in 1 .. FtsTrees |->
                             [secret |-> FtsSecret(pp, master, idx, kappa, u[kappa]),
                              path |-> FtsPath(FtsTree(pp, master, idx, kappa), u[kappa])]]]
<1> DEFINE nodes(kappa) == LET at[level \in 0 .. FtsHeight] ==
                            [j \in 0 .. 2 ^ (FtsHeight - level) - 1 |->
                               IF level = 0 THEN FtsLeaf(pp, idx, kappa, j, FtsSecret(pp, master, idx, kappa, j))
                               ELSE FtsNode(pp, idx, kappa, level, j, at[level - 1][2 * j], at[level - 1][2 * j + 1])]
                           IN  at
           sibling(j) == IF j % 2 = 0 THEN j + 1 ELSE j - 1
<1>1. \A kappa : nodes(kappa) = FtsTree(pp, master, idx, kappa)
  BY Zenon DEF FtsTree, FtsGrowing, FtsRow, FtsAt
<1>2. FtsOpen(pp, master, idx, u) =
        [key |-> FtsKeyOfRoots(pp, idx, [kappa \in 1 .. FtsTrees |-> nodes(kappa)[FtsHeight][0]]),
         opening |-> [kappa \in 1 .. FtsTrees |->
                      [secret |-> FtsSecret(pp, master, idx, kappa, u[kappa]),
                       path |-> [level \in 1 .. FtsHeight |->
                                   nodes(kappa)[level - 1][sibling(u[kappa] \div 2 ^ (level - 1))]]]]]
  BY Zenon DEF FtsOpen
<1>3. \A kappa : FtsPath(FtsTree(pp, master, idx, kappa), u[kappa]) =
                   [level \in 1 .. FtsHeight |-> nodes(kappa)[level - 1][sibling(u[kappa] \div 2 ^ (level - 1))]]
  <2> HIDE DEF nodes
  <2>1. \A n : sibling(n) = Neighbour(n)
    BY DEF Neighbour
  <2>2. QED
    BY <1>1, <2>1 DEF FtsPath, Shift
<1> HIDE DEF nodes, sibling
<1>4. QED
  BY <1>1, <1>2, <1>3

\* What is opened leads to the key.
LEMMA FtsRecovers ==
    ASSUME NEW pp, NEW master, NEW idx, NEW u, \A kappa \in 1 .. FtsTrees : u[kappa] \in 0 .. 2 ^ FtsHeight - 1
    PROVE  FtsRecover(pp, idx, u, FtsOpen(pp, master, idx, u).opening) = FtsOpen(pp, master, idx, u).key
<1> DEFINE tree(kappa) == FtsTree(pp, master, idx, kappa)
           opening == FtsOpen(pp, master, idx, u).opening
           secret(kappa) == FtsSecret(pp, master, idx, kappa, u[kappa])
           folded(kappa) == FoldPath(pp, [level \in 1 .. FtsHeight |-> FtsNodeTweak(idx, kappa, level, u[kappa] \div 2 ^ level)],
                                     FtsLeaf(pp, idx, kappa, u[kappa], opening[kappa].secret), u[kappa], opening[kappa].path)
<1>1. /\ opening = [kappa \in 1 .. FtsTrees |-> [secret |-> secret(kappa), path |-> FtsPath(tree(kappa), u[kappa])]]
      /\ FtsOpen(pp, master, idx, u).key = FtsKeyOfRoots(pp, idx, [kappa \in 1 .. FtsTrees |-> tree(kappa)[FtsHeight][0]])
  <2> HIDE DEF tree, secret
  <2>1. QED
    BY FtsOpenIs DEF tree, secret
<1> HIDE DEF opening
<1>2. ASSUME NEW kappa \in 1 .. FtsTrees
      PROVE  folded(kappa) = tree(kappa)[FtsHeight][0]
  <2> DEFINE e == u[kappa]
             at == tree(kappa)
  <2>1. opening[kappa].secret = secret(kappa) /\ opening[kappa].path = FtsPath(at, e)
    BY <1>1
  <2>2. IsFts(at, pp, master, idx, kappa)
    BY FtsTreeIs
  <2>3. e \in 0 .. 2 ^ FtsHeight - 1
    OBVIOUS
  <2> HIDE DEF at, e
  <2>4. at[0][e] = FtsLeaf(pp, idx, kappa, e, opening[kappa].secret)
    BY <2>1, <2>2, <2>3 DEF IsFts, e
  <2>5. FoldPath(pp, FtsTweaks(idx, kappa, e), at[0][e], e, FtsPath(at, e)) = at[FtsHeight][0]
    BY <2>2, <2>3, FtsPathIs
  <2>6. FtsTweaks(idx, kappa, e) = [level \in 1 .. FtsHeight |-> FtsNodeTweak(idx, kappa, level, e \div 2 ^ level)]
    BY DEF FtsTweaks, Shift
  <2>7. QED
    BY <2>1, <2>4, <2>5, <2>6 DEF e, at
<1>3. FtsRecover(pp, idx, u, opening) = FtsKeyOfRoots(pp, idx, [kappa \in 1 .. FtsTrees |-> folded(kappa)])
  BY Zenon DEF FtsRecover
<1> HIDE DEF folded, tree
<1>4. FtsRecover(pp, idx, u, opening) = FtsOpen(pp, master, idx, u).key
  BY <1>1, <1>2, <1>3
<1>5. QED
  BY <1>4 DEF opening

-----------------------------------------------------------------------------
(* A layer signs what the one below it leads to.                           *)

\* The recursion of a total.
Totalling(sum, s, n) == [k \in 0 .. n |-> IF k = 0 THEN 0 ELSE sum[k - 1] + s[k]]

\* A total is a number.
LEMMA TotalIs ==
    ASSUME NEW s \in Seq(Nat)
    PROVE  TotalOf(s) \in Nat
<1> DEFINE n == Len(s)
           h == CHOOSE h : h = Totalling(h, s, n)
<1>1. n \in Nat /\ s \in [1 .. n -> Nat]
  OBVIOUS
<1> HIDE DEF n
<1>2. PICK f : IsSum(f, n, s)
  BY <1>1, Sums
<1>3. ASSUME NEW k \in 0 .. n
      PROVE  f[k] = IF k = 0 THEN 0 ELSE f[k - 1] + s[k]
  <2>1. k = 0 \/ k \in 1 .. n
    BY <1>1
  <2>2. QED
    BY <1>2, <2>1 DEF IsSum
<1>4. f = Totalling(f, s, n)
  <2>1. f = [k \in 0 .. n |-> f[k]]
    BY <1>2 DEF IsSum
  <2>2. QED
    BY <1>3, <2>1 DEF Totalling
<1>5. h = Totalling(h, s, n)
  BY <1>4
<1>6. TotalOf(s) = h[n]
  BY Zenon DEF TotalOf, Totalling, n
<1> HIDE DEF h
<1>7. \A k \in 0 .. n : h[k] = IF k = 0 THEN 0 ELSE h[k - 1] + s[k]
  BY <1>5 DEF Totalling
<1> DEFINE S == {k \in 0 .. n : h[k] \in Nat}
<1>8. 0 \in S
  <2>1. 0 \in 0 .. n
    BY <1>1
  <2>2. h[0] = IF 0 = 0 THEN 0 ELSE h[0 - 1] + s[0]
    BY <1>7, <2>1, Zenon
  <2>3. QED
    BY <2>1, <2>2
<1>9. ASSUME NEW k \in 0 .. n - 1, k \in S
      PROVE  k + 1 \in S
  <2>1. k + 1 \in 1 .. n /\ k + 1 \in 0 .. n /\ (k + 1) - 1 = k /\ k + 1 # 0
    BY <1>1
  <2>2. h[k + 1] = h[k] + s[k + 1]
    BY <1>7, <2>1
  <2>3. s[k + 1] \in Nat
    BY <1>1, <2>1
  <2>4. QED
    BY <1>9, <2>1, <2>2, <2>3
<1>10. n \in S
  <2> HIDE DEF S
  <2>1. \A k \in 0 .. n : k \in S
    BY <1>1, <1>8, <1>9, UpTo
  <2>2. QED
    BY <1>1, <2>1
<1>11. QED
  BY <1>6, <1>10

\* So are the heights below a layer.
LEMMA SuffixIs ==
    ASSUME NEW lay \in 1 .. Len(Heights) + 1
    PROVE  Suffix(lay) \in Nat
<1>1. Heights \in Seq(Nat) /\ Len(Heights) \in Nat
  BY SphincsAssumption
<1>2. SubSeq(Heights, lay, Len(Heights)) \in Seq(Nat)
  <2> DEFINE n == Len(Heights)
  <2>1. n \in Nat /\ lay \in 1 .. n + 1 /\ n \in lay - 1 .. n
    BY <1>1
  <2>2. SubSeq(Heights, lay, n) \in Seq(Nat)
    BY <1>1, <2>1, SubSeqProperties
  <2>3. QED
    BY <2>2
<1>3. QED
  BY <1>2, TotalIs DEF Suffix

\* The place of a leaf on a layer; the top one has one tree.
LEMMA PlaceIs ==
    ASSUME NEW idx \in 0 .. 2 ^ Suffix(1) - 1, NEW lay \in Layers
    PROVE  /\ LeafOf(idx, lay) \in 0 .. 2 ^ Heights[lay] - 1
           /\ lay = 1 => TreeOf(idx, lay) = 0
<1>1. lay \in 1 .. Len(Heights) + 1 /\ lay + 1 \in 1 .. Len(Heights) + 1 /\ 1 \in 1 .. Len(Heights) + 1
  BY SplitInside DEF Layers
<1>2. Suffix(lay + 1) \in Nat /\ Suffix(1) \in Nat /\ Heights[lay] \in Nat
  BY <1>1, SuffixIs, SplitInside
<1> DEFINE x == 2 ^ Suffix(lay + 1)
           y == 2 ^ Heights[lay]
           w == 2 ^ Suffix(1)
<1>3. x \in Nat \ {0} /\ y \in Nat \ {0} /\ w \in Nat \ {0}
  BY <1>2, Halving
<1>4. idx \in Nat /\ idx < w
  BY <1>3
<1> HIDE DEF x, y, w
<1>5. (idx \div x) % y \in 0 .. y - 1
  <2>1. idx \div x \in Nat
    BY <1>3, <1>4
  <2> DEFINE q == idx \div x
  <2> HIDE DEF q
  <2>2. q \in Nat
    BY <2>1 DEF q
  <2>3. q % y \in 0 .. y - 1
    BY <1>3, <2>2
  <2>4. QED
    BY <2>3 DEF q
<1>6. idx \div w = 0
  BY <1>3, <1>4
<1>7. QED
  BY <1>5, <1>6 DEF LeafOf, TreeOf, x, y, w

\* What a layer signs leads to the root of its tree; on the top one, to that of the key.
LeadsToRoot(idx, lay, below, r, s) ==
    /\ RootOfLayer(sk.param, idx, lay, below.message, s) = r.message /\ r.message # << >>
    /\ lay = 1 => r.message = sk.root

\* It does: the counter encodes, the chains end where the leaf says, and the path is of the tree.
LEMMA LayerVerifies ==
    ASSUME SecretOk(sk), OtsDigitsFit, NEW idx \in 0 .. 2 ^ Suffix(1) - 1, NEW lay \in Layers, NEW below,
           below.message # << >>, NEW r, r = SignLayer(idx, lay, below), r.ok = TRUE,
           NEW s, s.ots[lay] = r.ots, s.paths[lay] = r.path
    PROVE  LeadsToRoot(idx, lay, below, r, s)
<1> DEFINE pos == PosOf(idx, lay)
           tau == TreeOf(idx, lay)
           e == LeafOf(idx, lay)
           h == Heights[lay]
           ots == OtsSign(sk.param, sk.master, pos, below.message)
           tree == IF lay = 1 THEN CachedPathAndRoot(pos.e) ELSE TreePathAndRoot(lay, pos.tau, pos.e)
           full == WholeTree(sk.param, sk.master, lay, tau)
<1>1. r.ots = ots /\ ots.counter # -1 /\ r.path = tree.path /\ r.message = tree.root
  <2>1. r = IF ~below.ok \/ ots.counter = -1 THEN [ok |-> FALSE]
            ELSE [ok |-> TRUE, ots |-> ots, path |-> tree.path, message |-> tree.root]
    BY Zenon DEF SignLayer
  <2> HIDE DEF ots, tree
  <2>2. ~(~below.ok \/ ots.counter = -1)
    <3>1. [ok |-> FALSE].ok # TRUE
      OBVIOUS
    <3>2. QED
      BY <2>1, <3>1, Zenon
  <2>3. r = [ok |-> TRUE, ots |-> ots, path |-> tree.path, message |-> tree.root]
    BY <2>1, <2>2, Zenon
  <2>4. QED
    BY <2>2, <2>3
<1>2. e \in 0 .. 2 ^ h - 1 /\ h \in Nat /\ (lay = 1 => tau = 0) /\ e \in Nat
  <2>1. h \in Nat
    BY SplitInside
  <2>2. 2 ^ h \in Nat
    BY <2>1, Halving
  <2>3. e \in 0 .. 2 ^ h - 1 /\ (lay = 1 => tau = 0)
    BY PlaceIs
  <2> HIDE DEF e
  <2>4. e \in Nat
    BY <2>2, <2>3
  <2>5. QED
    BY <2>1, <2>3, <2>4
<1>3. pos = Pos(lay, tau, e) /\ pos.tau = tau /\ pos.e = e
  BY DEF PosOf, Pos
<1> HIDE DEF e, tau
<1>4. tree = [path |-> PathIn(full, e, h), root |-> full[h][1]]
  <2>1. CASE lay = 1
    <3>1. full = WholeTree(sk.param, sk.master, 1, 0) /\ e \in 0 .. 2 ^ Heights[1] - 1
      BY <1>2, <2>1
    <3> HIDE DEF full
    <3>2. CachedPathAndRoot(e) = [path |-> PathIn(full, e, Heights[1]), root |-> full[Heights[1]][1]]
      BY <3>1, CachedIs
    <3>3. QED
      BY <1>3, <2>1, <3>2
  <2>2. CASE lay # 1
    <3> HIDE DEF full
    <3>1. full = WholeTree(sk.param, sk.master, lay, tau) /\ Heights[lay] \in Nat
      BY <1>2 DEF full
    <3>2. TreePathAndRoot(lay, tau, e) = [path |-> PathIn(full, e, Heights[lay]), root |-> full[Heights[lay]][1]]
      BY <1>2, <3>1, TreeIs
    <3>3. QED
      BY <1>3, <2>2, <3>2
  <2>3. QED
    BY <2>1, <2>2
<1>5. IsWhole(full, sk.param, sk.master, lay, tau, Heights[lay])
  BY <1>2, NodesOfWhole
<1>6. lay = 1 => full[h][1] = sk.root
  BY <1>2 DEF SecretOk
<1> HIDE DEF full, tree
<1>7. full[0][e + 1] = OtsPublicLeaf(sk.param, sk.master, pos) /\ full[h][1] # << >>
  <2>1. EndsWell(full, sk.param, sk.master, lay, tau, e, Heights[lay])
    <3> HIDE DEF pos, h, ots
    <3>1. Heights[lay] \in Nat /\ e \in 0 .. 2 ^ Heights[lay] - 1
      BY <1>2 DEF h
    <3>2. QED
      BY <1>5, <3>1, WholeEnds
  <2>2. QED
    BY <1>3, <2>1 DEF EndsWell
<1>8. FoldPath(sk.param, TweaksUp(lay, tau, e, h), full[0][e + 1], e, PathIn(full, e, h)) = full[h][1]
  <2> HIDE DEF pos, h, ots
  <2>1. Heights[lay] \in Nat /\ e \in 0 .. 2 ^ Heights[lay] - 1
    BY <1>2 DEF h
  <2>2. LeadsUp(full, sk.param, lay, tau, e, Heights[lay])
    BY <1>5, <2>1, WholePath
  <2>3. QED
    BY <2>2 DEF h, LeadsUp
<1>9. OtsLeaf(sk.param, pos, below.message, s.ots[lay]) = OtsPublicLeaf(sk.param, sk.master, pos)
  <2>1. OtsLeaf(sk.param, pos, below.message, ots) = OtsPublicLeaf(sk.param, sk.master, pos)
    <3> HIDE DEF ots, pos
    <3>1. ots = OtsSign(sk.param, sk.master, pos, below.message)
      BY DEF ots
    <3>2. QED
      BY <1>1, <3>1, OtsRecovers
  <2>2. QED
    BY <1>1, <2>1
<1>10. OtsPublicLeaf(sk.param, sk.master, pos) # << >>
  BY DEF OtsPublicLeaf, OtsLeafHash, Th, TweakHashOf
<1>11. RootOfLayer(sk.param, idx, lay, below.message, s) =
         FoldPath(sk.param, [level \in 1 .. h |-> NodeTweak(lay, pos.tau, level, pos.e \div 2 ^ level)],
                  OtsPublicLeaf(sk.param, sk.master, pos), pos.e, s.paths[lay])
  <2>1. RootOfLayer(sk.param, idx, lay, below.message, s) =
          LET leaf == IF below.message = << >> THEN << >> ELSE OtsLeaf(sk.param, pos, below.message, s.ots[lay])
          IN  IF leaf = << >> THEN << >>
              ELSE FoldPath(sk.param, [level \in 1 .. h |-> NodeTweak(lay, pos.tau, level, pos.e \div 2 ^ level)],
                            leaf, pos.e, s.paths[lay])
    BY Zenon DEF RootOfLayer
  <2> HIDE DEF pos, ots
  <2>2. QED
    BY <1>9, <1>10, <2>1, Zenon
<1>12. TweaksUp(lay, tau, e, h) = [level \in 1 .. h |-> NodeTweak(lay, pos.tau, level, pos.e \div 2 ^ level)]
  BY <1>3 DEF TweaksUp, Shift
<1>13. s.paths[lay] = PathIn(full, e, h) /\ r.message = full[h][1]
  BY <1>1, <1>4
<1> HIDE DEF pos, ots, h
<1>14. RootOfLayer(sk.param, idx, lay, below.message, s) = r.message
  BY <1>3, <1>7, <1>8, <1>11, <1>12, <1>13
<1>15. QED
  BY <1>6, <1>7, <1>13, <1>14 DEF LeadsToRoot

\* What a layer signs, the ones below it having signed.
LayerOf(layer, idx, ftsKey, lay) ==
    IF lay > Len(Heights) THEN [ok |-> TRUE, message |-> ftsKey] ELSE SignLayer(idx, lay, layer[lay + 1])

\* The recursion of HypertreeSign.
Layered(layer, idx, ftsKey, top) == [lay \in top .. Len(Heights) + 1 |-> LayerOf(layer, idx, ftsKey, lay)]

\* There is such a signing.
LEMMA LayeredExists ==
    ASSUME NEW idx, NEW ftsKey
    PROVE  \E layer : layer = Layered(layer, idx, ftsKey, 1)
<1> DEFINE n == Len(Heights)
           Of(layer, lay) == LayerOf(layer, idx, ftsKey, lay)
           S == {m \in 0 .. n : \E layer : layer = Layered(layer, idx, ftsKey, n + 1 - m)}
<1>1. n \in Nat /\ Len(Heights) = n
  BY SphincsAssumption
<1> HIDE DEF n
<1>2. 0 \in S
  <2> DEFINE v == [lay \in n + 1 .. n + 1 |-> [ok |-> TRUE, message |-> ftsKey]]
  <2>1. \A lay \in n + 1 .. n + 1 : lay > Len(Heights)
    BY <1>1
  <2>2. v = [lay \in n + 1 .. n + 1 |-> Of(v, lay)]
    <3> HIDE DEF v
    <3>1. \A lay \in n + 1 .. n + 1 : Of(v, lay) = [ok |-> TRUE, message |-> ftsKey]
      BY <2>1 DEF LayerOf
    <3> HIDE DEF Of
    <3>2. QED
      BY <3>1 DEF v
  <2> HIDE DEF v
  <2>3. v = Layered(v, idx, ftsKey, n + 1)
    BY <1>1, <2>2 DEF Layered
  <2>4. n + 1 - 0 = n + 1 /\ 0 \in 0 .. n
    BY <1>1
  <2>5. QED
    BY <2>3, <2>4
<1>3. ASSUME NEW m \in 0 .. n - 1, m \in S
      PROVE  m + 1 \in S
  <2> DEFINE top == n + 1 - m
  <2>1. PICK old : old = Layered(old, idx, ftsKey, top)
    BY <1>3
  <2>2. top \in 2 .. n + 1 /\ n + 1 - (m + 1) = top - 1 /\ m + 1 \in 0 .. n
    BY <1>1
  <2> HIDE DEF top
  <2> DEFINE v == [lay \in top - 1 .. n + 1 |-> IF lay >= top THEN old[lay] ELSE Of(old, lay)]
  <2>3. \A lay \in top .. n + 1 : v[lay] = old[lay]
    BY <1>1, <2>2
  <2>4. v[top - 1] = Of(old, top - 1)
    <3>1. top - 1 \in top - 1 .. n + 1 /\ ~(top - 1 >= top)
      BY <1>1, <2>2
    <3> HIDE DEF Of
    <3>2. QED
      BY <3>1
  <2>5. v = [lay \in top - 1 .. n + 1 |-> v[lay]]
    OBVIOUS
  <2> HIDE DEF v
  <2>6. ASSUME NEW lay \in top - 1 .. n + 1
        PROVE  Of(v, lay) = Of(old, lay)
    <3>1. CASE lay = n + 1
      <4>1. lay > Len(Heights)
        BY <1>1, <3>1
      <4>2. QED
        BY <4>1 DEF LayerOf
    <3>2. CASE lay # n + 1
      <4>1. lay + 1 \in top .. n + 1
        BY <1>1, <2>2, <3>2
      <4>2. v[lay + 1] = old[lay + 1]
        BY <2>3, <4>1
      <4>3. QED
        BY <4>2 DEF LayerOf
    <3>3. QED
      BY <3>1, <3>2
  <2>7. ASSUME NEW lay \in top - 1 .. n + 1
        PROVE  v[lay] = Of(v, lay)
    <3>1. \A l \in top .. n + 1 : old[l] = Of(old, l)
      BY <1>1, <2>1 DEF Layered
    <3> HIDE DEF Of
    <3>2. lay \in top .. n + 1 \/ lay = top - 1
      BY <1>1, <2>2
    <3>3. QED
      BY <2>3, <2>4, <2>6, <3>1, <3>2
  <2>8. v = Layered(v, idx, ftsKey, top - 1)
    BY <1>1, <2>5, <2>7 DEF Layered
  <2>9. QED
    BY <2>2, <2>8
<1>4. n \in S
  <2> HIDE DEF S
  <2>1. \A k \in 0 .. n : k \in S
    BY <1>1, <1>2, <1>3, UpTo
  <2>2. QED
    BY <1>1, <2>1
<1>5. n + 1 - n = 1
  BY <1>1
<1>6. QED
  BY <1>4, <1>5

\* The layers of a signature that was made: each has signed.
AllSigned(layer, idx, ftsKey, s) ==
    /\ layer[Len(Heights) + 1] = [ok |-> TRUE, message |-> ftsKey]
    /\ \A lay \in Layers : /\ layer[lay] = SignLayer(idx, lay, layer[lay + 1]) /\ layer[lay].ok = TRUE
                           /\ s.ots[lay] = layer[lay].ots /\ s.paths[lay] = layer[lay].path

\* What signing the hypertree returns is made of its layers.
LEMMA HypertreeSignIs ==
    ASSUME NEW idx, NEW ftsKey, NEW tree, tree = HypertreeSign(idx, ftsKey), tree.ok = TRUE
    PROVE  \E layer : AllSigned(layer, idx, ftsKey, tree)
<1> DEFINE n == Len(Heights)
           h == CHOOSE h : h = Layered(h, idx, ftsKey, 1)
<1>1. n \in Nat
  BY SphincsAssumption
<1>2. h = Layered(h, idx, ftsKey, 1)
  BY LayeredExists
<1>3. tree = IF h[1].ok THEN [ok |-> TRUE, ots |-> [lay \in Layers |-> h[lay].ots],
                                          paths |-> [lay \in Layers |-> h[lay].path]]
             ELSE [ok |-> FALSE]
  BY Zenon DEF HypertreeSign, Layered, LayerOf
<1> HIDE DEF h
<1>4. \A lay \in 1 .. n + 1 : h[lay] = LayerOf(h, idx, ftsKey, lay)
  BY <1>2 DEF Layered
<1>5. h[n + 1] = [ok |-> TRUE, message |-> ftsKey]
  <2>1. n + 1 \in 1 .. n + 1 /\ n + 1 > n
    BY <1>1
  <2>2. h[n + 1] = LayerOf(h, idx, ftsKey, n + 1)
    BY <1>4, <2>1
  <2>3. QED
    BY <2>1, <2>2 DEF LayerOf
<1>6. ASSUME NEW lay \in Layers
      PROVE  h[lay] = SignLayer(idx, lay, h[lay + 1])
  <2>1. lay \in 1 .. n + 1 /\ ~(lay > n)
    BY <1>1 DEF Layers
  <2>2. h[lay] = LayerOf(h, idx, ftsKey, lay)
    BY <1>4, <2>1
  <2>3. QED
    BY <2>1, <2>2 DEF LayerOf
<1>7. h[1].ok = TRUE \/ h[1].ok = FALSE
  <2>1. 1 \in Layers
    BY SplitInside DEF Layers
  <2>2. h[1] = SignLayer(idx, 1, h[1 + 1])
    BY <1>6, <2>1
  <2>3. QED
    BY <2>2 DEF SignLayer
<1>8. h[1].ok = TRUE /\ tree.ots = [lay \in Layers |-> h[lay].ots] /\ tree.paths = [lay \in Layers |-> h[lay].path]
  <2>1. h[1].ok = TRUE
    <3>1. [ok |-> FALSE].ok # TRUE
      OBVIOUS
    <3>2. QED
      BY <1>3, <1>7, <3>1, Zenon
  <2>2. tree = [ok |-> TRUE, ots |-> [lay \in Layers |-> h[lay].ots], paths |-> [lay \in Layers |-> h[lay].path]]
    BY <1>3, <2>1, Zenon
  <2>3. QED
    BY <2>1, <2>2
<1> DEFINE P == {k \in 0 .. n : h[k + 1].ok = TRUE}
<1>9. 0 \in P
  <2>1. 0 + 1 = 1 /\ 0 \in 0 .. n
    BY <1>1
  <2>2. QED
    BY <1>8, <2>1
<1>10. ASSUME NEW k \in 0 .. n - 1, k \in P
       PROVE  k + 1 \in P
  <2> DEFINE lay == k + 1
             below == h[lay + 1]
             pos == PosOf(idx, lay)
             ots == OtsSign(sk.param, sk.master, pos, below.message)
             up == IF lay = 1 THEN CachedPathAndRoot(pos.e) ELSE TreePathAndRoot(lay, pos.tau, pos.e)
  <2>1. lay \in Layers /\ lay \in 0 .. n /\ lay \in 1 .. n
    BY <1>1 DEF Layers
  <2>2. h[lay].ok = TRUE
    BY <1>10
  <2>3. h[lay] = SignLayer(idx, lay, below)
    BY <1>6, <2>1
  <2>4. SignLayer(idx, lay, below) =
          IF ~below.ok \/ ots.counter = -1 THEN [ok |-> FALSE]
          ELSE [ok |-> TRUE, ots |-> ots, path |-> up.path, message |-> up.root]
    BY Zenon DEF SignLayer
  <2>5. below.ok
    <3> HIDE DEF below, ots, up, pos, lay
    <3>1. [ok |-> FALSE].ok # TRUE
      OBVIOUS
    <3>2. QED
      BY <2>2, <2>3, <2>4, <3>1, Zenon
  <2>6. below.ok = TRUE \/ below.ok = FALSE
    <3>1. CASE lay = n
      BY <1>5, <3>1
    <3>2. CASE lay # n
      <4>1. lay + 1 \in Layers
        BY <1>1, <2>1, <3>2 DEF Layers
      <4>2. h[lay + 1] = SignLayer(idx, lay + 1, h[(lay + 1) + 1])
        BY <1>6, <4>1
      <4> HIDE DEF lay
      <4>3. QED
        BY <4>2 DEF SignLayer
    <3>3. QED
      BY <3>1, <3>2
  <2>7. below.ok = TRUE
    <3> HIDE DEF below
    <3>1. QED
      BY <2>5, <2>6, Zenon
  <2>8. QED
    BY <2>1, <2>7
<1>11. \A k \in 0 .. n : k \in P
  <2> HIDE DEF P, n
  <2>1. QED
    BY <1>1, <1>9, <1>10, UpTo
<1>12. ASSUME NEW lay \in Layers
       PROVE  h[lay].ok = TRUE
  <2>1. lay - 1 \in 0 .. n /\ (lay - 1) + 1 = lay
    BY <1>1 DEF Layers
  <2>2. h[(lay - 1) + 1].ok = TRUE
    BY <1>11, <2>1
  <2>3. QED
    BY <2>1, <2>2
<1>13. ASSUME NEW lay \in Layers
       PROVE  tree.ots[lay] = h[lay].ots /\ tree.paths[lay] = h[lay].path
  BY <1>8
<1>14. AllSigned(h, idx, ftsKey, tree)
  BY <1>5, <1>6, <1>12, <1>13 DEF AllSigned
<1>15. QED
  BY <1>14

\* What a layer's signature leads to, the walk having come so far.
WalkOf(walk, pp, d, s, lay) ==
    IF lay > Len(Heights) THEN FtsRecover(pp, d.idx, d.u, s.fts)
    ELSE RootOfLayer(pp, d.idx, lay, walk[lay + 1], s)

\* The recursion of SphincsVerify.
Walked(walk, pp, d, s) == [lay \in 1 .. Len(Heights) + 1 |-> WalkOf(walk, pp, d, s, lay)]

WalkEnd(pp, d, s) == (CHOOSE walk : walk = Walked(walk, pp, d, s))[1]

\* The walk up the layers comes to the root of the key.
LEMMA WalkComesHome ==
    ASSUME SecretOk(sk), OtsDigitsFit, NEW d, d.idx \in 0 .. 2 ^ Suffix(1) - 1, NEW s, NEW layer,
           NEW ftsKey, ftsKey = FtsRecover(sk.param, d.idx, d.u, s.fts), ftsKey # << >>,
           AllSigned(layer, d.idx, ftsKey, s)
    PROVE  WalkEnd(sk.param, d, s) = sk.root /\ sk.root # << >>
<1> DEFINE n == Len(Heights)
           msg(lay) == layer[lay].message
           root(lay) == RootOfLayer(sk.param, d.idx, lay, msg(lay + 1), s)
           Good(lay) == msg(lay) # << >> /\ (lay \in Layers => root(lay) = msg(lay))
           P == {k \in 0 .. n : Good(n + 1 - k)}
           h == CHOOSE walk : walk = Walked(walk, sk.param, d, s)
<1>1. n \in Nat \ {0} /\ Layers = 1 .. n
  BY SplitInside DEF Layers
<1>2. msg(n + 1) = ftsKey
  BY DEF AllSigned
<1>3. ASSUME NEW lay \in Layers, msg(lay + 1) # << >>
      PROVE  Good(lay) /\ (lay = 1 => msg(lay) = sk.root)
  <2> DEFINE below == layer[lay + 1]
             r == layer[lay]
  <2>1. /\ r = SignLayer(d.idx, lay, below) /\ r.ok = TRUE /\ s.ots[lay] = r.ots /\ s.paths[lay] = r.path
        /\ below.message # << >>
    BY <1>3 DEF AllSigned
  <2> HIDE DEF below, r
  <2>2. LeadsToRoot(d.idx, lay, below, r, s)
    <3> DEFINE idx == d.idx
    <3>1. idx \in 0 .. 2 ^ Suffix(1) - 1
      OBVIOUS
    <3> HIDE DEF idx
    <3>2. LeadsToRoot(idx, lay, below, r, s)
      BY <2>1, <3>1, LayerVerifies DEF idx
    <3>3. QED
      BY <3>2 DEF idx
  <2>3. QED
    BY <2>2 DEF below, r, LeadsToRoot
<1> HIDE DEF msg
<1>4. 0 \in P
  <2>1. n + 1 - 0 = n + 1 /\ ~(n + 1 \in Layers) /\ 0 \in 0 .. n
    BY <1>1
  <2>2. ftsKey # << >>
    OBVIOUS
  <2> HIDE DEF root
  <2>3. Good(n + 1)
    BY <1>2, <2>1, <2>2
  <2>4. QED
    BY <2>1, <2>3
<1>5. ASSUME NEW k \in 0 .. n - 1, k \in P
      PROVE  k + 1 \in P
  <2>1. n + 1 - (k + 1) \in Layers /\ (n + 1 - (k + 1)) + 1 = n + 1 - k /\ k + 1 \in 0 .. n
    BY <1>1
  <2>2. msg((n + 1 - (k + 1)) + 1) # << >>
    BY <1>5, <2>1
  <2>3. Good(n + 1 - (k + 1))
    BY <1>3, <2>1, <2>2
  <2> HIDE DEF Good
  <2>4. QED
    BY <2>1, <2>3
<1>6. ASSUME NEW lay \in 1 .. n + 1
      PROVE  Good(lay)
  <2> HIDE DEF Good
  <2>1. \A k \in 0 .. n : k \in P
    <3>1. n \in Nat
      BY <1>1
    <3> HIDE DEF P
    <3>2. QED
      BY <1>4, <1>5, <3>1, UpTo
  <2>2. n + 1 - lay \in 0 .. n /\ n + 1 - (n + 1 - lay) = lay
    BY <1>1
  <2>3. Good(n + 1 - (n + 1 - lay))
    BY <2>1, <2>2
  <2>4. QED
    BY <2>2, <2>3
<1>7. msg(1) = sk.root /\ msg(1) # << >>
  <2>1. 1 \in Layers /\ 1 + 1 \in 1 .. n + 1 /\ 1 \in 1 .. n + 1
    BY <1>1
  <2>2. msg(1 + 1) # << >> /\ msg(1) # << >>
    BY <1>6, <2>1
  <2>3. QED
    BY <1>3, <2>1, <2>2
<1>8. h = Walked(h, sk.param, d, s)
  <2> DEFINE w == [lay \in 1 .. n + 1 |-> msg(lay)]
  <2>1. \A lay \in 1 .. n + 1 : w[lay] = msg(lay)
    OBVIOUS
  <2>2. w = [lay \in 1 .. n + 1 |-> w[lay]]
    OBVIOUS
  <2> HIDE DEF w
  <2>3. ASSUME NEW lay \in 1 .. n + 1
        PROVE  w[lay] = WalkOf(w, sk.param, d, s, lay)
    <3>1. CASE lay = n + 1
      <4>1. lay > n
        BY <1>1, <3>1
      <4>2. w[lay] = ftsKey
        BY <1>2, <2>1, <3>1
      <4>3. QED
        BY <4>1, <4>2 DEF WalkOf
    <3>2. CASE lay # n + 1
      <4>1. lay \in Layers /\ lay + 1 \in 1 .. n + 1 /\ ~(lay > n)
        BY <1>1, <3>2
      <4>2. w[lay + 1] = msg(lay + 1) /\ w[lay] = msg(lay)
        BY <2>1, <4>1
      <4>3. root(lay) = msg(lay)
        BY <1>6, <4>1
      <4>4. QED
        BY <4>1, <4>2, <4>3 DEF WalkOf
    <3>3. QED
      BY <3>1, <3>2
  <2>4. w = Walked(w, sk.param, d, s)
    BY <2>2, <2>3 DEF Walked
  <2>5. QED
    BY <2>4
<1> HIDE DEF h
<1>9. \A lay \in 1 .. n + 1 : h[lay] = WalkOf(h, sk.param, d, s, lay)
  BY <1>8 DEF Walked
<1> DEFINE Q == {k \in 0 .. n : h[n + 1 - k] = msg(n + 1 - k)}
<1>10. 0 \in Q
  <2>1. n + 1 - 0 = n + 1 /\ n + 1 \in 1 .. n + 1 /\ n + 1 > n /\ 0 \in 0 .. n
    BY <1>1
  <2>2. h[n + 1] = WalkOf(h, sk.param, d, s, n + 1)
    BY <1>9, <2>1
  <2>3. h[n + 1] = ftsKey
    BY <2>1, <2>2 DEF WalkOf
  <2>4. QED
    BY <1>2, <2>1, <2>3
<1>11. ASSUME NEW k \in 0 .. n - 1, k \in Q
       PROVE  k + 1 \in Q
  <2> DEFINE lay == n + 1 - (k + 1)
  <2>1. lay \in Layers /\ lay \in 1 .. n + 1 /\ lay + 1 = n + 1 - k /\ k + 1 \in 0 .. n /\ ~(lay > n)
    BY <1>1
  <2>2. h[lay + 1] = msg(lay + 1)
    BY <1>11, <2>1
  <2>3. h[lay] = WalkOf(h, sk.param, d, s, lay)
    BY <1>9, <2>1
  <2> HIDE DEF lay
  <2>4. h[lay] = root(lay)
    BY <2>1, <2>2, <2>3 DEF WalkOf
  <2>5. root(lay) = msg(lay)
    BY <1>6, <2>1
  <2>6. QED
    BY <2>1, <2>4, <2>5 DEF lay
<1>12. h[1] = msg(1)
  <2>1. n \in Q
    <3>1. n \in Nat
      BY <1>1
    <3> HIDE DEF Q
    <3>2. \A k \in 0 .. n : k \in Q
      BY <1>10, <1>11, <3>1, UpTo
    <3>3. QED
      BY <3>1, <3>2
  <2>2. n + 1 - n = 1
    BY <1>1
  <2>3. QED
    BY <2>1, <2>2
<1>13. QED
  BY <1>7, <1>12 DEF h, WalkEnd

-----------------------------------------------------------------------------
(* The invariant of the second scheme.                                     *)

\* The indices of a message digest are inside of their trees.
IndicesFit ==
    \A d : /\ IndicesOf(d).idx \in 0 .. 2 ^ Suffix(1) - 1
           /\ \A kappa \in 1 .. FtsTrees : IndicesOf(d).u[kappa] \in 0 .. 2 ^ FtsHeight - 1

\* What is signed verifies, with a key that keeps what it should of its tree.
SphincsInv ==
    \/ sk = NoSecret /\ signatures = {}
    \/ SecretOk(sk) /\ SphincsVerifies

-----------------------------------------------------------------------------
\* A signature that is made verifies.
SignedAs(s, m, d, fts, tree) ==
    /\ d = MessageDigest(sk.param, sk.root, s.randomizer, m) /\ d.u[FtsTrees + 1] = 0
    /\ fts = FtsOpen(sk.param, sk.master, d.idx, d.u) /\ tree = HypertreeSign(d.idx, fts.key) /\ tree.ok = TRUE
    /\ s.fts = fts.opening /\ s.ots = tree.ots /\ s.paths = tree.paths

\* The digest is admissible, the forest gives back its key, and the walk comes home.
LEMMA SphincsSignatureVerifies ==
    ASSUME SecretOk(sk), OtsDigitsFit, IndicesFit, NEW m, NEW d, NEW fts, NEW tree, NEW s, SignedAs(s, m, d, fts, tree)
    PROVE  SphincsVerify(sk.root, sk.param, m, s) = "ok"
<1> USE DEF SignedAs
<1> DEFINE end == WalkEnd(sk.param, d, s)
           x == Th(sk.param, SphincsTweak("MSG", 0, 0, 0, 0), <<s.randomizer, sk.root, m>>)
<1>1. d.idx \in 0 .. 2 ^ Suffix(1) - 1 /\ \A kappa \in 1 .. FtsTrees : d.u[kappa] \in 0 .. 2 ^ FtsHeight - 1
  <2>1. d = IndicesOf(x)
    BY DEF MessageDigest
  <2> HIDE DEF x
  <2>2. /\ IndicesOf(x).idx \in 0 .. 2 ^ Suffix(1) - 1
        /\ \A kappa \in 1 .. FtsTrees : IndicesOf(x).u[kappa] \in 0 .. 2 ^ FtsHeight - 1
    BY Zenon DEF IndicesFit
  <2>3. QED
    BY <2>1, <2>2, Zenon
<1>2. FtsRecover(sk.param, d.idx, d.u, s.fts) = fts.key
  <2> DEFINE idx == d.idx
             u == d.u
  <2>1. \A kappa \in 1 .. FtsTrees : u[kappa] \in 0 .. 2 ^ FtsHeight - 1
    BY <1>1
  <2> HIDE DEF idx, u
  <2>2. FtsRecover(sk.param, idx, u, FtsOpen(sk.param, sk.master, idx, u).opening) = FtsOpen(sk.param, sk.master, idx, u).key
    BY <2>1, FtsRecovers
  <2>3. QED
    BY <2>2 DEF idx, u
<1>3. fts.key # << >>
  BY FtsOpenIs DEF FtsKeyOfRoots, Th, TweakHashOf
<1>4. PICK layer : AllSigned(layer, d.idx, fts.key, tree)
  <2> DEFINE idx == d.idx
             ftsKey == fts.key
  <2>1. tree = HypertreeSign(idx, ftsKey) /\ tree.ok = TRUE
    OBVIOUS
  <2> HIDE DEF idx, ftsKey
  <2>2. \E layer : AllSigned(layer, idx, ftsKey, tree)
    BY <2>1, HypertreeSignIs
  <2>3. QED
    BY <2>2 DEF idx, ftsKey
<1>5. AllSigned(layer, d.idx, fts.key, s)
  BY <1>4, ZenonT(60) DEF AllSigned
<1>6. end = sk.root /\ sk.root # << >>
  <2> DEFINE ftsKey == fts.key
  <2>1. ftsKey = FtsRecover(sk.param, d.idx, d.u, s.fts) /\ ftsKey # << >> /\ AllSigned(layer, d.idx, ftsKey, s)
    BY <1>2, <1>3, <1>5
  <2>2. d.idx \in 0 .. 2 ^ Suffix(1) - 1
    BY <1>1
  <2> HIDE DEF ftsKey, SignedAs
  <2>3. QED
    BY <2>1, <2>2, WalkComesHome
<1> DEFINE D == MessageDigest(sk.param, sk.root, s.randomizer, m)
<1>7. SphincsVerify(sk.root, sk.param, m, s) =
        IF D.u[FtsTrees + 1] # 0 THEN "inadmissible digest"
        ELSE IF WalkEnd(sk.param, D, s) = << >> THEN "inadmissible encoding"
        ELSE IF WalkEnd(sk.param, D, s) = sk.root THEN "ok" ELSE "root mismatch"
  BY Zenon DEF SphincsVerify, Walked, WalkOf, WalkEnd
<1>8. D = d /\ d.u[FtsTrees + 1] = 0
  OBVIOUS
<1> HIDE DEF D, end
<1>9. WalkEnd(sk.param, D, s) = sk.root
  BY <1>6, <1>8 DEF end
<1>10. QED
  BY <1>6, <1>7, <1>8, <1>9, Zenon

\* No key is there at first.
LEMMA SphincsInitHolds == SphincsInit => SphincsInv
BY DEF SphincsInit, SphincsInv

\* A key is made.
LEMMA SphincsKeyGenKeeps ==
    ASSUME SphincsInv, SphincsKeyGen
    PROVE  SphincsInv'
<1> DEFINE pp == <<"param of", Master>>
           full == WholeTree(pp, Master, 1, 0)
           k == sk'
<1>1. /\ sk = NoSecret /\ signatures' = signatures
      /\ sk' = [made |-> TRUE, param |-> pp, master |-> Master, root |-> full[Heights[1]][1],
                cache |-> full[SplitLevel]]
  BY Zenon DEF SphincsKeyGen, WholeTree
<1>2. k.made = TRUE /\ k.param = pp /\ k.master = Master /\ k.root = full[Heights[1]][1] /\ k.cache = full[SplitLevel]
  <2> HIDE DEF full, pp
  <2>1. QED
    BY <1>1
<1> HIDE DEF k
<1>3. SecretOk(k)
  <2>1. WholeTree(k.param, k.master, 1, 0) = full
    BY <1>2
  <2> HIDE DEF full
  <2>2. QED
    BY <1>2, <2>1 DEF SecretOk
<1>4. signatures' = {}
  BY <1>1 DEF SphincsInv, SecretOk, NoSecret
<1>5. SphincsVerifies'
  BY <1>4 DEF SphincsVerifies
<1>6. SecretOk(sk')
  BY <1>3 DEF k
<1>7. QED
  BY <1>5, <1>6 DEF SphincsInv

\* A message is signed.
LEMMA SphincsSignKeeps ==
    ASSUME SphincsInv, OtsDigitsFit, IndicesFit, NEW m, SphincsSign(m)
    PROVE  SphincsInv'
<1> DEFINE randomizer(k) == Th(sk.param, SphincsTweak("RANDOMIZER", 0, 0, k, 0), <<sk.master, m>>)
           digest(k) == MessageDigest(sk.param, sk.root, randomizer(k), m)
           Good == {k \in 0 .. MaxDigestAttempts - 1 : digest(k).u[FtsTrees + 1] = 0}
           trial == FirstOf(Good)
           d == digest(trial)
           fts == FtsOpen(sk.param, sk.master, d.idx, d.u)
           tree == HypertreeSign(d.idx, fts.key)
           s == [message |-> m, randomizer |-> randomizer(trial), fts |-> fts.opening,
                 ots |-> tree.ots, paths |-> tree.paths]
<1>1. sk # NoSecret /\ trial # -1 /\ tree.ok /\ signatures' = signatures \cup {s} /\ sk' = sk
  BY Zenon DEF SphincsSign
<1>2. SecretOk(sk) /\ SphincsVerifies
  BY <1>1 DEF SphincsInv
<1>3. d.u[FtsTrees + 1] = 0
  <2> HIDE DEF digest
  <2>1. Good \in SUBSET Nat
    BY SphincsAssumption
  <2>2. trial \in Good
    <3> HIDE DEF Good
    <3>1. QED
      BY <1>1, <2>1, FirstIsGood
  <2> HIDE DEF trial
  <2>3. QED
    BY <2>2
<1> HIDE DEF trial
<1>4. tree.ok = TRUE
  <2>1. tree.ok = TRUE \/ tree.ok = FALSE
    BY DEF HypertreeSign
  <2> HIDE DEF tree
  <2>2. QED
    BY <1>1, <2>1, Zenon
<1>5. d = MessageDigest(sk.param, sk.root, randomizer(trial), m)
  OBVIOUS
<1> HIDE DEF digest
<1>6. s.randomizer = randomizer(trial) /\ s.fts = fts.opening /\ s.ots = tree.ots /\ s.paths = tree.paths /\ s.message = m
  <2> HIDE DEF tree, fts, randomizer
  <2>1. QED
    OBVIOUS
<1>7. SphincsVerify(sk.root, sk.param, m, s) = "ok"
  <2>1. fts = FtsOpen(sk.param, sk.master, d.idx, d.u) /\ tree = HypertreeSign(d.idx, fts.key)
    OBVIOUS
  <2> HIDE DEF s, tree, fts, d, randomizer
  <2>2. SignedAs(s, m, d, fts, tree)
    BY <1>3, <1>4, <1>5, <1>6, <2>1 DEF SignedAs
  <2>3. QED
    BY <1>2, <2>2, SphincsSignatureVerifies
<1>8. \A x \in signatures' : SphincsVerify(sk.root, sk.param, x.message, x) = "ok"
  <2>1. \A x \in signatures : SphincsVerify(sk.root, sk.param, x.message, x) = "ok"
    BY <1>2 DEF SphincsVerifies
  <2> HIDE DEF s
  <2>2. QED
    BY <1>1, <1>6, <1>7, <2>1
<1>9. SphincsVerifies'
  BY <1>1, <1>8 DEF SphincsVerifies
<1>10. SecretOk(sk')
  BY <1>1, <1>2
<1>11. QED
  BY <1>9, <1>10 DEF SphincsInv

\* A step of the scheme keeps the invariant.
LEMMA SphincsKeeps == ASSUME OtsDigitsFit, IndicesFit, SphincsInv, SphincsNext PROVE SphincsInv'
BY SphincsKeyGenKeeps, SphincsSignKeeps DEF SphincsNext

-----------------------------------------------------------------------------
(* Both schemes. *)

\* What a step of a behaviour of any of the scenes keeps.
SigningInv == XmssInv /\ SphincsInv

\* Nothing is made at first, in any scene.
LEMMA SigningInitHolds == MCInit => SigningInv
BY XmssInitHolds, SphincsInitHolds DEF MCInit, SigningInv

\* The invariant is of the variables of the two schemes alone.
LEMMA XmssAlone == ASSUME XmssInv, UNCHANGED xmssVars PROVE XmssInv'
<1>1. key' = key /\ cache' = cache /\ holder' = holder /\ threads' = threads /\ signed' = signed
  BY DEF xmssVars
<1>2. SignaturesVerify'
  BY <1>1, Zenon DEF XmssInv, SignaturesVerify, Root
<1>3. QED
  BY <1>1, <1>2, Zenon DEF XmssInv

\* So does that of the other scheme.
LEMMA SphincsAlone == ASSUME SphincsInv, UNCHANGED sphincsVars PROVE SphincsInv'
<1>1. sk' = sk /\ signatures' = signatures
  BY DEF sphincsVars
<1>2. SphincsVerifies <=> SphincsVerifies'
  BY <1>1 DEF SphincsVerifies
<1>3. QED
  BY <1>1, <1>2, Zenon DEF SphincsInv

\* A step of any scene keeps it.
LEMMA SigningKeeps ==
    ASSUME DigitsFit, OtsDigitsFit, IndicesFit, SigningInv, [MCNext]_mcvars
    PROVE  SigningInv'
<1>1. XmssInv /\ SphincsInv
  BY DEF SigningInv
<1>2. CASE XmssNext /\ UNCHANGED sphincsVars
  BY <1>1, <1>2, XmssKeeps, SphincsAlone DEF SigningInv
<1>3. CASE SphincsNext /\ UNCHANGED xmssVars
  BY <1>1, <1>3, SphincsKeeps, XmssAlone DEF SigningInv
<1>4. CASE UNCHANGED xmssVars /\ UNCHANGED sphincsVars
  BY <1>1, <1>4, XmssAlone, SphincsAlone DEF SigningInv
<1>5. QED
  BY <1>2, <1>3, <1>4, Zenon DEF MCNext, mcvars

\* With it everything that was signed verifies.
LEMMA SigningIsEnough == SigningInv => WhatIsSignedVerifies
BY DEF SigningInv, WhatIsSignedVerifies, XmssInv, SphincsInv, SphincsVerifies

(* The nodes a key and the cache keep are those of the trees of the key,    *)
(* what a call under way has read of them is what its epoch needs, and     *)
(* everything signed verifies: an inductive invariant of both schemes.     *)
THEOREM SigningInvariant ==
    ASSUME DigitsFit, OtsDigitsFit, IndicesFit
    PROVE  MCSpec => []SigningInv
<1>1. SigningInv /\ [MCNext]_mcvars => SigningInv'
  BY SigningKeeps
<1>2. QED
  BY <1>1, SigningInitHolds, PTL DEF MCSpec

(* What either scheme signs verifies, for a tree of any height and any      *)
(* range of epochs, any number of threads signing and warming the cache,   *)
(* and a hypertree of any number of layers (xmss.rs's xmss_sign and        *)
(* xmss_verify, sphincs.rs's sign and verify).                             *)
THEOREM SignedVerifies ==
    ASSUME DigitsFit, OtsDigitsFit, IndicesFit
    PROVE  MCSpec => []WhatIsSignedVerifies
BY SigningInvariant, SigningIsEnough, PTL

-----------------------------------------------------------------------------
(* One input per tweak: the digests that others were computed from. *)

\* What is computed from the elements of C is of them.
ClosedUnderInputs(C) == \A d \in C : \A i \in DOMAIN d[3] : d[3][i] \in C \/ Len(d[3][i]) = 1

\* A finite image is of a finite set.
LEMMA FiniteImage ==
    ASSUME NEW S, IsFiniteSet(S), NEW f, DOMAIN f = S
    PROVE  IsFiniteSet({f[x] : x \in S})
<1> DEFINE T == {f[x] : x \in S}
           g == [x \in S |-> f[x]]
<1>1. g \in [S -> T] /\ \A t \in T : \E x \in S : g[x] = t
  OBVIOUS
<1> HIDE DEF g, T
<1>2. g \in Surjection(S, T)
  BY <1>1, Fun_IsSurj
<1>3. IsFiniteSet(T)
  BY <1>2, FS_Surjection
<1>4. QED
  BY <1>3 DEF T

\* A sequence has finitely many elements.
LEMMA FiniteToSet ==
    ASSUME NEW n \in Nat, NEW s, DOMAIN s = 1 .. n
    PROVE  IsFiniteSet(ToSet(s))
<1>1. IsFiniteSet(1 .. n)
  BY FS_Interval
<1>2. IsFiniteSet({s[i] : i \in 1 .. n})
  BY <1>1, FiniteImage
<1>3. QED
  BY <1>2 DEF ToSet

\* Each payload is a sequence.
HasInputs(C) == \A d \in C : \E n \in Nat : DOMAIN d[3] = 1 .. n

\* With what they were computed from, finitely many digests of C are finitely many of C.
LEMMA InputsStay ==
    ASSUME NEW C, ClosedUnderInputs(C), HasInputs(C), NEW S \in SUBSET C, IsFiniteSet(S)
    PROVE  WithInputs(S) \in SUBSET C /\ IsFiniteSet(WithInputs(S))
<1> DEFINE f == [e \in S |-> ToSet(e[3])]
           F == {ToSet(e[3]) : e \in S}
           I == {d \in UNION F : Len(d) # 1}
<1>1. WithInputs(S) = S \cup I
  BY DEF WithInputs
<1>2. I \subseteq C
  <2>1. ASSUME NEW e \in S, NEW d \in ToSet(e[3]), Len(d) # 1
        PROVE  d \in C
    <3>1. PICK i \in DOMAIN e[3] : d = e[3][i]
      BY DEF ToSet
    <3>2. QED
      BY <2>1, <3>1 DEF ClosedUnderInputs
  <2>2. QED
    BY <2>1
<1>3. IsFiniteSet(F)
  <2>1. F = {f[e] : e \in S}
    OBVIOUS
  <2>2. DOMAIN f = S
    OBVIOUS
  <2> HIDE DEF f, F
  <2>3. QED
    BY <2>1, <2>2, FiniteImage
<1>4. ASSUME NEW T \in F
      PROVE  IsFiniteSet(T)
  <2>1. PICK e \in S : T = ToSet(e[3])
    OBVIOUS
  <2>2. PICK n \in Nat : DOMAIN e[3] = 1 .. n
    BY DEF HasInputs
  <2>3. QED
    BY <2>1, <2>2, FiniteToSet
<1> HIDE DEF F
<1>5. IsFiniteSet(UNION F)
  BY <1>3, <1>4, FS_UNION
<1>6. IsFiniteSet(I)
  BY <1>5, FS_Subset
<1> HIDE DEF I
<1>7. IsFiniteSet(S \cup I)
  BY <1>6, FS_Union
<1>8. QED
  BY <1>1, <1>2, <1>7

\* The recursion that HashedIn is made of.
Seeing(seen, digests, n) == [k \in 0 .. n |-> IF k = 0 THEN digests ELSE WithInputs(seen[k - 1])]

\* However many steps it goes back, it stays where each step does.
LEMMA HashedStays ==
    ASSUME NEW X, NEW digests \in X, \A S \in X : WithInputs(S) \in X, NEW n \in Nat
    PROVE  HashedIn(digests, n) \in X
<1> DEFINE step == [S \in X |-> WithInputs(S)]
           h == CHOOSE h : h = Seeing(h, digests, n)
<1>1. step \in [X -> X]
  OBVIOUS
<1>2. PICK f : IsIteration(f, n, X, digests, step)
  <2> HIDE DEF step
  <2>1. QED
    BY <1>1, Iterates
<1>3. f \in [0 .. n -> X] /\ f[0] = digests /\ \A k \in 1 .. n : f[k] = step[f[k - 1]]
  BY <1>2 DEF IsIteration
<1>4. f = Seeing(f, digests, n)
  <2>1. ASSUME NEW k \in 0 .. n
        PROVE  f[k] = IF k = 0 THEN digests ELSE WithInputs(f[k - 1])
    <3>1. CASE k = 0
      BY <1>3, <3>1
    <3>2. CASE k # 0
      <4>1. k \in 1 .. n /\ k - 1 \in 0 .. n
        BY <3>2
      <4>2. f[k] = step[f[k - 1]] /\ f[k - 1] \in X
        BY <1>3, <4>1
      <4>3. QED
        BY <3>2, <4>2
    <3>3. QED
      BY <3>1, <3>2
  <2>2. f = [k \in 0 .. n |-> f[k]]
    BY <1>3
  <2>3. QED
    BY <2>1, <2>2 DEF Seeing
<1>5. h = Seeing(h, digests, n)
  BY <1>4
<1>6. HashedIn(digests, n) = h[n]
  BY Zenon DEF HashedIn, Seeing
<1> HIDE DEF h, step
<1>7. n \in {k \in 0 .. n : h[k] \in X}
  <2> DEFINE T == {k \in 0 .. n : h[k] \in X}
  <2>1. \A k \in 0 .. n : h[k] = IF k = 0 THEN digests ELSE WithInputs(h[k - 1])
    BY <1>5 DEF Seeing
  <2>2. 0 \in T
    BY <2>1
  <2>3. ASSUME NEW k \in 0 .. n - 1, k \in T
        PROVE  k + 1 \in T
    <3>1. k + 1 \in 0 .. n /\ k + 1 # 0 /\ (k + 1) - 1 = k
      OBVIOUS
    <3>2. h[k + 1] = WithInputs(h[k])
      BY <2>1, <3>1
    <3>3. QED
      BY <2>3, <3>1, <3>2
  <2> HIDE DEF T
  <2>4. \A k \in 0 .. n : k \in T
    BY <2>2, <2>3, UpTo
  <2>5. n \in T
    BY <2>4
  <2>6. QED
    BY <2>5 DEF T
<1>8. QED
  BY <1>6, <1>7

\* No two of C have one tweak.
OneEach(C) == \A d, e \in C : d[1] = e[1] /\ d[2] = e[2] => d = e

\* Finitely many of such digests have one input per tweak.
LEMMA OneEachIsOneInput ==
    ASSUME NEW C, OneEach(C), NEW S \in SUBSET C, IsFiniteSet(S)
    PROVE  OneInput(S)
<1> DEFINE T == {<<d[1], d[2]>> : d \in S}
           g == [d \in S |-> <<d[1], d[2]>>]
<1>1. g \in [S -> T] /\ \A t \in T : \E d \in S : g[d] = t
  OBVIOUS
<1>2. ASSUME NEW d \in S, NEW e \in S, g[d] = g[e]
      PROVE  d = e
  <2>1. <<d[1], d[2]>> = <<e[1], e[2]>>
    BY <1>2
  <2>2. d[1] = e[1] /\ d[2] = e[2]
    BY <2>1
  <2>3. QED
    BY <2>2 DEF OneEach
<1> HIDE DEF g, T
<1>3. g \in Injection(S, T) /\ g \in Surjection(S, T)
  BY <1>1, <1>2, Fun_IsInj, Fun_IsSurj
<1>4. Cardinality(T) = Cardinality(S)
  BY <1>3, FS_Surjection
<1>5. QED
  BY <1>4 DEF OneInput, T

\* Of a set like that, however many steps back.
LEMMA HashedOnce ==
    ASSUME NEW C, ClosedUnderInputs(C), HasInputs(C), OneEach(C),
           NEW digests \in SUBSET C, IsFiniteSet(digests), NEW n \in Nat
    PROVE  OneInput(HashedIn(digests, n))
<1> DEFINE X == {S \in SUBSET C : IsFiniteSet(S)}
<1>1. \A S \in X : WithInputs(S) \in X
  BY InputsStay
<1>2. digests \in X
  OBVIOUS
<1>3. HashedIn(digests, n) \in X
  <2> HIDE DEF X
  <2>1. QED
    BY <1>1, <1>2, HashedStays
<1>4. QED
  BY <1>3, OneEachIsOneInput

\* The last hash of a chain.
LEMMA IterateOnce ==
    ASSUME NEW n \in Nat, NEW pp, NEW tweaks, NEW start, Len(tweaks) = n + 1
    PROVE  Iterate(pp, tweaks, start)
             = TweakHashOf(pp, tweaks[n + 1], <<Iterate(pp, [k \in 1 .. n |-> tweaks[k]], start)>>)
<1> DEFINE first == [k \in 1 .. n |-> tweaks[k]]
           rest == [k \in 1 .. 1 |-> tweaks[n + k]]
           x == Iterate(pp, first, start)
           v == [k \in 0 .. 1 |-> IF k = 0 THEN x ELSE TweakHashOf(pp, tweaks[n + 1], <<x>>)]
<1>1. rest = [k \in 1 .. (n + 1) - n |-> tweaks[n + k]] /\ n \in 0 .. n + 1 /\ n + 1 \in Nat
  OBVIOUS
<1>2. Iterate(pp, rest, x) = Iterate(pp, tweaks, start)
  <2> HIDE DEF rest, first
  <2>1. Iterate(pp, rest, Iterate(pp, first, start)) = Iterate(pp, tweaks, start)
    BY <1>1, IterateTwice DEF first
  <2>2. QED
    BY <2>1
<1>3. v[0] = x /\ v[1] = TweakHashOf(pp, rest[1], <<v[0]>>) /\ Len(rest) = 1
  OBVIOUS
<1> HIDE DEF v, x, rest, first
<1>4. IsChain(v, pp, rest, x, 1)
  BY <1>3 DEF IsChain
<1>5. Iterate(pp, rest, x) = v[1]
  BY <1>3, <1>4, IterateIs, ZenonT(60)
<1>6. rest[1] = tweaks[n + 1]
  BY DEF rest
<1>7. QED
  BY <1>2, <1>3, <1>5, <1>6 DEF x, first

\* Along no tweaks nothing is hashed.
LEMMA IterateNone ==
    ASSUME NEW pp, NEW tweaks, NEW start, Len(tweaks) = 0
    PROVE  Iterate(pp, tweaks, start) = start
<1> DEFINE v == [k \in 0 .. 0 |-> start]
<1>1. v[0] = start
  OBVIOUS
<1> HIDE DEF v
<1>2. IsChain(v, pp, tweaks, start, 0)
  BY <1>1 DEF IsChain
<1>3. QED
  BY <1>1, <1>2, IterateIs

-----------------------------------------------------------------------------
(* The digests of an XMSS key. *)

\* What a chain has after n hashes.
ChainValue(k, e, i, n) == IterateHash(WotsSecret(k.seed, k.param, e, i), n, k.param, e, i, 0)

\* It starts with the secret, and each is hashed from the one before.
LEMMA ChainIs ==
    ASSUME NEW k, NEW e, NEW i, NEW n \in Nat
    PROVE  /\ ChainValue(k, e, i, 0) = Tweaked(k.param, "PRF", i, e, <<k.seed>>)
           /\ ChainValue(k, e, i, n + 1) = TweakHashOf(k.param, ChainTweak(e, i, n), <<ChainValue(k, e, i, n)>>)
<1> DEFINE s == WotsSecret(k.seed, k.param, e, i)
           tweaks(m) == [j \in 1 .. m |-> ChainTweak(e, i, 0 + j - 1)]
<1>1. Iterate(k.param, tweaks(0), s) = s
  <2>1. Len(tweaks(0)) = 0
    OBVIOUS
  <2> HIDE DEF tweaks, s
  <2>2. QED
    BY <2>1, IterateNone
<1>2. Iterate(k.param, tweaks(n + 1), s)
        = TweakHashOf(k.param, tweaks(n + 1)[n + 1], <<Iterate(k.param, [j \in 1 .. n |-> tweaks(n + 1)[j]], s)>>)
  <2>1. Len(tweaks(n + 1)) = n + 1
    OBVIOUS
  <2> HIDE DEF tweaks, s
  <2>2. QED
    BY <2>1, IterateOnce
<1>3. [j \in 1 .. n |-> tweaks(n + 1)[j]] = tweaks(n)
  OBVIOUS
<1>4. tweaks(n + 1)[n + 1] = ChainTweak(e, i, n)
  <2>1. 0 + (n + 1) - 1 = n /\ n + 1 \in 1 .. n + 1
    OBVIOUS
  <2>2. QED
    BY <2>1
<1>5. ChainValue(k, e, i, 0) = s
  BY <1>1 DEF ChainValue, IterateHash
<1>6. ChainValue(k, e, i, n + 1) = Iterate(k.param, tweaks(n + 1), s) /\ ChainValue(k, e, i, n) = Iterate(k.param, tweaks(n), s)
  BY DEF ChainValue, IterateHash
<1> HIDE DEF tweaks, s
<1>7. QED
  <2>1. s = Tweaked(k.param, "PRF", i, e, <<k.seed>>)
    BY DEF s, WotsSecret
  <2>2. QED
    BY <1>2, <1>3, <1>4, <1>5, <1>6, <2>1

\* What is one node is one node on every level above.
LEMMA OneAbove ==
    ASSUME NEW e \in Nat, NEW f \in Nat, NEW l \in Nat, NEW m \in Nat, Shift(e, l) = Shift(f, l)
    PROVE  Shift(e, l + m) = Shift(f, l + m)
<1> DEFINE S == {j \in 0 .. m : Shift(e, l + j) = Shift(f, l + j)}
<1>1. 0 \in S
  OBVIOUS
<1>2. ASSUME NEW j \in 0 .. m - 1, j \in S
      PROVE  j + 1 \in S
  <2>1. l + (j + 1) \in Nat \ {0} /\ (l + (j + 1)) - 1 = l + j /\ j + 1 \in 0 .. m
    OBVIOUS
  <2>2. /\ Shift(e, l + (j + 1)) = Shift(e, l + j) \div 2
        /\ Shift(f, l + (j + 1)) = Shift(f, l + j) \div 2
    BY <2>1, Shifted
  <2>3. QED
    BY <1>2, <2>1, <2>2
<1>3. m \in S
  <2> HIDE DEF S
  <2>1. \A j \in 0 .. m : j \in S
    BY <1>1, <1>2, UpTo
  <2>2. QED
    BY <2>1
<1>4. QED
  BY <1>3

\* A node has one value, whichever epoch leads to it.
LEMMA OneNode ==
    ASSUME NEW k, KeyOk(k), NEW e \in k.first .. k.last, NEW f \in k.first .. k.last, NEW l \in Nat,
           Shift(e, l) = Shift(f, l)
    PROVE  NodeOf(k, e, l) = NodeOf(k, f, l)
<1>1. k.split \in Nat /\ e \in Nat /\ f \in Nat
  BY XmssAssumption DEF KeyOk
<1>2. CASE l <= k.split
  <2>1. k.split - l \in Nat /\ l + (k.split - l) = k.split
    BY <1>1, <1>2
  <2>2. Shift(e, l + (k.split - l)) = Shift(f, l + (k.split - l))
    BY <1>1, <2>1, OneAbove
  <2>3. QED
    BY <1>2, <2>1, <2>2 DEF NodeOf
<1>3. CASE ~(l <= k.split)
  BY <1>3 DEF NodeOf
<1>4. QED
  BY <1>2, <1>3

\* A node in range is that of an epoch in range.
LEMMA NodeInRange ==
    ASSUME NEW first \in Nat, NEW last \in Nat, first <= last, NEW l \in Nat,
           NEW c \in Shift(first, l) .. Shift(last, l)
    PROVE  \E f \in first .. last : Shift(f, l) = c
<1> DEFINE w == 2 ^ l
           x == c * w
           f == IF first > x THEN first ELSE x
<1>1. w \in Nat \ {0}
  BY Halving
<1>2. c \in first \div w .. last \div w /\ first \div w \in Nat /\ last \div w \in Nat
  <2>1. first \div 2 ^ l \in Nat /\ last \div 2 ^ l \in Nat
    BY Halving
  <2>2. QED
    BY <2>1 DEF Shift
<1> HIDE DEF w
<1>3. c \in Nat /\ first \div w <= c /\ c <= last \div w
  BY <1>2
<1>4. first < (first \div w) * w + w /\ (last \div w) * w <= last
  BY <1>1
<1>5. (first \div w) * w <= c * w /\ c * w <= (last \div w) * w /\ c * w \in Nat
  <2> DEFINE p == first \div w
             q == last \div w
  <2>1. p \in Nat /\ q \in Nat /\ p <= c /\ c <= q
    BY <1>2, <1>3
  <2> HIDE DEF p, q
  <2>2. \A i, j \in Nat : i <= j => i * w <= j * w
    BY <1>1, Z3
  <2>3. p * w <= c * w /\ c * w <= q * w /\ c * w \in Nat
    BY <1>1, <1>3, <2>1, <2>2
  <2>4. QED
    BY <2>3 DEF p, q
<1>6. (c + 1) * w = c * w + w
  BY <1>1, <1>3
<1> DEFINE y == (c + 1) * w
           p == (first \div w) * w
           q == (last \div w) * w
<1>7. x \in Nat /\ y = x + w /\ p <= x /\ x <= q /\ first < p + w /\ q <= last /\ p \in Int /\ q \in Int
  BY <1>1, <1>2, <1>4, <1>5, <1>6
<1> HIDE DEF x, y, p, q
<1>8. f \in Nat /\ f \in first .. last /\ x <= f /\ f < y
  BY <1>1, <1>7
<1> HIDE DEF f
<1>9. c * w <= f /\ f < (c + 1) * w /\ c + 1 \in Nat
  BY <1>3, <1>8 DEF x, y
<1>10. f \div w \in Nat /\ c <= f \div w /\ f \div w < c + 1
  BY <1>1, <1>3, <1>8, <1>9, Between
<1>11. f \div w = c
  BY <1>3, <1>10
<1>12. QED
  BY <1>8, <1>11 DEF Shift, w

\* The sibling of a node is a node, or filled in.
LEMMA SiblingIsNode ==
    ASSUME NEW k, KeyOk(k), NEW e \in k.first .. k.last, NEW l \in 0 .. LogLifetime - 1
    PROVE  \/ \E f \in k.first .. k.last : SiblingOf(k, e, l) = NodeOf(k, f, l)
           \/ SiblingOf(k, e, l) = RandomNode(k.seed, k.param, l, Neighbour(Shift(e, l)))
<1> DEFINE c == Neighbour(Shift(e, l))
           i == Shift(e, k.split)
           b == SubtreeBounds(k.first, k.last, k.split, i)
           sub == SubtreeOf(k, i)
<1>1. /\ k.first \in Nat /\ k.last \in Nat /\ k.first <= k.last /\ k.split \in Nat /\ e \in Nat /\ l \in Nat
      /\ LogLifetime \in Nat /\ k.split <= LogLifetime
  BY XmssAssumption DEF KeyOk
<1>2. CASE l >= k.split
  <2>1. SiblingOf(k, e, l) = NodeIn(k.top, k.seed, k.param, k.first, k.last, l, c)
    BY <1>2 DEF SiblingOf, ReadFrom
  <2>2. CASE c \in Shift(k.first, l) .. Shift(k.last, l)
    <3>1. PICK f \in k.first .. k.last : Shift(f, l) = c
      <4> HIDE DEF c
      <4> DEFINE p == k.first
                 q == k.last
      <4>1. p \in Nat /\ q \in Nat /\ p <= q /\ l \in Nat /\ c \in Shift(p, l) .. Shift(q, l)
        BY <1>1, <2>2
      <4> HIDE DEF p, q
      <4>2. \E f \in p .. q : Shift(f, l) = c
        BY <4>1, NodeInRange
      <4>3. QED
        BY <4>2 DEF p, q
    <3>2. k.top[l][Shift(f, l)] = NodeOf(k, f, l)
      <4>1. CASE l = k.split
        BY <4>1, Seam
      <4>2. CASE l # k.split
        <5>1. ~(l <= k.split)
          BY <1>1, <1>2, <4>2
        <5>2. QED
          BY <5>1 DEF NodeOf
      <4>3. QED
        BY <4>1, <4>2
    <3> HIDE DEF c
    <3>3. SiblingOf(k, e, l) = k.top[l][c]
      BY <2>1, <2>2 DEF NodeIn
    <3>4. QED
      BY <3>1, <3>2, <3>3
  <2>3. CASE c \notin Shift(k.first, l) .. Shift(k.last, l)
    BY <2>1, <2>3 DEF NodeIn
  <2>4. QED
    BY <2>2, <2>3
<1>3. CASE ~(l >= k.split)
  <2>1. SiblingOf(k, e, l) = NodeIn(sub, k.seed, k.param, b.first, b.last, l, c)
    BY <1>3 DEF SiblingOf, ReadFrom
  <2>2. CASE c \in Shift(b.first, l) .. Shift(b.last, l)
    <3>1. b.first \in Nat /\ b.last \in Nat /\ e \in b.first .. b.last
      BY <1>1, BoundsHold
    <3>2. PICK f \in b.first .. b.last : Shift(f, l) = c
      <4> HIDE DEF c, b
      <4> DEFINE p == b.first
                 q == b.last
      <4>1. p \in Nat /\ q \in Nat /\ e \in p .. q /\ l \in Nat /\ c \in Shift(p, l) .. Shift(q, l)
        BY <1>1, <2>2, <3>1
      <4> HIDE DEF p, q
      <4>2. \E f \in p .. q : Shift(f, l) = c
        BY <4>1, NodeInRange
      <4>3. QED
        BY <4>2 DEF p, q
    <3>3. f \in k.first .. k.last /\ Shift(f, k.split) = i
      <4> DEFINE w == 2 ^ k.split
                 x == i * w
                 y == (i + 1) * w
      <4>1. w \in Nat \ {0} /\ i \in Nat
        BY <1>1, Halving DEF Shift
      <4>2. b = [first |-> IF k.first > x THEN k.first ELSE x, last |-> IF k.last < y - 1 THEN k.last ELSE y - 1]
        BY DEF SubtreeBounds
      <4> HIDE DEF w, i
      <4>3. x \in Nat /\ y \in Nat /\ i + 1 \in Nat
        BY <4>1
      <4> HIDE DEF x, y
      <4>4. f \in Nat /\ k.first <= f /\ f <= k.last /\ x <= f /\ f < y
        <5> DEFINE p == b.first
                   q == b.last
        <5>1. p \in Nat /\ q \in Nat /\ f \in p .. q
          BY <3>1
        <5>2. p = (IF k.first > x THEN k.first ELSE x) /\ q = (IF k.last < y - 1 THEN k.last ELSE y - 1)
          BY <4>2
        <5> HIDE DEF p, q, b
        <5>3. QED
          BY <1>1, <4>3, <5>1, <5>2
      <4>5. i * w <= f /\ f < (i + 1) * w
        BY <4>4 DEF x, y
      <4>6. f \div w \in Nat /\ i <= f \div w /\ f \div w < i + 1
        BY <4>1, <4>3, <4>4, <4>5, Between
      <4>7. f \div w = i
        BY <4>1, <4>6
      <4>8. QED
        BY <1>1, <4>4, <4>7 DEF Shift, w
    <3>4. NodeOf(k, f, l) = sub[l][c]
      <4>1. l <= k.split
        BY <1>1, <1>3
      <4> HIDE DEF c
      <4>2. QED
        BY <3>2, <3>3, <4>1 DEF NodeOf
    <3>5. SiblingOf(k, e, l) = sub[l][c]
      <4> HIDE DEF c, sub, b
      <4>1. QED
        BY <2>1, <2>2 DEF NodeIn
    <3> HIDE DEF c, sub, b
    <3>6. QED
      BY <3>3, <3>4, <3>5
  <2>3. CASE c \notin Shift(b.first, l) .. Shift(b.last, l)
    <3> HIDE DEF sub, b
    <3>1. QED
      BY <2>1, <2>3 DEF NodeIn
  <2>4. QED
    BY <2>2, <2>3
<1>4. QED
  BY <1>2, <1>3

\* The values of its chains, its nodes, and what is filled in for nodes.
XmssDigests(k) ==
    (UNION {{ChainValue(k, e, i, n) : n \in 0 .. ChainLength - 1} : e \in k.first .. k.last, i \in 1 .. Chains})
    \cup {NodeOf(k, e, l) : e \in k.first .. k.last, l \in 0 .. LogLifetime}
    \cup {RandomNode(k.seed, k.param, l, c) : l \in Nat, c \in Int}

\* What each of them is hashed from, under which tweak.
SecretDigest(k, d) ==
    \E e \in k.first .. k.last, i \in 1 .. Chains : d = <<k.param, <<"PRF", i, e>>, <<k.seed>>>>
LinkDigest(k, d) ==
    \E e \in k.first .. k.last, i \in 1 .. Chains, n \in 0 .. ChainLength - 2 :
      d = <<k.param, <<"CHAIN", i * ChainLength + n, e>>, <<ChainValue(k, e, i, n)>>>>
LeafDigest(k, d) ==
    \E e \in k.first .. k.last : d = <<k.param, <<"WOTS_PK", 0, e>>, WotsPublicKey(k.seed, k.param, e)>>
NodeDigest(k, d) ==
    \E e \in k.first .. k.last, l \in 1 .. LogLifetime :
      /\ d = NodeOf(k, e, l)
      /\ d = <<k.param, <<"MERKLE", l, Shift(e, l)>>,
               InOrder(e, l - 1, NodeOf(k, e, l - 1), SiblingOf(k, e, l - 1))>>
FillerDigest(k, d) ==
    \E l \in Nat, c \in Int : d = <<k.param, <<"FILLER", l, c>>, <<k.seed>>>>

\* They are its digests.
LEMMA XmssDigestsHold ==
    ASSUME NEW k
    PROVE  /\ \A e \in k.first .. k.last, i \in 1 .. Chains, n \in 0 .. ChainLength - 1 :
                ChainValue(k, e, i, n) \in XmssDigests(k)
           /\ \A e \in k.first .. k.last, l \in 0 .. LogLifetime : NodeOf(k, e, l) \in XmssDigests(k)
           /\ \A l \in Nat, c \in Int : RandomNode(k.seed, k.param, l, c) \in XmssDigests(k)
           /\ \A d \in XmssDigests(k) :
                \/ \E e \in k.first .. k.last, i \in 1 .. Chains, n \in 0 .. ChainLength - 1 :
                     d = ChainValue(k, e, i, n)
                \/ \E e \in k.first .. k.last, l \in 0 .. LogLifetime : d = NodeOf(k, e, l)
                \/ \E l \in Nat, c \in Int : d = RandomNode(k.seed, k.param, l, c)
<1> DEFINE A(e, i) == {ChainValue(k, e, i, n) : n \in 0 .. ChainLength - 1}
           As == {A(e, i) : e \in k.first .. k.last, i \in 1 .. Chains}
           B == {NodeOf(k, e, l) : e \in k.first .. k.last, l \in 0 .. LogLifetime}
           C == {RandomNode(k.seed, k.param, l, c) : l \in Nat, c \in Int}
<1>1. XmssDigests(k) = (UNION As) \cup B \cup C
  BY DEF XmssDigests
<1>2. \A a : a \in As <=> \E e \in k.first .. k.last, i \in 1 .. Chains : a = A(e, i)
  <2> HIDE DEF A
  <2>1. QED
    BY SMT
<1>3. \A e, i, d : d \in A(e, i) <=> \E n \in 0 .. ChainLength - 1 : d = ChainValue(k, e, i, n)
  BY Zenon
<1>4. \A d : d \in B <=> \E e \in k.first .. k.last, l \in 0 .. LogLifetime : d = NodeOf(k, e, l)
  BY SMT
<1>5. \A d : d \in C <=> \E l \in Nat, c \in Int : d = RandomNode(k.seed, k.param, l, c)
  BY SMT
<1> HIDE DEF A, As, B, C
<1>6. \A e \in k.first .. k.last, i \in 1 .. Chains, n \in 0 .. ChainLength - 1 : ChainValue(k, e, i, n) \in UNION As
  BY <1>2, <1>3
<1>7. \A d \in UNION As : \E e \in k.first .. k.last, i \in 1 .. Chains, n \in 0 .. ChainLength - 1 :
                            d = ChainValue(k, e, i, n)
  BY <1>2, <1>3
<1> DEFINE U == UNION As
<1> HIDE DEF U
<1>8. \A d : d \in XmssDigests(k) <=> d \in U \/ d \in B \/ d \in C
  <2>1. XmssDigests(k) = U \cup B \cup C
    BY <1>1, Zenon DEF U
  <2>2. QED
    BY <2>1
<1>9. \A e \in k.first .. k.last, i \in 1 .. Chains, n \in 0 .. ChainLength - 1 : ChainValue(k, e, i, n) \in XmssDigests(k)
  BY <1>6, <1>8, Zenon DEF U
<1>10. \A e \in k.first .. k.last, l \in 0 .. LogLifetime : NodeOf(k, e, l) \in XmssDigests(k)
  BY <1>4, <1>8, Zenon
<1>11. \A l \in Nat, c \in Int : RandomNode(k.seed, k.param, l, c) \in XmssDigests(k)
  BY <1>5, <1>8, Zenon
<1>12. ASSUME NEW d \in XmssDigests(k)
       PROVE  \/ \E e \in k.first .. k.last, i \in 1 .. Chains, n \in 0 .. ChainLength - 1 :
                     d = ChainValue(k, e, i, n)
              \/ \E e \in k.first .. k.last, l \in 0 .. LogLifetime : d = NodeOf(k, e, l)
              \/ \E l \in Nat, c \in Int : d = RandomNode(k.seed, k.param, l, c)
  <2>1. d \in U \/ d \in B \/ d \in C
    BY <1>8
  <2>2. CASE d \in U
    BY <1>7, <2>2, Zenon DEF U
  <2>3. CASE d \in B
    BY <1>4, <2>3, Zenon
  <2>4. CASE d \in C
    BY <1>5, <2>4, Zenon
  <2>5. QED
    BY <2>1, <2>2, <2>3, <2>4
<1>13. QED
  BY <1>9, <1>10, <1>11, <1>12

\* What they look like.
LEMMA XmssShape ==
    ASSUME NEW k, KeyOk(k), NEW d \in XmssDigests(k)
    PROVE  SecretDigest(k, d) \/ LinkDigest(k, d) \/ LeafDigest(k, d) \/ NodeDigest(k, d) \/ FillerDigest(k, d)
<1>1. ASSUME NEW e \in k.first .. k.last, NEW i \in 1 .. Chains, NEW n \in 0 .. ChainLength - 1,
             d = ChainValue(k, e, i, n)
      PROVE  SecretDigest(k, d) \/ LinkDigest(k, d)
  <2>1. CASE n = 0
    <3>1. d = Tweaked(k.param, "PRF", i, e, <<k.seed>>)
      <4>1. 0 \in Nat
        OBVIOUS
      <4>2. QED
        BY <1>1, <2>1, <4>1, ChainIs
    <3>2. QED
      BY <3>1 DEF SecretDigest, Tweaked, TweakHashOf
  <2>2. CASE n # 0
    <3> DEFINE m == n - 1
    <3>1. m \in Nat /\ m \in 0 .. ChainLength - 2 /\ m + 1 = n
      BY XmssAssumption, <2>2
    <3> HIDE DEF m
    <3>2. d = TweakHashOf(k.param, ChainTweak(e, i, m), <<ChainValue(k, e, i, m)>>)
      BY <1>1, <3>1, ChainIs
    <3>3. QED
      BY <3>1, <3>2 DEF LinkDigest, TweakHashOf, ChainTweak
  <2>3. QED
    BY <2>1, <2>2
<1>2. ASSUME NEW e \in k.first .. k.last, NEW l \in 0 .. LogLifetime, d = NodeOf(k, e, l)
      PROVE  LeafDigest(k, d) \/ NodeDigest(k, d)
  <2>1. CASE l = 0
    <3>1. d = WotsHash(WotsPublicKey(k.seed, k.param, e), k.param, e)
      BY <1>2, <2>1, LeafIs
    <3>2. QED
      BY <3>1, Zenon DEF LeafDigest, WotsHash, Tweaked, TweakHashOf
  <2>2. CASE l # 0
    <3>1. l \in 1 .. LogLifetime
      BY <2>2
    <3>2. d = TweakHashOf(k.param, MerkleTweak(l, Shift(e, l)),
               InOrder(e, l - 1, NodeOf(k, e, l - 1), SiblingOf(k, e, l - 1)))
      BY <1>2, <3>1, NodesLink
    <3>3. QED
      BY <1>2, <3>1, <3>2, Zenon DEF NodeDigest, TweakHashOf, MerkleTweak
  <2>3. QED
    BY <2>1, <2>2
<1>3. ASSUME NEW l \in Nat, NEW c \in Int, d = RandomNode(k.seed, k.param, l, c)
      PROVE  FillerDigest(k, d)
  BY <1>3, Zenon DEF FillerDigest, RandomNode, Tweaked, TweakHashOf
<1>4. QED
  BY <1>1, <1>2, <1>3, XmssDigestsHold

\* What they are computed from is of them, or no digest.
LEMMA XmssClosed ==
    ASSUME NEW k, KeyOk(k), Len(k.seed) = 1
    PROVE  ClosedUnderInputs(XmssDigests(k)) /\ HasInputs(XmssDigests(k))
<1> DEFINE C == XmssDigests(k)
<1>1. /\ \A e \in k.first .. k.last, i \in 1 .. Chains, n \in 0 .. ChainLength - 1 : ChainValue(k, e, i, n) \in C
      /\ \A e \in k.first .. k.last, l \in 0 .. LogLifetime : NodeOf(k, e, l) \in C
      /\ \A l \in Nat, c \in Int : RandomNode(k.seed, k.param, l, c) \in C
  BY XmssDigestsHold
<1>2. ASSUME NEW d \in C
      PROVE  (\E n \in Nat : DOMAIN d[3] = 1 .. n) /\ \A i \in DOMAIN d[3] : d[3][i] \in C \/ Len(d[3][i]) = 1
  <2> HIDE DEF C
  <2>1. CASE SecretDigest(k, d) \/ FillerDigest(k, d)
    <3>1. d[3] = <<k.seed>>
      BY <2>1 DEF SecretDigest, FillerDigest
    <3>2. DOMAIN d[3] = 1 .. 1 /\ 1 \in Nat /\ d[3][1] = k.seed
      BY <3>1
    <3>3. \A i \in DOMAIN d[3] : i = 1
      BY <3>2
    <3>4. QED
      BY <3>2, <3>3
  <2>2. CASE LinkDigest(k, d)
    <3>1. PICK e \in k.first .. k.last, i \in 1 .. Chains, n \in 0 .. ChainLength - 2 : d[3] = <<ChainValue(k, e, i, n)>>
      BY <2>2 DEF LinkDigest
    <3>2. n \in 0 .. ChainLength - 1
      BY XmssAssumption
    <3>3. ChainValue(k, e, i, n) \in C
      BY <1>1, <3>2
    <3>4. DOMAIN d[3] = 1 .. 1 /\ 1 \in Nat /\ d[3][1] = ChainValue(k, e, i, n)
      BY <3>1
    <3>5. \A j \in DOMAIN d[3] : j = 1
      BY <3>4
    <3>6. QED
      BY <3>3, <3>4, <3>5
  <2>3. CASE LeafDigest(k, d)
    <3>1. PICK e \in k.first .. k.last : d[3] = WotsPublicKey(k.seed, k.param, e)
      BY <2>3 DEF LeafDigest
    <3>2. d[3] = [i \in 1 .. Chains |-> ChainValue(k, e, i, ChainLength - 1)]
      BY <3>1 DEF WotsPublicKey, ChainValue
    <3>3. DOMAIN d[3] = 1 .. Chains /\ Chains \in Nat /\ ChainLength - 1 \in 0 .. ChainLength - 1
      BY <3>2, XmssAssumption
    <3>4. ASSUME NEW i \in 1 .. Chains
          PROVE  d[3][i] \in C
      <4>1. d[3][i] = ChainValue(k, e, i, ChainLength - 1)
        BY <3>2
      <4>2. QED
        BY <1>1, <3>3, <4>1
    <3>5. QED
      BY <3>3, <3>4
  <2>4. CASE NodeDigest(k, d)
    <3>1. PICK e \in k.first .. k.last, l \in 1 .. LogLifetime :
            d[3] = InOrder(e, l - 1, NodeOf(k, e, l - 1), SiblingOf(k, e, l - 1))
      BY <2>4 DEF NodeDigest
    <3> DEFINE m == l - 1
               x == NodeOf(k, e, m)
               y == SiblingOf(k, e, m)
    <3>2. m \in 0 .. LogLifetime /\ m \in 0 .. LogLifetime - 1 /\ m \in Nat
      BY XmssAssumption
    <3>3. d[3] = <<x, y>> \/ d[3] = <<y, x>>
      BY <3>1 DEF InOrder
    <3>4. Neighbour(Shift(e, m)) \in Int
      <4>1. e \in Nat
        BY DEF KeyOk
      <4>2. Shift(e, m) \in Nat
        BY <3>2, <4>1, Halving DEF Shift
      <4>3. QED
        BY <4>2 DEF Neighbour
    <3> HIDE DEF m
    <3>5. x \in C
      BY <1>1, <3>2
    <3>6. y \in C
      <4>1. \/ \E f \in k.first .. k.last : y = NodeOf(k, f, m)
            \/ y = RandomNode(k.seed, k.param, m, Neighbour(Shift(e, m)))
        BY <3>2, SiblingIsNode
      <4> HIDE DEF y, x
      <4>2. QED
        BY <1>1, <3>2, <3>4, <4>1
    <3> HIDE DEF x, y
    <3>7. DOMAIN d[3] = 1 .. 2 /\ 2 \in Nat /\ d[3][1] \in C /\ d[3][2] \in C
      BY <3>3, <3>5, <3>6
    <3>8. \A j \in DOMAIN d[3] : j = 1 \/ j = 2
      BY <3>7
    <3>9. QED
      BY <3>7, <3>8
  <2>5. QED
    BY <2>1, <2>2, <2>3, <2>4, XmssShape DEF C
<1> HIDE DEF C
<1>3. QED
  BY <1>2 DEF ClosedUnderInputs, HasInputs, C

\* A number has one quotient and one remainder.
LEMMA OneQuotient ==
    ASSUME NEW w \in Nat \ {0}, NEW a \in Nat, NEW b \in Nat, NEW r \in 0 .. w - 1, NEW s \in 0 .. w - 1,
           a * w + r = b * w + s
    PROVE  a = b /\ r = s
<1>1. ASSUME NEW p \in Nat, NEW q \in Nat, NEW x \in 0 .. w - 1, NEW y \in 0 .. w - 1, p < q
      PROVE  p * w + x < q * w + y
  <2>1. PICK d \in Nat : q = p + 1 + d
    <3>1. q - p - 1 \in Nat /\ q = p + 1 + (q - p - 1)
      BY <1>1
    <3>2. QED
      BY <3>1
  <2>2. q * w = p * w + w + d * w /\ d * w \in Nat /\ p * w \in Nat
    BY <2>1
  <2>3. QED
    BY <2>2
<1>2. ~(a < b) /\ ~(b < a)
  <2>1. a * w + r \in Nat /\ b * w + s \in Nat
    OBVIOUS
  <2>2. a < b => a * w + r < b * w + s
    BY <1>1
  <2>3. b < a => b * w + s < a * w + r
    BY <1>1
  <2>4. QED
    BY <2>1, <2>2, <2>3
<1>3. a = b
  BY <1>2
<1>4. a * w \in Nat
  OBVIOUS
<1>5. QED
  BY <1>3, <1>4

\* Triples are the same if their parts are.
LEMMA SameTriple ==
    ASSUME NEW a, NEW b, NEW c, NEW p, NEW q, NEW r, <<a, b, c>> = <<p, q, r>>
    PROVE  b = q /\ c = r
OBVIOUS

\* No two of them have one tweak.
LEMMA XmssOneEach ==
    ASSUME NEW k, KeyOk(k)
    PROVE  OneEach(XmssDigests(k))
<1> SUFFICES ASSUME NEW d \in XmssDigests(k), NEW f \in XmssDigests(k), d[2] = f[2]
             PROVE  d = f
  BY DEF OneEach
<1>1. k.first \in Nat /\ k.last \in Nat
  BY DEF KeyOk
<1>2. ASSUME NEW x \in XmssDigests(k)
      PROVE  /\ x[2][1] \in {"PRF", "CHAIN", "WOTS_PK", "MERKLE", "FILLER"}
             /\ x[2][1] = "PRF" => SecretDigest(k, x)
             /\ x[2][1] = "CHAIN" => LinkDigest(k, x)
             /\ x[2][1] = "WOTS_PK" => LeafDigest(k, x)
             /\ x[2][1] = "MERKLE" => NodeDigest(k, x)
             /\ x[2][1] = "FILLER" => FillerDigest(k, x)
  <2>1. SecretDigest(k, x) => x[2][1] = "PRF"
    BY DEF SecretDigest
  <2>2. LinkDigest(k, x) => x[2][1] = "CHAIN"
    BY DEF LinkDigest
  <2>3. LeafDigest(k, x) => x[2][1] = "WOTS_PK"
    BY DEF LeafDigest
  <2>4. NodeDigest(k, x) => x[2][1] = "MERKLE"
    BY DEF NodeDigest
  <2>5. FillerDigest(k, x) => x[2][1] = "FILLER"
    BY DEF FillerDigest
  <2>6. QED
    BY <2>1, <2>2, <2>3, <2>4, <2>5, XmssShape
<1>3. d[2][1] = f[2][1]
  OBVIOUS
<1>4. CASE d[2][1] = "PRF"
  <2>1. SecretDigest(k, d) /\ SecretDigest(k, f)
    BY <1>2, <1>3, <1>4
  <2>2. QED
    BY <2>1 DEF SecretDigest
<1>5. CASE d[2][1] = "CHAIN"
  <2>1. LinkDigest(k, d) /\ LinkDigest(k, f)
    BY <1>2, <1>3, <1>5
  <2>2. PICK e \in k.first .. k.last, i \in 1 .. Chains, n \in 0 .. ChainLength - 2 :
          d = <<k.param, <<"CHAIN", i * ChainLength + n, e>>, <<ChainValue(k, e, i, n)>>>>
    BY <2>1 DEF LinkDigest
  <2>3. PICK g \in k.first .. k.last, j \in 1 .. Chains, m \in 0 .. ChainLength - 2 :
          f = <<k.param, <<"CHAIN", j * ChainLength + m, g>>, <<ChainValue(k, g, j, m)>>>>
    BY <2>1 DEF LinkDigest
  <2>4. e = g /\ i * ChainLength + n = j * ChainLength + m
    <3>1. <<"CHAIN", i * ChainLength + n, e>> = <<"CHAIN", j * ChainLength + m, g>>
      BY <2>2, <2>3
    <3>2. QED
      BY <3>1, SameTriple, Zenon
  <2>5. i = j /\ n = m
    <3>1. ChainLength \in Nat \ {0} /\ i \in Nat /\ j \in Nat /\ n \in 0 .. ChainLength - 1 /\ m \in 0 .. ChainLength - 1
      BY XmssAssumption
    <3>2. QED
      BY <2>4, <3>1, OneQuotient
  <2>6. QED
    BY <2>2, <2>3, <2>4, <2>5
<1>6. CASE d[2][1] = "WOTS_PK"
  <2>1. LeafDigest(k, d) /\ LeafDigest(k, f)
    BY <1>2, <1>3, <1>6
  <2>2. QED
    BY <2>1 DEF LeafDigest
<1>7. CASE d[2][1] = "MERKLE"
  <2>1. NodeDigest(k, d) /\ NodeDigest(k, f)
    BY <1>2, <1>3, <1>7
  <2>2. PICK e \in k.first .. k.last, l \in 1 .. LogLifetime :
          /\ d = NodeOf(k, e, l)
          /\ d = <<k.param, <<"MERKLE", l, Shift(e, l)>>,
                   InOrder(e, l - 1, NodeOf(k, e, l - 1), SiblingOf(k, e, l - 1))>>
    BY <2>1, Zenon DEF NodeDigest
  <2>3. PICK g \in k.first .. k.last, m \in 1 .. LogLifetime :
          /\ f = NodeOf(k, g, m)
          /\ f = <<k.param, <<"MERKLE", m, Shift(g, m)>>,
                   InOrder(g, m - 1, NodeOf(k, g, m - 1), SiblingOf(k, g, m - 1))>>
    BY <2>1, Zenon DEF NodeDigest
  <2>4. l = m /\ Shift(e, l) = Shift(g, m) /\ l \in Nat
    <3>1. <<"MERKLE", l, Shift(e, l)>> = <<"MERKLE", m, Shift(g, m)>>
      BY <2>2, <2>3
    <3>2. l = m /\ Shift(e, l) = Shift(g, m)
      BY <3>1, SameTriple, Zenon
    <3>3. QED
      BY <3>2
  <2>5. NodeOf(k, e, l) = NodeOf(k, g, l)
    BY <2>4, OneNode
  <2>6. QED
    BY <2>2, <2>3, <2>4, <2>5
<1>8. CASE d[2][1] = "FILLER"
  <2>1. FillerDigest(k, d) /\ FillerDigest(k, f)
    BY <1>2, <1>3, <1>8
  <2>2. QED
    BY <2>1 DEF FillerDigest
<1>9. QED
  BY <1>2, <1>4, <1>5, <1>6, <1>7, <1>8

\* Finitely many finite parts of C are a finite part of C.
LEMMA PartsOf ==
    ASSUME NEW S, IsFiniteSet(S), NEW C, NEW f, DOMAIN f = S,
           \A x \in S : IsFiniteSet(f[x]) /\ f[x] \in SUBSET C
    PROVE  IsFiniteSet(UNION {f[x] : x \in S}) /\ (UNION {f[x] : x \in S}) \in SUBSET C
<1> DEFINE F == {f[x] : x \in S}
<1>1. IsFiniteSet(F)
  BY FiniteImage
<1>2. \A T \in F : IsFiniteSet(T) /\ T \in SUBSET C
  OBVIOUS
<1> HIDE DEF F
<1>3. IsFiniteSet(UNION F)
  BY <1>1, <1>2, FS_UNION
<1>4. (UNION F) \in SUBSET C
  BY <1>2
<1>5. QED
  BY <1>3, <1>4 DEF F

\* So are the elements of a sequence of C.
LEMMA SequenceOf ==
    ASSUME NEW C, NEW n \in Nat, NEW s, DOMAIN s = 1 .. n, \A i \in 1 .. n : s[i] \in C
    PROVE  IsFiniteSet(ToSet(s)) /\ ToSet(s) \in SUBSET C
<1>1. IsFiniteSet(ToSet(s))
  BY FiniteToSet
<1>2. ToSet(s) \in SUBSET C
  BY DEF ToSet
<1>3. QED
  BY <1>1, <1>2

\* The root is the node of every epoch.
LEMMA RootIsNode ==
    ASSUME NEW k, KeyOk(k), NEW e \in k.first .. k.last
    PROVE  k.top[LogLifetime][0] = NodeOf(k, e, LogLifetime)
<1> DEFINE n == LogLifetime
<1>1. n \in Nat /\ e \in Nat /\ e < 2 ^ n /\ k.split \in 0 .. n
  <2>1. LogLifetime \in Nat
    BY XmssAssumption
  <2>2. 2 ^ LogLifetime \in Nat
    BY <2>1, Halving
  <2>3. QED
    BY <2>1, <2>2 DEF KeyOk
<1>2. Shift(e, n) = 0
  <2> DEFINE w == 2 ^ n
  <2>1. w \in Nat \ {0} /\ e < w
    BY <1>1, Halving
  <2> HIDE DEF w
  <2>2. e \div w = 0
    BY <1>1, <2>1
  <2>3. QED
    BY <2>2 DEF Shift, w
<1>3. CASE k.split = n
  BY <1>2, <1>3, Seam
<1>4. CASE k.split # n
  <2>1. ~(n <= k.split)
    BY <1>1, <1>4
  <2>2. QED
    BY <1>2, <2>1 DEF NodeOf
<1>5. QED
  BY <1>3, <1>4

\* A signature is of chains and of siblings of the key.
SignedWith(k, s) ==
    \E e \in k.first .. k.last, message \in Messages, trial \in 0 .. MaxRandomizerTrials - 1 :
      /\ Encodes(k, message, e, trial)
      /\ s.wots = WotsSign(k.seed, k.param, message, e, Randomness(k.seed, k.param, message, e, trial))
      /\ s.proof = Siblings(k, e, LogLifetime)

\* So are all that were returned.
XmssKept ==
    /\ IsFiniteSet(signed)
    /\ key # NoKey => key.seed = Seed /\ \A s \in signed : SignedWith(key, s)

\* A step of the scheme keeps that.
LEMMA XmssKeptKeeps ==
    ASSUME XmssInv, XmssKept, XmssNext
    PROVE  XmssKept'
<1>1. ASSUME NEW first \in Epochs, NEW last \in Epochs, KeyGen(first, last)
      PROVE  XmssKept'
  <2>1. key = NoKey /\ signed' = signed /\ key'.seed = Seed
    BY <1>1 DEF KeyGen
  <2>2. signed = {}
    BY <2>1 DEF XmssInv, KeyOk, NoKey
  <2>3. QED
    BY <2>1, <2>2 DEF XmssKept
<1>2. ASSUME UNCHANGED <<key, signed>>
      PROVE  XmssKept'
  <2>1. key' = key /\ signed' = signed
    BY <1>2
  <2>2. QED
    BY <2>1 DEF XmssKept
<1>3. ASSUME NEW t \in Thread, SignReturns(t)
      PROVE  XmssKept'
  <2> DEFINE w == threads[t]
             s == [message |-> w.message, epoch |-> w.epoch, wots |-> w.wots, proof |-> w.proof]
  <2>1. /\ w.at = "read" /\ Len(w.proof) = LogLifetime /\ key' = key /\ signed' = signed \cup {s}
    BY <1>3 DEF SignReturns
  <2>2. KeyOk(key)
    <3>1. w.at # "idle"
      BY <2>1
    <3>2. QED
      BY <3>1, KeyThere
  <2>3. CallFits(key, cache, holder, t, threads[t])
    <3>1. key # NoKey
      BY <2>2 DEF KeyOk, NoKey
    <3>2. QED
      BY <3>1, KeyIs
  <2>4. PICK e \in key.first .. key.last, message \in Messages, trial \in 0 .. MaxRandomizerTrials - 1,
             n \in 0 .. LogLifetime :
               Encodes(key, message, e, trial) /\ w = Signing(key, "read", message, e, trial, n)
    BY <2>1, <2>3, AtTheRead
  <2>5. /\ w.proof = Siblings(key, e, n)
        /\ w.wots = WotsSign(key.seed, key.param, message, e, Randomness(key.seed, key.param, message, e, trial))
    BY <2>4 DEF Signing
  <2>6. n = LogLifetime
    <3>1. n \in Nat
      BY XmssAssumption
    <3> HIDE DEF w
    <3>2. QED
      BY <2>1, <2>5, <3>1, SiblingsGrow
  <2>7. s.wots = w.wots /\ s.proof = w.proof
    OBVIOUS
  <2> HIDE DEF s, w
  <2>8. SignedWith(key, s)
    BY <2>4, <2>5, <2>6, <2>7 DEF SignedWith
  <2>9. IsFiniteSet(signed \cup {s})
    BY FS_AddElement DEF XmssKept
  <2>10. QED
    <3>1. key # NoKey => key.seed = Seed /\ \A x \in signed : SignedWith(key, x)
      BY DEF XmssKept
    <3>2. key # NoKey => key.seed = Seed /\ \A x \in signed \cup {s} : SignedWith(key, x)
      BY <2>8, <3>1
    <3>3. QED
      BY <2>1, <2>9, <3>2 DEF XmssKept
<1>4. CASE \E first, last \in Epochs : KeyGen(first, last)
  BY <1>1, <1>4
<1>5. ASSUME NEW t \in Thread, NEW message \in Messages, NEW epoch \in Epochs, SignCall(t, message, epoch)
      PROVE  XmssKept'
  BY <1>2, <1>5 DEF SignCall
<1>6. ASSUME NEW t \in Thread, NEW epoch \in Epochs, Prepare(t, epoch)
      PROVE  XmssKept'
  BY <1>2, <1>6 DEF Prepare
<1>7. ASSUME NEW t \in Thread, CachedBottomSubtree(t)
      PROVE  XmssKept'
  BY <1>2, <1>7 DEF CachedBottomSubtree
<1>8. ASSUME NEW t \in Thread, ReadSibling(t)
      PROVE  XmssKept'
  BY <1>2, <1>8 DEF ReadSibling
<1>9. QED
  BY <1>3, <1>4, <1>5, <1>6, <1>7, <1>8 DEF XmssNext

\* What the key has and what was returned are digests of the key, and not many.
LEMMA XmssReturnedFit ==
    ASSUME DigitsFit, KeyOk(key), XmssKept
    PROVE  XmssReturned \in SUBSET XmssDigests(key) /\ IsFiniteSet(XmssReturned)
<1> DEFINE C == XmssDigests(key)
           f == [s \in signed |-> ToSet(s.wots.tips) \cup ToSet(s.proof)]
           Parts == UNION {f[s] : s \in signed}
<1>1. XmssReturned = {Root} \cup Parts
  BY DEF XmssReturned
<1>2. key # NoKey
  BY DEF KeyOk, NoKey
<1>3. /\ \A e \in key.first .. key.last, i \in 1 .. Chains, n \in 0 .. ChainLength - 1 : ChainValue(key, e, i, n) \in C
      /\ \A e \in key.first .. key.last, l \in 0 .. LogLifetime : NodeOf(key, e, l) \in C
      /\ \A l \in Nat, c \in Int : RandomNode(key.seed, key.param, l, c) \in C
  BY XmssDigestsHold
<1>4. LogLifetime \in Nat /\ Chains \in Nat /\ LogLifetime \in 0 .. LogLifetime
  BY XmssAssumption
<1>5. Root \in C
  <2>1. key.first \in key.first .. key.last
    BY DEF KeyOk
  <2>2. Root = NodeOf(key, key.first, LogLifetime)
    BY <2>1, RootIsNode DEF Root
  <2> HIDE DEF C
  <2>3. QED
    BY <1>3, <1>4, <2>1, <2>2
<1>6. ASSUME NEW s \in signed, NEW i \in 1 .. Chains
      PROVE  s.wots.tips[i] \in C
  <2>1. PICK e \in key.first .. key.last, message \in Messages, trial \in 0 .. MaxRandomizerTrials - 1 :
          /\ Encodes(key, message, e, trial)
          /\ s.wots = WotsSign(key.seed, key.param, message, e, Randomness(key.seed, key.param, message, e, trial))
    BY <1>2 DEF XmssKept, SignedWith
  <2> DEFINE code == WotsEncode(message, e, key.param, Randomness(key.seed, key.param, message, e, trial))
             d == DigitsOf(Tweaked(key.param, "ENCODING", 0, e,
                                   <<message, Randomness(key.seed, key.param, message, e, trial)>>))
  <2>2. code # << >>
    BY <2>1 DEF Encodes
  <2>3. code = d
    BY <2>2 DEF WotsEncode, CodewordOf
  <2>4. d = << >> \/ d \in [1 .. Chains -> 0 .. ChainLength - 1]
    BY Zenon DEF DigitsFit
  <2>5. s.wots.tips = [j \in 1 .. Chains |-> IterateHash(WotsSecret(key.seed, key.param, e, j), code[j], key.param, e, j, 0)]
    BY <2>1 DEF WotsSign
  <2> HIDE DEF code, d, C
  <2>6. code[i] \in 0 .. ChainLength - 1
    BY <2>2, <2>3, <2>4
  <2>7. s.wots.tips[i] = ChainValue(key, e, i, code[i])
    BY <2>5 DEF ChainValue
  <2>8. QED
    BY <1>3, <2>6, <2>7
<1>7. ASSUME NEW s \in signed, NEW i \in 1 .. LogLifetime
      PROVE  s.proof[i] \in C
  <2>1. PICK e \in key.first .. key.last : s.proof = Siblings(key, e, LogLifetime)
    BY <1>2 DEF XmssKept, SignedWith
  <2> DEFINE m == i - 1
  <2>2. m \in 0 .. LogLifetime - 1 /\ m \in Nat /\ m \in 0 .. LogLifetime
    BY <1>4
  <2>3. s.proof[i] = SiblingOf(key, e, m)
    BY <2>1 DEF Siblings
  <2> HIDE DEF m, C
  <2>4. \/ \E g \in key.first .. key.last : SiblingOf(key, e, m) = NodeOf(key, g, m)
        \/ SiblingOf(key, e, m) = RandomNode(key.seed, key.param, m, Neighbour(Shift(e, m)))
    BY <2>2, SiblingIsNode
  <2>5. Neighbour(Shift(e, m)) \in Int
    <3>1. e \in Nat
      BY DEF KeyOk
    <3>2. Shift(e, m) \in Nat
      BY <2>2, <3>1, Halving DEF Shift
    <3>3. QED
      BY <3>2 DEF Neighbour
  <2>6. QED
    BY <1>3, <2>2, <2>3, <2>4, <2>5
<1>8. ASSUME NEW s \in signed
      PROVE  IsFiniteSet(f[s]) /\ f[s] \in SUBSET C
  <2>1. DOMAIN s.wots.tips = 1 .. Chains /\ DOMAIN s.proof = 1 .. LogLifetime
    <3>1. PICK e \in key.first .. key.last, message \in Messages, trial \in 0 .. MaxRandomizerTrials - 1 :
            /\ s.wots = WotsSign(key.seed, key.param, message, e, Randomness(key.seed, key.param, message, e, trial))
            /\ s.proof = Siblings(key, e, LogLifetime)
      BY <1>2 DEF XmssKept, SignedWith
    <3>2. QED
      BY <3>1 DEF WotsSign, Siblings
  <2> DEFINE tips == s.wots.tips
             proof == s.proof
  <2>2. /\ \A i \in 1 .. Chains : tips[i] \in C
        /\ \A i \in 1 .. LogLifetime : proof[i] \in C
    BY <1>6, <1>7
  <2>3. f[s] = ToSet(tips) \cup ToSet(proof)
    OBVIOUS
  <2>4. DOMAIN tips = 1 .. Chains /\ DOMAIN proof = 1 .. LogLifetime
    BY <2>1
  <2> HIDE DEF tips, proof, C, f
  <2>5. IsFiniteSet(ToSet(tips)) /\ ToSet(tips) \in SUBSET C
    BY <1>4, <2>2, <2>4, SequenceOf
  <2>6. IsFiniteSet(ToSet(proof)) /\ ToSet(proof) \in SUBSET C
    BY <1>4, <2>2, <2>4, SequenceOf
  <2>7. IsFiniteSet(ToSet(tips) \cup ToSet(proof))
    BY <2>5, <2>6, FS_Union
  <2>8. QED
    BY <2>3, <2>5, <2>6, <2>7
<1>9. IsFiniteSet(Parts) /\ Parts \in SUBSET C
  <2>1. IsFiniteSet(signed) /\ DOMAIN f = signed
    BY DEF XmssKept
  <2> HIDE DEF f, C
  <2>2. QED
    BY <1>8, <2>1, PartsOf
<1> HIDE DEF Parts, C
<1>10. IsFiniteSet({Root} \cup Parts)
  BY <1>9, FS_Singleton, FS_Union
<1>11. {Root} \cup Parts \in SUBSET C
  BY <1>5, <1>9
<1>12. QED
  BY <1>1, <1>10, <1>11 DEF C

\* However far it goes back, no tweak of a key hashes two inputs.
LEMMA XmssOneInput ==
    ASSUME DigitsFit, XmssInv, XmssKept
    PROVE  OneInput(XmssHashed)
<1>1. CASE key = NoKey
  <2>1. XmssHashed = {}
    BY <1>1 DEF XmssHashed
  <2>2. {<<d[1], d[2]>> : d \in {}} = {}
    OBVIOUS
  <2>3. QED
    BY <2>1, <2>2 DEF OneInput
<1>2. CASE key # NoKey
  <2>1. KeyOk(key) /\ key.seed = Seed
    BY <1>2, KeyIs DEF XmssKept
  <2>2. Len(key.seed) = 1
    BY <2>1 DEF Seed
  <2>3. LogLifetime + ChainLength \in Nat
    BY XmssAssumption
  <2>4. OneInput(HashedIn(XmssReturned, LogLifetime + ChainLength))
    BY <2>1, <2>2, <2>3, XmssClosed, XmssOneEach, XmssReturnedFit, HashedOnce
  <2>5. QED
    BY <1>2, <2>4 DEF XmssHashed
<1>3. QED
  BY <1>1, <1>2

-----------------------------------------------------------------------------
(* The digests of a SPHINCS key. *)

\* What a chain of a one-time key has after n hashes.
OtsValue(pp, m, lay, tau, e, i, n) ==
    Chain(pp, Pos(lay, tau, e), i, 0, n, OtsSecret(pp, m, Pos(lay, tau, e), i))

\* A chain starts with the secret, and each is hashed from the one before.
OtsLink(pp, m, lay, tau, e, i, n, d) ==
    d = <<pp, <<"CHAIN", lay, tau, i * OtsLength + n, e>>, <<OtsValue(pp, m, lay, tau, e, i, n)>>>>
IsOtsChain(pp, m, lay, tau, e, i) ==
    /\ OtsValue(pp, m, lay, tau, e, i, 0) = <<pp, <<"PRF", lay, tau, i, e>>, <<m>>>>
    /\ \A n \in Nat : OtsLink(pp, m, lay, tau, e, i, n, OtsValue(pp, m, lay, tau, e, i, n + 1))

\* So it is with every chain.
LEMMA OtsChainIs ==
    ASSUME NEW pp, NEW m, NEW lay, NEW tau, NEW e, NEW i \in Nat
    PROVE  IsOtsChain(pp, m, lay, tau, e, i)
<1> SUFFICES ASSUME NEW n \in Nat
             PROVE  /\ OtsValue(pp, m, lay, tau, e, i, 0) = <<pp, <<"PRF", lay, tau, i, e>>, <<m>>>>
                    /\ OtsLink(pp, m, lay, tau, e, i, n, OtsValue(pp, m, lay, tau, e, i, n + 1))
  BY DEF IsOtsChain
<1> DEFINE pos == Pos(lay, tau, e)
           s == OtsSecret(pp, m, pos, i)
           T(j) == SphincsTweak("CHAIN", pos.lay, pos.tau, OtsLength * i + 0 + j - 1, pos.e)
           tweaks(k) == [j \in 1 .. k |-> T(j)]
<1>1. pos.lay = lay /\ pos.tau = tau /\ pos.e = e
  BY DEF Pos
<1>2. Iterate(pp, tweaks(0), s) = s
  <2>1. Len(tweaks(0)) = 0
    OBVIOUS
  <2> HIDE DEF tweaks, s
  <2>2. QED
    BY <2>1, IterateNone
<1>3. Iterate(pp, tweaks(n + 1), s)
        = TweakHashOf(pp, tweaks(n + 1)[n + 1], <<Iterate(pp, [j \in 1 .. n |-> tweaks(n + 1)[j]], s)>>)
  <2>1. Len(tweaks(n + 1)) = n + 1
    OBVIOUS
  <2> HIDE DEF tweaks, s
  <2>2. QED
    BY <2>1, IterateOnce
<1>4. [j \in 1 .. n |-> tweaks(n + 1)[j]] = tweaks(n)
  <2> HIDE DEF T
  <2>1. QED
    OBVIOUS
<1>5. tweaks(n + 1)[n + 1] = <<"CHAIN", lay, tau, i * OtsLength + n, e>>
  <2>1. n + 1 \in 1 .. n + 1
    OBVIOUS
  <2>2. tweaks(n + 1)[n + 1] = T(n + 1)
    <3> HIDE DEF T
    <3>1. QED
      BY <2>1
  <2>3. OtsLength * i + 0 + (n + 1) - 1 = i * OtsLength + n
    <3>1. OtsLength \in Nat
      BY SphincsAssumption
    <3> DEFINE x == OtsLength * i
               y == i * OtsLength
    <3>2. x = y /\ x \in Nat
      BY <3>1
    <3> HIDE DEF x, y
    <3>3. x + 0 + (n + 1) - 1 = y + n
      BY <3>2
    <3>4. QED
      BY <3>3 DEF x, y
  <2>4. T(n + 1) = <<"CHAIN", lay, tau, OtsLength * i + 0 + (n + 1) - 1, e>>
    BY <1>1 DEF SphincsTweak
  <2> HIDE DEF T, tweaks
  <2>5. QED
    BY <2>2, <2>3, <2>4
<1>6. OtsValue(pp, m, lay, tau, e, i, 0) = Iterate(pp, tweaks(0), s)
  BY DEF OtsValue, Chain
<1>7. OtsValue(pp, m, lay, tau, e, i, n + 1) = Iterate(pp, tweaks(n + 1), s)
  BY DEF OtsValue, Chain
<1>8. OtsValue(pp, m, lay, tau, e, i, n) = Iterate(pp, tweaks(n), s)
  BY DEF OtsValue, Chain
<1>9. s = <<pp, <<"PRF", lay, tau, i, e>>, <<m>>>>
  BY <1>1 DEF OtsSecret, Th, TweakHashOf, SphincsTweak
<1> HIDE DEF tweaks, s, T
<1>10. QED
  BY <1>2, <1>3, <1>4, <1>5, <1>6, <1>7, <1>8, <1>9 DEF TweakHashOf, OtsLink

\* The places of what is in a layer's trees, on its chains, and in the few-time trees.
ChainPlaces == {p \in Nat \X Nat \X Nat \X Nat \X Nat : p[5] <= OtsLength - 1}
TreePlaces == {p \in Layers \X Nat \X Nat \X Nat : p[3] <= Heights[p[1]] /\ p[4] < 2 ^ (Heights[p[1]] - p[3])}
FtsPlaces == {p \in Nat \X Nat \X Nat \X Nat : p[3] <= FtsHeight /\ p[4] < 2 ^ (FtsHeight - p[3])}

\* A node of a tree of a layer, and one of a few-time tree.
TreeNode(pp, m, lay, tau, l, j) == WholeTree(pp, m, lay, tau)[l][j + 1]
FtsTreeNode(pp, m, kappa, idx, l, j) == FtsTree(pp, m, idx, kappa)[l][j]

\* What a key can hash without a message.
SphincsDigests(pp, m) ==
    {OtsValue(pp, m, p[1], p[2], p[3], p[4], p[5]) : p \in ChainPlaces}
    \cup {TreeNode(pp, m, p[1], p[2], p[3], p[4]) : p \in TreePlaces}
    \cup {FtsTreeNode(pp, m, p[1], p[2], p[3], p[4]) : p \in FtsPlaces}
    \cup {FtsSecret(pp, m, p[2], p[1], p[3]) : p \in Nat \X Nat \X Nat}

\* The kinds of them.
OnChain(pp, m, d) ==
    \E lay, tau, e, i \in Nat, n \in 0 .. OtsLength - 1 : d = OtsValue(pp, m, lay, tau, e, i, n)
InTree(pp, m, d) ==
    \E lay \in Layers, tau \in Nat : \E l \in 0 .. Heights[lay] : \E j \in 0 .. 2 ^ (Heights[lay] - l) - 1 :
      d = TreeNode(pp, m, lay, tau, l, j)
InFts(pp, m, d) ==
    \E kappa, idx \in Nat, l \in 0 .. FtsHeight : \E j \in 0 .. 2 ^ (FtsHeight - l) - 1 :
      d = FtsTreeNode(pp, m, kappa, idx, l, j)
IsSecret(pp, m, d) == \E kappa, idx, j \in Nat : d = FtsSecret(pp, m, idx, kappa, j)

\* There are no others.
LEMMA SphincsDigestsAre ==
    ASSUME NEW pp, NEW m, NEW d
    PROVE  d \in SphincsDigests(pp, m) <=> OnChain(pp, m, d) \/ InTree(pp, m, d) \/ InFts(pp, m, d) \/ IsSecret(pp, m, d)
<1> DEFINE A == {OtsValue(pp, m, p[1], p[2], p[3], p[4], p[5]) : p \in ChainPlaces}
           B == {TreeNode(pp, m, p[1], p[2], p[3], p[4]) : p \in TreePlaces}
           C == {FtsTreeNode(pp, m, p[1], p[2], p[3], p[4]) : p \in FtsPlaces}
           D == {FtsSecret(pp, m, p[2], p[1], p[3]) : p \in Nat \X Nat \X Nat}
<1>1. SphincsDigests(pp, m) = A \cup B \cup C \cup D
  BY DEF SphincsDigests
<1>2. d \in A <=> \E p \in ChainPlaces : d = OtsValue(pp, m, p[1], p[2], p[3], p[4], p[5])
  BY Zenon
<1>3. d \in B <=> \E p \in TreePlaces : d = TreeNode(pp, m, p[1], p[2], p[3], p[4])
  BY Zenon
<1>4. d \in C <=> \E p \in FtsPlaces : d = FtsTreeNode(pp, m, p[1], p[2], p[3], p[4])
  BY Zenon
<1>5. d \in D <=> \E p \in Nat \X Nat \X Nat : d = FtsSecret(pp, m, p[2], p[1], p[3])
  BY Zenon
<1>6. d \in SphincsDigests(pp, m) <=> d \in A \/ d \in B \/ d \in C \/ d \in D
  BY <1>1
<1> HIDE DEF A, B, C, D
<1>7. OtsLength \in Nat /\ FtsHeight \in Nat /\ \A lay \in Layers : Heights[lay] \in Nat
  BY SphincsAssumption, SplitInside
<1>8. \A x \in Nat, y \in Nat : y <= x => 2 ^ (x - y) \in Nat
  <2>1. ASSUME NEW x \in Nat, NEW y \in Nat, y <= x
        PROVE  2 ^ (x - y) \in Nat
    <3> DEFINE z == x - y
    <3>1. z \in Nat
      BY <2>1
    <3> HIDE DEF z
    <3>2. 2 ^ z \in Nat
      BY <3>1, Halving
    <3>3. QED
      BY <3>2 DEF z
  <2>2. QED
    BY <2>1
<1>9. d \in A <=> OnChain(pp, m, d)
  <2>1. ASSUME NEW lay \in Nat, NEW tau \in Nat, NEW e \in Nat, NEW i \in Nat, NEW n \in 0 .. OtsLength - 1,
               d = OtsValue(pp, m, lay, tau, e, i, n)
        PROVE  d \in A
    <3> DEFINE p == <<lay, tau, e, i, n>>
    <3>1. p[1] = lay /\ p[2] = tau /\ p[3] = e /\ p[4] = i /\ p[5] = n
      OBVIOUS
    <3>2. p \in Nat \X Nat \X Nat \X Nat \X Nat /\ p[5] <= OtsLength - 1
      BY <1>7
    <3> HIDE DEF p
    <3>3. p \in ChainPlaces
      BY <3>2 DEF ChainPlaces
    <3>4. QED
      BY <1>2, <2>1, <3>1, <3>3
  <2>2. ASSUME NEW p \in ChainPlaces, d = OtsValue(pp, m, p[1], p[2], p[3], p[4], p[5])
        PROVE  OnChain(pp, m, d)
    <3>1. p[1] \in Nat /\ p[2] \in Nat /\ p[3] \in Nat /\ p[4] \in Nat /\ p[5] \in 0 .. OtsLength - 1
      BY <1>7 DEF ChainPlaces
    <3>2. QED
      BY <2>2, <3>1 DEF OnChain
  <2>3. QED
    BY <1>2, <2>1, <2>2 DEF OnChain
<1>10. d \in B <=> InTree(pp, m, d)
  <2>1. ASSUME NEW lay \in Layers, NEW tau \in Nat, NEW l \in 0 .. Heights[lay],
               NEW j \in 0 .. 2 ^ (Heights[lay] - l) - 1, d = TreeNode(pp, m, lay, tau, l, j)
        PROVE  d \in B
    <3> DEFINE p == <<lay, tau, l, j>>
               w == 2 ^ (Heights[lay] - l)
    <3>1. p[1] = lay /\ p[2] = tau /\ p[3] = l /\ p[4] = j
      OBVIOUS
    <3>2. l \in Nat /\ l <= Heights[lay] /\ w \in Nat
      BY <1>7, <1>8
    <3>3. j \in Nat /\ j < w
      <4>1. j \in 0 .. w - 1
        OBVIOUS
      <4> HIDE DEF w
      <4>2. QED
        BY <3>2, <4>1
    <3>4. p \in Layers \X Nat \X Nat \X Nat
      BY <3>2, <3>3
    <3> HIDE DEF p
    <3>5. p \in TreePlaces
      BY <3>1, <3>2, <3>3, <3>4 DEF TreePlaces
    <3>6. QED
      BY <1>3, <2>1, <3>1, <3>5
  <2>2. ASSUME NEW p \in TreePlaces, d = TreeNode(pp, m, p[1], p[2], p[3], p[4])
        PROVE  InTree(pp, m, d)
    <3> DEFINE w == 2 ^ (Heights[p[1]] - p[3])
    <3>1. p[1] \in Layers /\ p[2] \in Nat /\ p[3] \in Nat /\ p[4] \in Nat /\ p[3] <= Heights[p[1]] /\ p[4] < w
      BY DEF TreePlaces
    <3>2. w \in Nat /\ p[3] \in 0 .. Heights[p[1]]
      BY <1>7, <1>8, <3>1
    <3>3. p[4] \in 0 .. w - 1
      <4> HIDE DEF w
      <4>1. QED
        BY <3>1, <3>2
    <3>4. QED
      BY <2>2, <3>1, <3>2, <3>3 DEF InTree
  <2>3. QED
    BY <1>3, <2>1, <2>2 DEF InTree
<1>11. d \in C <=> InFts(pp, m, d)
  <2>1. ASSUME NEW kappa \in Nat, NEW idx \in Nat, NEW l \in 0 .. FtsHeight,
               NEW j \in 0 .. 2 ^ (FtsHeight - l) - 1, d = FtsTreeNode(pp, m, kappa, idx, l, j)
        PROVE  d \in C
    <3> DEFINE p == <<kappa, idx, l, j>>
               w == 2 ^ (FtsHeight - l)
    <3>1. p[1] = kappa /\ p[2] = idx /\ p[3] = l /\ p[4] = j
      OBVIOUS
    <3>2. l \in Nat /\ l <= FtsHeight /\ w \in Nat
      BY <1>7, <1>8
    <3>3. j \in Nat /\ j < w
      <4>1. j \in 0 .. w - 1
        OBVIOUS
      <4> HIDE DEF w
      <4>2. QED
        BY <3>2, <4>1
    <3>4. p \in Nat \X Nat \X Nat \X Nat
      BY <3>2, <3>3
    <3> HIDE DEF p
    <3>5. p \in FtsPlaces
      BY <3>1, <3>2, <3>3, <3>4 DEF FtsPlaces
    <3>6. QED
      BY <1>4, <2>1, <3>1, <3>5
  <2>2. ASSUME NEW p \in FtsPlaces, d = FtsTreeNode(pp, m, p[1], p[2], p[3], p[4])
        PROVE  InFts(pp, m, d)
    <3> DEFINE w == 2 ^ (FtsHeight - p[3])
    <3>1. p[1] \in Nat /\ p[2] \in Nat /\ p[3] \in Nat /\ p[4] \in Nat /\ p[3] <= FtsHeight /\ p[4] < w
      BY DEF FtsPlaces
    <3>2. w \in Nat /\ p[3] \in 0 .. FtsHeight
      BY <1>7, <1>8, <3>1
    <3>3. p[4] \in 0 .. w - 1
      <4> HIDE DEF w
      <4>1. QED
        BY <3>1, <3>2
    <3>4. QED
      BY <2>2, <3>1, <3>2, <3>3 DEF InFts
  <2>3. QED
    BY <1>4, <2>1, <2>2 DEF InFts
<1>12. d \in D <=> IsSecret(pp, m, d)
  <2>1. ASSUME NEW kappa \in Nat, NEW idx \in Nat, NEW j \in Nat, d = FtsSecret(pp, m, idx, kappa, j)
        PROVE  d \in D
    <3> DEFINE p == <<kappa, idx, j>>
    <3>1. p[1] = kappa /\ p[2] = idx /\ p[3] = j /\ p \in Nat \X Nat \X Nat
      OBVIOUS
    <3> HIDE DEF p
    <3>2. QED
      BY <1>5, <2>1, <3>1
  <2>2. ASSUME NEW p \in Nat \X Nat \X Nat, d = FtsSecret(pp, m, p[2], p[1], p[3])
        PROVE  IsSecret(pp, m, d)
    <3>1. p[1] \in Nat /\ p[2] \in Nat /\ p[3] \in Nat
      OBVIOUS
    <3>2. QED
      BY <2>2, <3>1 DEF IsSecret
  <2>3. QED
    BY <1>5, <2>1, <2>2 DEF IsSecret
<1>13. QED
  BY <1>6, <1>9, <1>10, <1>11, <1>12

\* The children of a node are in the row below.
LEMMA ChildrenInRow ==
    ASSUME NEW h \in Nat, NEW l \in 1 .. h, NEW j \in 0 .. 2 ^ (h - l) - 1
    PROVE  /\ l - 1 \in 0 .. h /\ j \in Nat
           /\ 2 * j \in 0 .. 2 ^ (h - (l - 1)) - 1 /\ 2 * j + 1 \in 0 .. 2 ^ (h - (l - 1)) - 1
<1> DEFINE n == h - l
           w == 2 ^ n
           v == 2 ^ (n + 1)
<1>1. n \in Nat /\ h - (l - 1) = n + 1
  OBVIOUS
<1> HIDE DEF n
<1>2. v = 2 * w /\ w \in Nat
  BY <1>1, Doubling
<1>3. j \in 0 .. w - 1
  BY DEF n
<1>4. v = 2 ^ (h - (l - 1))
  BY <1>1
<1> HIDE DEF w, v
<1>5. j \in Nat /\ 2 * j \in 0 .. v - 1 /\ 2 * j + 1 \in 0 .. v - 1
  BY <1>2, <1>3
<1>6. QED
  BY <1>4, <1>5

\* The sibling on the way of a leaf is in its row.
LEMMA SiblingInRow ==
    ASSUME NEW h \in Nat, NEW l \in 0 .. h - 1, NEW e \in 0 .. 2 ^ h - 1
    PROVE  Neighbour(Shift(e, l)) \in 0 .. 2 ^ (h - l) - 1
<1> DEFINE n == Shift(e, l + 1)
           m == Shift(e, l)
           q == 2 ^ (h - (l + 1))
<1>1. l \in Nat /\ l + 1 \in Nat \ {0} /\ l + 1 \in 1 .. h /\ l + 1 \in 0 .. h /\ (l + 1) - 1 = l
  OBVIOUS
<1>2. n = m \div 2 /\ n \in Nat /\ m \in Nat
  <2>1. 2 ^ h \in Nat
    BY Halving
  <2>2. e \in Nat
    BY <2>1
  <2>3. Shift(e, l + 1) = Shift(e, (l + 1) - 1) \div 2 /\ Shift(e, l + 1) \in Nat /\ Shift(e, (l + 1) - 1) \in Nat
    BY <1>1, <2>2, Shifted
  <2>4. QED
    BY <1>1, <2>3
<1>3. n \in 0 .. q - 1
  <2> DEFINE w == 2 ^ (l + 1)
             x == 2 ^ h
  <2>1. w \in Nat \ {0} /\ q \in Nat /\ x = q * w /\ x \in Nat
    BY <1>1, PowersDivide, Halving
  <2>2. e \in Nat /\ e < x
    BY <2>1
  <2> HIDE DEF w, q, x
  <2>3. 0 * w <= e
    BY <2>1, <2>2
  <2>4. e \div w < q
    BY <2>1, <2>2, <2>3, Between
  <2>5. n < q
    BY <2>4 DEF Shift, w
  <2> HIDE DEF n
  <2>6. QED
    BY <1>2, <2>1, <2>5
<1>4. 2 * n \in 0 .. 2 ^ (h - l) - 1 /\ 2 * n + 1 \in 0 .. 2 ^ (h - l) - 1
  <2> HIDE DEF n
  <2>1. 2 * n \in 0 .. 2 ^ (h - ((l + 1) - 1)) - 1 /\ 2 * n + 1 \in 0 .. 2 ^ (h - ((l + 1) - 1)) - 1
    BY <1>1, <1>3, ChildrenInRow
  <2>2. QED
    BY <1>1, <2>1
<1> HIDE DEF n, m
<1>5. Neighbour(m) = 2 * n \/ Neighbour(m) = 2 * n + 1
  BY <1>2, Family
<1>6. QED
  BY <1>4, <1>5 DEF m

\* What each is hashed from, under which tweak.
OtsSecretDigest(pp, m, d) ==
    \E lay, tau, e, i \in Nat : d = <<pp, <<"PRF", lay, tau, i, e>>, <<m>>>>
OtsLinkDigest(pp, m, d) ==
    \E lay, tau, e, i \in Nat, n \in 0 .. OtsLength - 2 : OtsLink(pp, m, lay, tau, e, i, n, d)
OtsLeafDigest(pp, m, d) ==
    \E lay \in Layers, tau, e \in Nat :
      d = <<pp, <<"LEAF", lay, tau, 0, e>>, [i \in 1 .. OtsChains |-> OtsValue(pp, m, lay, tau, e, i, OtsLength - 1)]>>
TreeNodeDigest(pp, m, d) ==
    \E lay \in Layers, tau \in Nat : \E l \in 1 .. Heights[lay] : \E j \in 0 .. 2 ^ (Heights[lay] - l) - 1 :
      d = <<pp, <<"NODE", lay, tau, l, j>>,
            <<TreeNode(pp, m, lay, tau, l - 1, 2 * j), TreeNode(pp, m, lay, tau, l - 1, 2 * j + 1)>>>>
FtsSecretDigest(pp, m, d) ==
    \E kappa, idx, j \in Nat : d = <<pp, <<"FTS_PRF", kappa, idx, 0, j>>, <<m>>>>
FtsLeafDigest(pp, m, d) ==
    \E kappa, idx, j \in Nat : d = <<pp, <<"FTS_LEAF", kappa, idx, 0, j>>, <<FtsSecret(pp, m, idx, kappa, j)>>>>
FtsNodeDigest(pp, m, d) ==
    \E kappa, idx \in Nat, l \in 1 .. FtsHeight : \E j \in 0 .. 2 ^ (FtsHeight - l) - 1 :
      d = <<pp, <<"FTS_NODE", kappa, idx, l, j>>,
            <<FtsTreeNode(pp, m, kappa, idx, l - 1, 2 * j), FtsTreeNode(pp, m, kappa, idx, l - 1, 2 * j + 1)>>>>

\* A leaf of a tree is hashed from the ends of the chains.
LEMMA TreeLeafIs ==
    ASSUME NEW pp, NEW m, NEW lay \in Layers, NEW tau, NEW j \in 0 .. 2 ^ Heights[lay] - 1
    PROVE  TreeNode(pp, m, lay, tau, 0, j)
             = <<pp, <<"LEAF", lay, tau, 0, j>>, [i \in 1 .. OtsChains |-> OtsValue(pp, m, lay, tau, j, i, OtsLength - 1)]>>
<1> DEFINE full == WholeTree(pp, m, lay, tau)
           pos == Pos(lay, tau, j)
<1>1. Heights[lay] \in Nat
  BY SplitInside
<1>2. IsWhole(full, pp, m, lay, tau, Heights[lay])
  BY <1>1, NodesOfWhole
<1> HIDE DEF full
<1>3. full[0][j + 1] = OtsPublicLeaf(pp, m, pos)
  <2>1. EndsWell(full, pp, m, lay, tau, j, Heights[lay])
    BY <1>1, <1>2, WholeEnds
  <2>2. QED
    BY <2>1 DEF EndsWell
<1>4. OtsPublicLeaf(pp, m, pos)
        = Th(pp, SphincsTweak("LEAF", pos.lay, pos.tau, 0, pos.e),
             [i \in 1 .. OtsChains |-> OtsValue(pp, m, lay, tau, j, i, OtsLength - 1)])
  BY DEF OtsPublicLeaf, OtsLeafHash, OtsValue
<1>5. pos.lay = lay /\ pos.tau = tau /\ pos.e = j
  BY DEF Pos
<1>6. QED
  BY <1>3, <1>4, <1>5 DEF TreeNode, full, Th, TweakHashOf, SphincsTweak

\* A node above is hashed from its children.
LEMMA TreeNodeIs ==
    ASSUME NEW pp, NEW m, NEW lay \in Layers, NEW tau, NEW l \in 1 .. Heights[lay],
           NEW j \in 0 .. 2 ^ (Heights[lay] - l) - 1
    PROVE  TreeNode(pp, m, lay, tau, l, j)
             = <<pp, <<"NODE", lay, tau, l, j>>,
                 <<TreeNode(pp, m, lay, tau, l - 1, 2 * j), TreeNode(pp, m, lay, tau, l - 1, 2 * j + 1)>>>>
<1> DEFINE full == WholeTree(pp, m, lay, tau)
           w == 2 ^ (Heights[lay] - l)
<1>1. Heights[lay] \in Nat
  BY SplitInside
<1>2. IsWhole(full, pp, m, lay, tau, Heights[lay])
  BY <1>1, NodesOfWhole
<1>3. full[l] = [i \in 1 .. w |-> Node(pp, lay, tau, l, i - 1, full[l - 1][2 * i - 1], full[l - 1][2 * i])]
  <2> HIDE DEF full
  <2>1. QED
    BY <1>2 DEF IsWhole
<1>4. j + 1 \in 1 .. w /\ (j + 1) - 1 = j /\ 2 * (j + 1) - 1 = 2 * j + 1 /\ 2 * (j + 1) = (2 * j + 1) + 1
  <2>1. w \in Nat
    <3> DEFINE n == Heights[lay] - l
    <3>1. n \in Nat
      BY <1>1
    <3> HIDE DEF n
    <3>2. 2 ^ n \in Nat
      BY <3>1, Halving
    <3>3. QED
      BY <3>2 DEF n
  <2>2. j \in 0 .. w - 1
    OBVIOUS
  <2> HIDE DEF w
  <2>3. QED
    BY <2>1, <2>2
<1> HIDE DEF full, w
<1>5. full[l][j + 1] = Node(pp, lay, tau, l, j, full[l - 1][2 * j + 1], full[l - 1][(2 * j + 1) + 1])
  <2>1. full[l][j + 1] = Node(pp, lay, tau, l, (j + 1) - 1, full[l - 1][2 * (j + 1) - 1], full[l - 1][2 * (j + 1)])
    BY <1>3, <1>4
  <2>2. QED
    BY <1>4, <2>1
<1>6. QED
  BY <1>5, Zenon DEF TreeNode, full, Node, NodeTweak, Th, TweakHashOf, SphincsTweak

\* So it is in a few-time tree.
LEMMA FtsTreeNodeIs ==
    ASSUME NEW pp, NEW m, NEW kappa, NEW idx, NEW l \in 0 .. FtsHeight, NEW j \in 0 .. 2 ^ (FtsHeight - l) - 1
    PROVE  FtsTreeNode(pp, m, kappa, idx, l, j)
             = IF l = 0 THEN <<pp, <<"FTS_LEAF", kappa, idx, 0, j>>, <<FtsSecret(pp, m, idx, kappa, j)>>>>
               ELSE <<pp, <<"FTS_NODE", kappa, idx, l, j>>,
                      <<FtsTreeNode(pp, m, kappa, idx, l - 1, 2 * j), FtsTreeNode(pp, m, kappa, idx, l - 1, 2 * j + 1)>>>>
<1> DEFINE at == FtsTree(pp, m, idx, kappa)
<1>1. IsFts(at, pp, m, idx, kappa)
  BY FtsTreeIs
<1> HIDE DEF at
<1>2. CASE l = 0
  <2>1. FtsHeight - l = FtsHeight
    BY SphincsAssumption, <1>2
  <2>2. j \in 0 .. 2 ^ FtsHeight - 1
    BY <2>1
  <2>3. at[0][j] = FtsLeaf(pp, idx, kappa, j, FtsSecret(pp, m, idx, kappa, j))
    BY <1>1, <2>2 DEF IsFts
  <2>4. QED
    BY <1>2, <2>3, Zenon DEF FtsTreeNode, at, FtsLeaf, Th, TweakHashOf, SphincsTweak
<1>3. CASE l # 0
  <2>1. l \in 1 .. FtsHeight
    BY <1>3
  <2>2. at[l][j] = FtsNode(pp, idx, kappa, l, j, at[l - 1][2 * j], at[l - 1][2 * j + 1])
    BY <1>1, <2>1 DEF IsFts
  <2>3. QED
    BY <1>3, <2>2, Zenon DEF FtsTreeNode, at, FtsNode, FtsNodeTweak, Th, TweakHashOf, SphincsTweak
<1>4. QED
  BY <1>2, <1>3

\* What the digests look like.
LEMMA SphincsShape ==
    ASSUME NEW pp, NEW m, NEW d \in SphincsDigests(pp, m)
    PROVE  \/ OtsSecretDigest(pp, m, d) \/ OtsLinkDigest(pp, m, d) \/ OtsLeafDigest(pp, m, d)
           \/ TreeNodeDigest(pp, m, d)
           \/ FtsSecretDigest(pp, m, d) \/ FtsLeafDigest(pp, m, d) \/ FtsNodeDigest(pp, m, d)
<1>1. CASE OnChain(pp, m, d)
  <2>1. PICK lay \in Nat, tau \in Nat, e \in Nat, i \in Nat, n \in 0 .. OtsLength - 1 :
          d = OtsValue(pp, m, lay, tau, e, i, n)
    BY <1>1 DEF OnChain
  <2>2. CASE n = 0
    <3>1. d = <<pp, <<"PRF", lay, tau, i, e>>, <<m>>>>
      BY <2>1, <2>2, OtsChainIs DEF IsOtsChain
    <3>2. QED
      BY <2>1, <3>1 DEF OtsSecretDigest
  <2>3. CASE n # 0
    <3> DEFINE k == n - 1
    <3>1. k \in Nat /\ k \in 0 .. OtsLength - 2 /\ k + 1 = n
      BY SphincsAssumption, <2>3
    <3> HIDE DEF k
    <3>2. OtsLink(pp, m, lay, tau, e, i, k, OtsValue(pp, m, lay, tau, e, i, k + 1))
      BY <2>1, <3>1, OtsChainIs DEF IsOtsChain
    <3>3. QED
      BY <2>1, <3>1, <3>2 DEF OtsLinkDigest
  <2>4. QED
    BY <2>2, <2>3
<1>2. CASE InTree(pp, m, d)
  <2>1. PICK lay \in Layers, tau \in Nat : \E l \in 0 .. Heights[lay] : \E j \in 0 .. 2 ^ (Heights[lay] - l) - 1 :
          d = TreeNode(pp, m, lay, tau, l, j)
    BY <1>2 DEF InTree
  <2>2. PICK l \in 0 .. Heights[lay] : \E j \in 0 .. 2 ^ (Heights[lay] - l) - 1 : d = TreeNode(pp, m, lay, tau, l, j)
    BY <2>1
  <2>3. PICK j \in 0 .. 2 ^ (Heights[lay] - l) - 1 : d = TreeNode(pp, m, lay, tau, l, j)
    BY <2>2
  <2>4. Heights[lay] \in Nat
    BY SplitInside
  <2>5. CASE l = 0
    <3>1. Heights[lay] - l = Heights[lay] /\ 2 ^ Heights[lay] \in Nat
      <4> DEFINE h == Heights[lay]
      <4> HIDE DEF h
      <4>1. h \in Nat
        BY <2>4 DEF h
      <4>2. h - l = h /\ 2 ^ h \in Nat
        BY <2>5, <4>1, Halving
      <4>3. QED
        BY <4>2 DEF h
    <3>2. j \in 0 .. 2 ^ Heights[lay] - 1 /\ j \in Nat
      BY <3>1
    <3>3. d = <<pp, <<"LEAF", lay, tau, 0, j>>, [i \in 1 .. OtsChains |-> OtsValue(pp, m, lay, tau, j, i, OtsLength - 1)]>>
      BY <2>3, <2>5, <3>2, TreeLeafIs
    <3>4. QED
      BY <3>2, <3>3 DEF OtsLeafDigest
  <2>6. CASE l # 0
    <3>1. l \in 1 .. Heights[lay]
      BY <2>4, <2>6
    <3>2. d = <<pp, <<"NODE", lay, tau, l, j>>,
                <<TreeNode(pp, m, lay, tau, l - 1, 2 * j), TreeNode(pp, m, lay, tau, l - 1, 2 * j + 1)>>>>
      BY <2>3, <3>1, TreeNodeIs
    <3>3. QED
      BY <3>1, <3>2 DEF TreeNodeDigest
  <2>7. QED
    BY <2>5, <2>6
<1>3. CASE InFts(pp, m, d)
  <2>1. PICK kappa \in Nat, idx \in Nat, l \in 0 .. FtsHeight : \E j \in 0 .. 2 ^ (FtsHeight - l) - 1 :
          d = FtsTreeNode(pp, m, kappa, idx, l, j)
    BY <1>3 DEF InFts
  <2>2. PICK j \in 0 .. 2 ^ (FtsHeight - l) - 1 : d = FtsTreeNode(pp, m, kappa, idx, l, j)
    BY <2>1
  <2>3. FtsHeight \in Nat
    BY SphincsAssumption
  <2>4. CASE l = 0
    <3>1. FtsHeight - l = FtsHeight /\ 2 ^ FtsHeight \in Nat
      BY <2>3, <2>4, Halving
    <3>2. j \in Nat
      BY <3>1
    <3>3. d = <<pp, <<"FTS_LEAF", kappa, idx, 0, j>>, <<FtsSecret(pp, m, idx, kappa, j)>>>>
      BY <2>2, <2>4, FtsTreeNodeIs
    <3>4. QED
      BY <3>2, <3>3 DEF FtsLeafDigest
  <2>5. CASE l # 0
    <3>1. l \in 1 .. FtsHeight
      BY <2>3, <2>5
    <3>2. d = <<pp, <<"FTS_NODE", kappa, idx, l, j>>,
                <<FtsTreeNode(pp, m, kappa, idx, l - 1, 2 * j), FtsTreeNode(pp, m, kappa, idx, l - 1, 2 * j + 1)>>>>
      BY <2>2, <2>5, FtsTreeNodeIs
    <3>3. QED
      BY <3>1, <3>2 DEF FtsNodeDigest
  <2>6. QED
    BY <2>4, <2>5
<1>4. CASE IsSecret(pp, m, d)
  BY <1>4, Zenon DEF IsSecret, FtsSecretDigest, FtsSecret, Th, TweakHashOf, SphincsTweak
<1>5. QED
  BY <1>1, <1>2, <1>3, <1>4, SphincsDigestsAre

\* One digest is hashed from one input.
LEMMA OneElement ==
    ASSUME NEW C, NEW x, NEW y, x = <<y>>, y \in C \/ Len(y) = 1
    PROVE  (\E n \in Nat : DOMAIN x = 1 .. n) /\ \A i \in DOMAIN x : x[i] \in C \/ Len(x[i]) = 1
<1>1. DOMAIN x = 1 .. 1 /\ 1 \in Nat /\ x[1] = y
  OBVIOUS
<1>2. \A i \in DOMAIN x : i = 1
  BY <1>1
<1>3. QED
  BY <1>1, <1>2

\* A node is hashed from two.
LEMMA TwoElements ==
    ASSUME NEW C, NEW x, NEW y \in C, NEW z \in C, x = <<y, z>>
    PROVE  (\E n \in Nat : DOMAIN x = 1 .. n) /\ \A i \in DOMAIN x : x[i] \in C \/ Len(x[i]) = 1
<1>1. DOMAIN x = 1 .. 2 /\ 2 \in Nat /\ x[1] = y /\ x[2] = z
  OBVIOUS
<1>2. \A i \in DOMAIN x : i = 1 \/ i = 2
  BY <1>1
<1>3. QED
  BY <1>1, <1>2

\* What they are computed from is of them, or no digest.
LEMMA SphincsClosed ==
    ASSUME NEW pp, NEW m, Len(m) = 1
    PROVE  ClosedUnderInputs(SphincsDigests(pp, m)) /\ HasInputs(SphincsDigests(pp, m))
<1> DEFINE C == SphincsDigests(pp, m)
<1>1. \A x : OnChain(pp, m, x) \/ InTree(pp, m, x) \/ InFts(pp, m, x) \/ IsSecret(pp, m, x) => x \in C
  BY SphincsDigestsAre
<1>2. OtsLength \in Nat \ {0} /\ FtsHeight \in Nat /\ OtsChains \in Nat /\ \A lay \in Layers : Heights[lay] \in Nat
  BY SphincsAssumption, SplitInside
<1>3. ASSUME NEW d \in C
      PROVE  (\E n \in Nat : DOMAIN d[3] = 1 .. n) /\ \A i \in DOMAIN d[3] : d[3][i] \in C \/ Len(d[3][i]) = 1
  <2>0. \/ OtsSecretDigest(pp, m, d) \/ OtsLinkDigest(pp, m, d) \/ OtsLeafDigest(pp, m, d)
        \/ TreeNodeDigest(pp, m, d)
        \/ FtsSecretDigest(pp, m, d) \/ FtsLeafDigest(pp, m, d) \/ FtsNodeDigest(pp, m, d)
    BY SphincsShape
  <2> HIDE DEF C
  <2>1. CASE OtsSecretDigest(pp, m, d) \/ FtsSecretDigest(pp, m, d)
    <3>1. d[3] = <<m>>
      BY <2>1 DEF OtsSecretDigest, FtsSecretDigest
    <3>2. QED
      BY <3>1, OneElement
  <2>2. CASE OtsLinkDigest(pp, m, d)
    <3>1. PICK lay \in Nat, tau \in Nat, e \in Nat, i \in Nat, n \in 0 .. OtsLength - 2 : OtsLink(pp, m, lay, tau, e, i, n, d)
      BY <2>2 DEF OtsLinkDigest
    <3> DEFINE v == OtsValue(pp, m, lay, tau, e, i, n)
    <3>2. n \in 0 .. OtsLength - 1
      BY <1>2, <3>1
    <3>3. OnChain(pp, m, v)
      BY <3>1, <3>2 DEF OnChain
    <3>4. d[3] = <<v>>
      BY <3>1 DEF OtsLink
    <3> HIDE DEF v
    <3>5. QED
      BY <1>1, <3>3, <3>4, OneElement
  <2>3. CASE OtsLeafDigest(pp, m, d)
    <3>1. PICK lay \in Layers, tau \in Nat, e \in Nat :
            d = <<pp, <<"LEAF", lay, tau, 0, e>>, [i \in 1 .. OtsChains |-> OtsValue(pp, m, lay, tau, e, i, OtsLength - 1)]>>
      BY <2>3 DEF OtsLeafDigest
    <3>2. d[3] = [i \in 1 .. OtsChains |-> OtsValue(pp, m, lay, tau, e, i, OtsLength - 1)]
      BY <3>1
    <3>3. ASSUME NEW i \in 1 .. OtsChains
          PROVE  OtsValue(pp, m, lay, tau, e, i, OtsLength - 1) \in C
      <4>1. lay \in Nat /\ tau \in Nat /\ e \in Nat /\ i \in Nat /\ OtsLength - 1 \in 0 .. OtsLength - 1
        BY <1>2, <3>1, SplitInside DEF Layers
      <4> DEFINE v == OtsValue(pp, m, lay, tau, e, i, OtsLength - 1)
      <4>2. OnChain(pp, m, v)
        BY <4>1 DEF OnChain
      <4>3. QED
        BY <1>1, <4>2
    <3>4. DOMAIN d[3] = 1 .. OtsChains /\ \A i \in 1 .. OtsChains : d[3][i] \in C
      BY <3>2, <3>3
    <3>5. QED
      BY <1>2, <3>4
  <2>4. CASE TreeNodeDigest(pp, m, d)
    <3>1. PICK lay \in Layers, tau \in Nat : \E l \in 1 .. Heights[lay] : \E j \in 0 .. 2 ^ (Heights[lay] - l) - 1 :
            d = <<pp, <<"NODE", lay, tau, l, j>>,
                  <<TreeNode(pp, m, lay, tau, l - 1, 2 * j), TreeNode(pp, m, lay, tau, l - 1, 2 * j + 1)>>>>
      BY <2>4 DEF TreeNodeDigest
    <3>2. PICK l \in 1 .. Heights[lay] : \E j \in 0 .. 2 ^ (Heights[lay] - l) - 1 :
            d = <<pp, <<"NODE", lay, tau, l, j>>,
                  <<TreeNode(pp, m, lay, tau, l - 1, 2 * j), TreeNode(pp, m, lay, tau, l - 1, 2 * j + 1)>>>>
      BY <3>1
    <3>3. PICK j \in 0 .. 2 ^ (Heights[lay] - l) - 1 :
            d = <<pp, <<"NODE", lay, tau, l, j>>,
                  <<TreeNode(pp, m, lay, tau, l - 1, 2 * j), TreeNode(pp, m, lay, tau, l - 1, 2 * j + 1)>>>>
      BY <3>2
    <3> DEFINE h == Heights[lay]
               x == TreeNode(pp, m, lay, tau, l - 1, 2 * j)
               y == TreeNode(pp, m, lay, tau, l - 1, 2 * j + 1)
    <3>4. /\ l - 1 \in 0 .. h
          /\ 2 * j \in 0 .. 2 ^ (h - (l - 1)) - 1 /\ 2 * j + 1 \in 0 .. 2 ^ (h - (l - 1)) - 1
      <4>1. h \in Nat /\ l \in 1 .. h /\ j \in 0 .. 2 ^ (h - l) - 1
        BY <1>2, <3>1, <3>2, <3>3
      <4> HIDE DEF h
      <4>2. QED
        BY <4>1, ChildrenInRow
    <3>5. InTree(pp, m, x) /\ InTree(pp, m, y)
      BY <3>1, <3>4 DEF InTree
    <3>6. d[3] = <<x, y>>
      BY <3>3
    <3> HIDE DEF x, y, h
    <3>7. x \in C /\ y \in C
      BY <1>1, <3>5
    <3>8. QED
      BY <3>6, <3>7, TwoElements
  <2>5. CASE FtsLeafDigest(pp, m, d)
    <3>1. PICK kappa \in Nat, idx \in Nat, j \in Nat :
            d = <<pp, <<"FTS_LEAF", kappa, idx, 0, j>>, <<FtsSecret(pp, m, idx, kappa, j)>>>>
      BY <2>5 DEF FtsLeafDigest
    <3> DEFINE v == FtsSecret(pp, m, idx, kappa, j)
    <3>2. IsSecret(pp, m, v)
      BY <3>1 DEF IsSecret
    <3>3. d[3] = <<v>>
      BY <3>1
    <3> HIDE DEF v
    <3>4. QED
      BY <1>1, <3>2, <3>3, OneElement
  <2>6. CASE FtsNodeDigest(pp, m, d)
    <3>1. PICK kappa \in Nat, idx \in Nat, l \in 1 .. FtsHeight : \E j \in 0 .. 2 ^ (FtsHeight - l) - 1 :
            d = <<pp, <<"FTS_NODE", kappa, idx, l, j>>,
                  <<FtsTreeNode(pp, m, kappa, idx, l - 1, 2 * j), FtsTreeNode(pp, m, kappa, idx, l - 1, 2 * j + 1)>>>>
      BY <2>6 DEF FtsNodeDigest
    <3>2. PICK j \in 0 .. 2 ^ (FtsHeight - l) - 1 :
            d = <<pp, <<"FTS_NODE", kappa, idx, l, j>>,
                  <<FtsTreeNode(pp, m, kappa, idx, l - 1, 2 * j), FtsTreeNode(pp, m, kappa, idx, l - 1, 2 * j + 1)>>>>
      BY <3>1
    <3> DEFINE x == FtsTreeNode(pp, m, kappa, idx, l - 1, 2 * j)
               y == FtsTreeNode(pp, m, kappa, idx, l - 1, 2 * j + 1)
    <3>3. /\ l - 1 \in 0 .. FtsHeight
          /\ 2 * j \in 0 .. 2 ^ (FtsHeight - (l - 1)) - 1 /\ 2 * j + 1 \in 0 .. 2 ^ (FtsHeight - (l - 1)) - 1
      BY <1>2, <3>1, <3>2, ChildrenInRow
    <3>4. InFts(pp, m, x) /\ InFts(pp, m, y)
      BY <3>1, <3>3 DEF InFts
    <3>5. d[3] = <<x, y>>
      BY <3>2
    <3> HIDE DEF x, y
    <3>6. x \in C /\ y \in C
      BY <1>1, <3>4
    <3>7. QED
      BY <3>5, <3>6, TwoElements
  <2>7. QED
    BY <2>0, <2>1, <2>2, <2>3, <2>4, <2>5, <2>6
<1> HIDE DEF C
<1>4. QED
  BY <1>3 DEF ClosedUnderInputs, HasInputs, C

\* Tweaks are the same if their parts are.
LEMMA SameTweak ==
    ASSUME NEW a, NEW b, NEW c, NEW d, NEW e, NEW p, NEW q, NEW r, NEW s, NEW t,
           <<a, b, c, d, e>> = <<p, q, r, s, t>>
    PROVE  b = q /\ c = r /\ d = s /\ e = t
OBVIOUS

\* No two of the digests have one tweak.
LEMMA SphincsOneEach ==
    ASSUME NEW pp, NEW m
    PROVE  OneEach(SphincsDigests(pp, m))
<1> SUFFICES ASSUME NEW d \in SphincsDigests(pp, m), NEW f \in SphincsDigests(pp, m), d[2] = f[2]
             PROVE  d = f
  BY DEF OneEach
<1>1. ASSUME NEW x \in SphincsDigests(pp, m)
      PROVE  /\ x[2][1] \in {"PRF", "CHAIN", "LEAF", "NODE", "FTS_PRF", "FTS_LEAF", "FTS_NODE"}
             /\ x[2][1] = "PRF" => OtsSecretDigest(pp, m, x)
             /\ x[2][1] = "CHAIN" => OtsLinkDigest(pp, m, x)
             /\ x[2][1] = "LEAF" => OtsLeafDigest(pp, m, x)
             /\ x[2][1] = "NODE" => TreeNodeDigest(pp, m, x)
             /\ x[2][1] = "FTS_PRF" => FtsSecretDigest(pp, m, x)
             /\ x[2][1] = "FTS_LEAF" => FtsLeafDigest(pp, m, x)
             /\ x[2][1] = "FTS_NODE" => FtsNodeDigest(pp, m, x)
  <2>1. OtsSecretDigest(pp, m, x) => x[2][1] = "PRF"
    BY DEF OtsSecretDigest
  <2>2. OtsLinkDigest(pp, m, x) => x[2][1] = "CHAIN"
    BY DEF OtsLinkDigest, OtsLink
  <2>3. OtsLeafDigest(pp, m, x) => x[2][1] = "LEAF"
    BY DEF OtsLeafDigest
  <2>4. TreeNodeDigest(pp, m, x) => x[2][1] = "NODE"
    BY DEF TreeNodeDigest
  <2>5. FtsSecretDigest(pp, m, x) => x[2][1] = "FTS_PRF"
    BY DEF FtsSecretDigest
  <2>6. FtsLeafDigest(pp, m, x) => x[2][1] = "FTS_LEAF"
    BY DEF FtsLeafDigest
  <2>7. FtsNodeDigest(pp, m, x) => x[2][1] = "FTS_NODE"
    BY DEF FtsNodeDigest
  <2>8. QED
    BY <2>1, <2>2, <2>3, <2>4, <2>5, <2>6, <2>7, SphincsShape
<1>2. d[2][1] = f[2][1]
  OBVIOUS
<1>3. CASE d[2][1] = "PRF"
  <2>1. OtsSecretDigest(pp, m, d) /\ OtsSecretDigest(pp, m, f)
    BY <1>1, <1>2, <1>3
  <2>2. QED
    BY <2>1 DEF OtsSecretDigest
<1>4. CASE d[2][1] = "CHAIN"
  <2>1. OtsLinkDigest(pp, m, d) /\ OtsLinkDigest(pp, m, f)
    BY <1>1, <1>2, <1>4
  <2>2. PICK lay \in Nat, tau \in Nat, e \in Nat, i \in Nat, n \in 0 .. OtsLength - 2 : OtsLink(pp, m, lay, tau, e, i, n, d)
    BY <2>1 DEF OtsLinkDigest
  <2>3. PICK low \in Nat, mu \in Nat, g \in Nat, j \in Nat, k \in 0 .. OtsLength - 2 : OtsLink(pp, m, low, mu, g, j, k, f)
    BY <2>1 DEF OtsLinkDigest
  <2>4. lay = low /\ tau = mu /\ i * OtsLength + n = j * OtsLength + k /\ e = g
    <3>1. <<"CHAIN", lay, tau, i * OtsLength + n, e>> = <<"CHAIN", low, mu, j * OtsLength + k, g>>
      BY <2>2, <2>3 DEF OtsLink
    <3>2. QED
      BY <3>1, SameTweak, Zenon
  <2>5. i = j /\ n = k
    <3>1. /\ OtsLength \in Nat \ {0} /\ i \in Nat /\ j \in Nat
          /\ n \in 0 .. OtsLength - 1 /\ k \in 0 .. OtsLength - 1
      BY <2>2, <2>3, SphincsAssumption
    <3>2. QED
      BY <2>4, <3>1, OneQuotient
  <2>6. QED
    BY <2>2, <2>3, <2>4, <2>5 DEF OtsLink
<1>5. CASE d[2][1] = "LEAF"
  <2>1. OtsLeafDigest(pp, m, d) /\ OtsLeafDigest(pp, m, f)
    BY <1>1, <1>2, <1>5
  <2>2. QED
    BY <2>1 DEF OtsLeafDigest
<1>6. CASE d[2][1] = "NODE"
  <2>1. TreeNodeDigest(pp, m, d) /\ TreeNodeDigest(pp, m, f)
    BY <1>1, <1>2, <1>6
  <2>2. PICK lay, tau, l, j :
          d = <<pp, <<"NODE", lay, tau, l, j>>,
                <<TreeNode(pp, m, lay, tau, l - 1, 2 * j), TreeNode(pp, m, lay, tau, l - 1, 2 * j + 1)>>>>
    BY <2>1, Zenon DEF TreeNodeDigest
  <2>3. PICK low, mu, k, i :
          f = <<pp, <<"NODE", low, mu, k, i>>,
                <<TreeNode(pp, m, low, mu, k - 1, 2 * i), TreeNode(pp, m, low, mu, k - 1, 2 * i + 1)>>>>
    BY <2>1, Zenon DEF TreeNodeDigest
  <2>4. lay = low /\ tau = mu /\ l = k /\ j = i
    <3>1. <<"NODE", lay, tau, l, j>> = <<"NODE", low, mu, k, i>>
      BY <2>2, <2>3
    <3>2. QED
      BY <3>1, SameTweak, Zenon
  <2>5. QED
    BY <2>2, <2>3, <2>4
<1>7. CASE d[2][1] = "FTS_PRF"
  <2>1. FtsSecretDigest(pp, m, d) /\ FtsSecretDigest(pp, m, f)
    BY <1>1, <1>2, <1>7
  <2>2. QED
    BY <2>1 DEF FtsSecretDigest
<1>8. CASE d[2][1] = "FTS_LEAF"
  <2>1. FtsLeafDigest(pp, m, d) /\ FtsLeafDigest(pp, m, f)
    BY <1>1, <1>2, <1>8
  <2>2. QED
    BY <2>1 DEF FtsLeafDigest
<1>9. CASE d[2][1] = "FTS_NODE"
  <2>1. FtsNodeDigest(pp, m, d) /\ FtsNodeDigest(pp, m, f)
    BY <1>1, <1>2, <1>9
  <2>2. PICK kappa, idx, l, j :
          d = <<pp, <<"FTS_NODE", kappa, idx, l, j>>,
                <<FtsTreeNode(pp, m, kappa, idx, l - 1, 2 * j), FtsTreeNode(pp, m, kappa, idx, l - 1, 2 * j + 1)>>>>
    BY <2>1, Zenon DEF FtsNodeDigest
  <2>3. PICK lambda, idy, k, i :
          f = <<pp, <<"FTS_NODE", lambda, idy, k, i>>,
                <<FtsTreeNode(pp, m, lambda, idy, k - 1, 2 * i), FtsTreeNode(pp, m, lambda, idy, k - 1, 2 * i + 1)>>>>
    BY <2>1, Zenon DEF FtsNodeDigest
  <2>4. kappa = lambda /\ idx = idy /\ l = k /\ j = i
    <3>1. <<"FTS_NODE", kappa, idx, l, j>> = <<"FTS_NODE", lambda, idy, k, i>>
      BY <2>2, <2>3
    <3>2. QED
      BY <3>1, SameTweak, Zenon
  <2>5. QED
    BY <2>2, <2>3, <2>4
<1>10. QED
  BY <1>1, <1>3, <1>4, <1>5, <1>6, <1>7, <1>8, <1>9

\* What of a signature is of a layer, and what of a few-time tree.
LayerDigests(s, lay) == ToSet(s.paths[lay]) \cup ToSet(s.ots[lay].tips)
FtsDigests(s, k) == ToSet(s.fts[k].path) \cup {s.fts[k].secret}
DigestsOf(s) ==
    (UNION {LayerDigests(s, lay) : lay \in Layers}) \cup (UNION {FtsDigests(s, k) : k \in 1 .. FtsTrees})

\* They are digests of the key, and not many.
FewOf(pp, m, S) == IsFiniteSet(S) /\ S \in SUBSET SphincsDigests(pp, m)

\* So is what a layer signs.
LEMMA LayerFits ==
    ASSUME SecretOk(sk), OtsDigitsFit, NEW idx \in 0 .. 2 ^ Suffix(1) - 1, NEW lay \in Layers, NEW below,
           NEW r, r = SignLayer(idx, lay, below), r.ok = TRUE,
           NEW s, s.ots[lay] = r.ots, s.paths[lay] = r.path
    PROVE  FewOf(sk.param, sk.master, LayerDigests(s, lay))
<1> DEFINE pp == sk.param
           m == sk.master
           C == SphincsDigests(pp, m)
           pos == PosOf(idx, lay)
           tau == TreeOf(idx, lay)
           e == LeafOf(idx, lay)
           h == Heights[lay]
           ots == OtsSign(sk.param, sk.master, pos, below.message)
           tree == IF lay = 1 THEN CachedPathAndRoot(pos.e) ELSE TreePathAndRoot(lay, pos.tau, pos.e)
           full == WholeTree(sk.param, sk.master, lay, tau)
<1>1. r.ots = ots /\ ots.counter # -1 /\ r.path = tree.path
  <2>1. r = IF ~below.ok \/ ots.counter = -1 THEN [ok |-> FALSE]
            ELSE [ok |-> TRUE, ots |-> ots, path |-> tree.path, message |-> tree.root]
    BY Zenon DEF SignLayer
  <2> HIDE DEF ots, tree
  <2>2. ~(~below.ok \/ ots.counter = -1)
    <3>1. [ok |-> FALSE].ok # TRUE
      OBVIOUS
    <3>2. QED
      BY <2>1, <3>1, Zenon
  <2>3. r = [ok |-> TRUE, ots |-> ots, path |-> tree.path, message |-> tree.root]
    BY <2>1, <2>2, Zenon
  <2>4. QED
    BY <2>2, <2>3
<1>2. e \in 0 .. 2 ^ h - 1 /\ h \in Nat /\ (lay = 1 => tau = 0) /\ e \in Nat /\ tau \in Nat
  <2>1. h \in Nat
    BY SplitInside
  <2>2. 2 ^ h \in Nat
    BY <2>1, Halving
  <2>3. e \in 0 .. 2 ^ h - 1 /\ (lay = 1 => tau = 0)
    BY PlaceIs
  <2>4. tau \in Nat
    <3>1. lay \in 1 .. Len(Heights) + 1 /\ 1 \in 1 .. Len(Heights) + 1
      BY SplitInside DEF Layers
    <3>2. Suffix(lay) \in Nat /\ Suffix(1) \in Nat
      BY <3>1, SuffixIs
    <3>3. 2 ^ Suffix(1) \in Nat
      BY <3>2, Halving
    <3>4. idx \in Nat
      BY <3>3
    <3>5. idx \div 2 ^ Suffix(lay) \in Nat
      BY <3>2, <3>4, Halving
    <3>6. QED
      BY <3>5 DEF TreeOf
  <2> HIDE DEF e
  <2>5. e \in Nat
    BY <2>2, <2>3
  <2>6. QED
    BY <2>1, <2>3, <2>4, <2>5
<1>3. pos = Pos(lay, tau, e) /\ pos.tau = tau /\ pos.e = e
  BY DEF PosOf, Pos
<1> HIDE DEF e, tau
<1>4. tree.path = PathIn(full, e, h)
  <2>1. CASE lay = 1
    <3>1. full = WholeTree(sk.param, sk.master, 1, 0) /\ e \in 0 .. 2 ^ Heights[1] - 1
      BY <1>2, <2>1
    <3> HIDE DEF full
    <3>2. CachedPathAndRoot(e) = [path |-> PathIn(full, e, Heights[1]), root |-> full[Heights[1]][1]]
      BY <3>1, CachedIs
    <3>3. QED
      BY <1>3, <2>1, <3>2
  <2>2. CASE lay # 1
    <3> HIDE DEF full
    <3>1. full = WholeTree(sk.param, sk.master, lay, tau) /\ Heights[lay] \in Nat
      BY <1>2 DEF full
    <3>2. TreePathAndRoot(lay, tau, e) = [path |-> PathIn(full, e, Heights[lay]), root |-> full[Heights[lay]][1]]
      BY <1>2, <3>1, TreeIs
    <3>3. QED
      BY <1>3, <2>2, <3>2
  <2>3. QED
    BY <2>1, <2>2
<1>5. \A x : OnChain(pp, m, x) \/ InTree(pp, m, x) => x \in C
  BY SphincsDigestsAre
<1>6. lay \in Nat /\ OtsChains \in Nat
  BY SphincsAssumption, SplitInside DEF Layers
<1> DEFINE path == s.paths[lay]
           tips == s.ots[lay].tips
<1>7. DOMAIN path = 1 .. h /\ \A l \in 1 .. h : path[l] \in C
  <2>1. path = PathIn(full, e, h)
    BY <1>1, <1>4
  <2>2. ASSUME NEW l \in 1 .. h
        PROVE  path[l] \in C
    <3> DEFINE k == l - 1
               j == Neighbour(Shift(e, k))
    <3>1. k \in 0 .. h - 1 /\ k \in 0 .. h
      BY <1>2
    <3>2. j \in 0 .. 2 ^ (h - k) - 1
      <4> HIDE DEF k, h
      <4>1. QED
        BY <1>2, <3>1, SiblingInRow
    <3>3. path[l] = TreeNode(pp, m, lay, tau, k, j)
      BY <2>1 DEF PathIn, TreeNode
    <3> HIDE DEF j, k
    <3>4. InTree(pp, m, TreeNode(pp, m, lay, tau, k, j))
      BY <1>2, <3>1, <3>2 DEF InTree
    <3> HIDE DEF path, C, pp, m
    <3>5. QED
      BY <1>5, <3>3, <3>4
  <2>3. DOMAIN path = 1 .. h
    BY <2>1 DEF PathIn
  <2>4. QED
    BY <2>2, <2>3
<1>8. DOMAIN tips = 1 .. OtsChains /\ \A i \in 1 .. OtsChains : tips[i] \in C
  <2> DEFINE Good == {k \in 0 .. MaxEncodingAttempts - 1 : Encode(pp, pos, below.message, k) # << >>}
             c == FirstOf(Good)
             x == Encode(pp, pos, below.message, c)
             d == OtsDigitsOf(Th(pp, SphincsTweak("ENC", pos.lay, pos.tau, 0, pos.e), <<below.message, <<c>>>>))
             O == [counter |-> c,
                   tips |-> [i \in 1 .. OtsChains |-> Chain(pp, pos, i, 0, x[i], OtsSecret(pp, m, pos, i))]]
  <2>1. ots = IF c = -1 THEN [counter |-> -1] ELSE O
    BY Zenon DEF OtsSign
  <2>2. tips = ots.tips
    BY <1>1
  <2> HIDE DEF ots
  <2>3. c # -1
    BY <1>1, <2>1
  <2>4. tips = [i \in 1 .. OtsChains |-> Chain(pp, pos, i, 0, x[i], OtsSecret(pp, m, pos, i))]
    BY <2>1, <2>2, <2>3
  <2>5. x # << >>
    <3>1. Good \in SUBSET Nat
      BY SphincsAssumption
    <3>2. c \in Good
      <4> HIDE DEF Good
      <4>1. QED
        BY <2>3, <3>1, FirstIsGood
    <3> HIDE DEF c
    <3>3. QED
      BY <3>2
  <2>6. x \in [1 .. OtsChains -> 0 .. OtsLength - 1]
    <3>1. x = d
      BY <2>5 DEF Encode, CodewordOf
    <3>2. d = << >> \/ d \in [1 .. OtsChains -> 0 .. OtsLength - 1]
      BY Zenon DEF OtsDigitsFit
    <3> HIDE DEF d, x
    <3>3. QED
      BY <2>5, <3>1, <3>2
  <2> HIDE DEF x, tips
  <2>7. ASSUME NEW i \in 1 .. OtsChains
        PROVE  tips[i] \in C
    <3> DEFINE n == x[i]
               v == OtsValue(pp, m, lay, tau, e, i, n)
    <3>1. n \in 0 .. OtsLength - 1 /\ i \in Nat
      BY <1>6, <2>6
    <3>2. tips[i] = v
      BY <1>3, <2>4 DEF OtsValue
    <3> HIDE DEF n
    <3>3. OnChain(pp, m, v)
      BY <1>2, <1>6, <3>1 DEF OnChain
    <3> HIDE DEF v, C, pp, m
    <3>4. QED
      BY <1>5, <3>2, <3>3
  <2>8. DOMAIN tips = 1 .. OtsChains
    BY <2>4
  <2>9. QED
    BY <2>7, <2>8
<1> HIDE DEF path, tips, C, h
<1>9. IsFiniteSet(ToSet(path)) /\ ToSet(path) \in SUBSET C
  BY <1>2, <1>7, SequenceOf
<1>10. IsFiniteSet(ToSet(tips)) /\ ToSet(tips) \in SUBSET C
  BY <1>6, <1>8, SequenceOf
<1>11. IsFiniteSet(ToSet(path) \cup ToSet(tips))
  BY <1>9, <1>10, FS_Union
<1>12. QED
  BY <1>9, <1>10, <1>11 DEF FewOf, LayerDigests, path, tips, C

\* So is what is opened of a few-time tree.
LEMMA FtsFits ==
    ASSUME NEW pp, NEW m, NEW idx \in Nat, NEW u, \A k \in 1 .. FtsTrees : u[k] \in 0 .. 2 ^ FtsHeight - 1,
           NEW s, s.fts = FtsOpen(pp, m, idx, u).opening, NEW kappa \in 1 .. FtsTrees
    PROVE  FewOf(pp, m, FtsDigests(s, kappa))
<1> DEFINE C == SphincsDigests(pp, m)
           at == FtsTree(pp, m, idx, kappa)
           e == u[kappa]
           path == s.fts[kappa].path
           secret == s.fts[kappa].secret
<1>1. path = FtsPath(at, e) /\ secret = FtsSecret(pp, m, idx, kappa, e)
  <2>1. s.fts = [k \in 1 .. FtsTrees |-> [secret |-> FtsSecret(pp, m, idx, k, u[k]),
                                          path |-> FtsPath(FtsTree(pp, m, idx, k), u[k])]]
    BY FtsOpenIs
  <2>2. QED
    BY <2>1
<1>2. FtsHeight \in Nat /\ FtsTrees \in Nat /\ kappa \in Nat
  BY SphincsAssumption
<1>3. e \in 0 .. 2 ^ FtsHeight - 1 /\ e \in Nat
  <2>1. 2 ^ FtsHeight \in Nat /\ e \in 0 .. 2 ^ FtsHeight - 1
    BY <1>2, Halving
  <2> HIDE DEF e
  <2>2. QED
    BY <2>1
<1> HIDE DEF e
<1>4. \A x : InFts(pp, m, x) \/ IsSecret(pp, m, x) => x \in C
  BY SphincsDigestsAre
<1>5. ASSUME NEW l \in 1 .. FtsHeight
      PROVE  path[l] \in C
  <2> DEFINE k == l - 1
             j == Neighbour(Shift(e, k))
  <2>1. k \in 0 .. FtsHeight - 1 /\ k \in 0 .. FtsHeight
    BY <1>2
  <2>2. j \in 0 .. 2 ^ (FtsHeight - k) - 1
    <3> HIDE DEF k
    <3>1. QED
      BY <1>2, <1>3, <2>1, SiblingInRow
  <2>3. path[l] = FtsTreeNode(pp, m, kappa, idx, k, j)
    <3> HIDE DEF path
    <3>1. QED
      BY <1>1 DEF FtsPath, FtsTreeNode
  <2> HIDE DEF j, k
  <2>4. InFts(pp, m, FtsTreeNode(pp, m, kappa, idx, k, j))
    BY <1>2, <2>1, <2>2 DEF InFts
  <2> HIDE DEF path, C
  <2>5. QED
    BY <1>4, <2>3, <2>4
<1>6. DOMAIN path = 1 .. FtsHeight
  BY <1>1 DEF FtsPath
<1>7. secret \in C
  <2>1. IsSecret(pp, m, secret)
    BY <1>1, <1>2, <1>3 DEF IsSecret
  <2> HIDE DEF secret, C
  <2>2. QED
    BY <1>4, <2>1
<1> HIDE DEF path, secret, C
<1>8. IsFiniteSet(ToSet(path)) /\ ToSet(path) \in SUBSET C
  BY <1>2, <1>5, <1>6, SequenceOf
<1>9. IsFiniteSet(ToSet(path) \cup {secret})
  BY <1>8, FS_Singleton, FS_Union
<1>10. QED
  BY <1>7, <1>8, <1>9 DEF FewOf, FtsDigests, path, secret, C

\* So is a signature that is made.
LEMMA SignatureFits ==
    ASSUME SecretOk(sk), OtsDigitsFit, IndicesFit, NEW m, NEW d, NEW fts, NEW tree, NEW s, SignedAs(s, m, d, fts, tree)
    PROVE  FewOf(sk.param, sk.master, DigestsOf(s))
<1> USE DEF SignedAs
<1> DEFINE x == Th(sk.param, SphincsTweak("MSG", 0, 0, 0, 0), <<s.randomizer, sk.root, m>>)
           C == SphincsDigests(sk.param, sk.master)
<1>1. d.idx \in 0 .. 2 ^ Suffix(1) - 1 /\ \A kappa \in 1 .. FtsTrees : d.u[kappa] \in 0 .. 2 ^ FtsHeight - 1
  <2>1. d = IndicesOf(x)
    BY DEF MessageDigest
  <2> HIDE DEF x
  <2>2. /\ IndicesOf(x).idx \in 0 .. 2 ^ Suffix(1) - 1
        /\ \A kappa \in 1 .. FtsTrees : IndicesOf(x).u[kappa] \in 0 .. 2 ^ FtsHeight - 1
    BY Zenon DEF IndicesFit
  <2>3. QED
    BY <2>1, <2>2, Zenon
<1>2. PICK layer : AllSigned(layer, d.idx, fts.key, tree)
  <2> DEFINE idx == d.idx
             ftsKey == fts.key
  <2>1. tree = HypertreeSign(idx, ftsKey) /\ tree.ok = TRUE
    OBVIOUS
  <2> HIDE DEF idx, ftsKey
  <2>2. \E layer : AllSigned(layer, idx, ftsKey, tree)
    BY <2>1, HypertreeSignIs
  <2>3. QED
    BY <2>2 DEF idx, ftsKey
<1>3. ASSUME NEW lay \in Layers
      PROVE  FewOf(sk.param, sk.master, LayerDigests(s, lay))
  <2> DEFINE idx == d.idx
             below == layer[lay + 1]
             r == layer[lay]
  <2>1. r = SignLayer(idx, lay, below) /\ r.ok = TRUE /\ s.ots[lay] = r.ots /\ s.paths[lay] = r.path
    BY <1>2, ZenonT(60) DEF AllSigned
  <2>2. idx \in 0 .. 2 ^ Suffix(1) - 1
    BY <1>1
  <2> HIDE DEF idx, below, r, SignedAs
  <2>3. QED
    BY <2>1, <2>2, LayerFits
<1>4. d.idx \in Nat
  <2>1. 1 \in 1 .. Len(Heights) + 1
    BY SplitInside
  <2>2. Suffix(1) \in Nat
    BY <2>1, SuffixIs
  <2>3. 2 ^ Suffix(1) \in Nat
    BY <2>2, Halving
  <2> DEFINE e == 2 ^ Suffix(1)
             i == d.idx
  <2>4. e \in Nat /\ i \in 0 .. e - 1
    BY <1>1, <2>3
  <2> HIDE DEF e, i
  <2>5. i \in Nat
    BY <2>4
  <2>6. QED
    BY <2>5 DEF i
<1>5. ASSUME NEW kappa \in 1 .. FtsTrees
      PROVE  FewOf(sk.param, sk.master, FtsDigests(s, kappa))
  <2> DEFINE idx == d.idx
             u == d.u
             pp == sk.param
             master == sk.master
  <2>1. /\ idx \in Nat /\ \A k \in 1 .. FtsTrees : u[k] \in 0 .. 2 ^ FtsHeight - 1
        /\ s.fts = FtsOpen(pp, master, idx, u).opening
    BY <1>1, <1>4
  <2> HIDE DEF idx, u, pp, master, SignedAs
  <2>2. FewOf(pp, master, FtsDigests(s, kappa))
    BY <2>1, FtsFits
  <2>3. QED
    BY <2>2 DEF pp, master
<1> DEFINE f == [lay \in Layers |-> LayerDigests(s, lay)]
           g == [k \in 1 .. FtsTrees |-> FtsDigests(s, k)]
           A == UNION {f[lay] : lay \in Layers}
           B == UNION {g[k] : k \in 1 .. FtsTrees}
<1> HIDE DEF C, SignedAs
<1>6. IsFiniteSet(Layers) /\ IsFiniteSet(1 .. FtsTrees)
  <2>1. FtsTrees \in Nat /\ Len(Heights) \in Nat
    BY SphincsAssumption, SplitInside
  <2>2. QED
    BY <2>1, FS_Interval DEF Layers
<1>7. IsFiniteSet(A) /\ A \in SUBSET C
  <2>1. DOMAIN f = Layers /\ \A lay \in Layers : IsFiniteSet(f[lay]) /\ f[lay] \in SUBSET C
    BY <1>3 DEF FewOf, C
  <2> HIDE DEF f
  <2>2. QED
    BY <1>6, <2>1, PartsOf
<1>8. IsFiniteSet(B) /\ B \in SUBSET C
  <2>1. DOMAIN g = 1 .. FtsTrees /\ \A k \in 1 .. FtsTrees : IsFiniteSet(g[k]) /\ g[k] \in SUBSET C
    BY <1>5 DEF FewOf, C
  <2> DEFINE T == 1 .. FtsTrees
  <2>2. IsFiniteSet(T) /\ DOMAIN g = T /\ \A k \in T : IsFiniteSet(g[k]) /\ g[k] \in SUBSET C
    BY <1>6, <2>1
  <2> HIDE DEF g, T
  <2>3. IsFiniteSet(UNION {g[k] : k \in T}) /\ (UNION {g[k] : k \in T}) \in SUBSET C
    BY <2>2, PartsOf
  <2>4. QED
    BY <2>3 DEF T
<1>9. DigestsOf(s) = A \cup B
  BY DEF DigestsOf
<1> HIDE DEF A, B
<1>10. IsFiniteSet(A \cup B)
  BY <1>7, <1>8, FS_Union
<1>11. QED
  BY <1>7, <1>8, <1>9, <1>10 DEF FewOf, C

\* What was signed is of digests of the key.
SphincsKept ==
    /\ IsFiniteSet(signatures)
    /\ sk # NoSecret => Len(sk.master) = 1 /\ \A s \in signatures : FewOf(sk.param, sk.master, DigestsOf(s))

\* Making a key keeps that.
LEMMA SphincsKeyGenKept ==
    ASSUME SphincsInv, SphincsKept, SphincsKeyGen
    PROVE  SphincsKept'
<1> DEFINE pp == <<"param of", Master>>
           full == WholeTree(pp, Master, 1, 0)
<1>1. /\ sk = NoSecret /\ signatures' = signatures
      /\ sk' = [made |-> TRUE, param |-> pp, master |-> Master, root |-> full[Heights[1]][1],
                cache |-> full[SplitLevel]]
  BY Zenon DEF SphincsKeyGen, WholeTree
<1>2. sk'.master = Master
  <2> HIDE DEF full, pp
  <2>1. QED
    BY <1>1
<1>3. signatures' = {}
  BY <1>1 DEF SphincsInv, SecretOk, NoSecret
<1>4. Len(sk'.master) = 1
  BY <1>2 DEF Master
<1>5. IsFiniteSet(signatures')
  BY <1>1 DEF SphincsKept
<1>6. QED
  BY <1>3, <1>4, <1>5 DEF SphincsKept

\* Signing a message keeps it.
LEMMA SphincsSignKept ==
    ASSUME SphincsInv, SphincsKept, OtsDigitsFit, IndicesFit, NEW m, SphincsSign(m)
    PROVE  SphincsKept'
<1> DEFINE randomizer(k) == Th(sk.param, SphincsTweak("RANDOMIZER", 0, 0, k, 0), <<sk.master, m>>)
           digest(k) == MessageDigest(sk.param, sk.root, randomizer(k), m)
           Good == {k \in 0 .. MaxDigestAttempts - 1 : digest(k).u[FtsTrees + 1] = 0}
           trial == FirstOf(Good)
           d == digest(trial)
           fts == FtsOpen(sk.param, sk.master, d.idx, d.u)
           tree == HypertreeSign(d.idx, fts.key)
           s == [message |-> m, randomizer |-> randomizer(trial), fts |-> fts.opening,
                 ots |-> tree.ots, paths |-> tree.paths]
<1>1. sk # NoSecret /\ trial # -1 /\ tree.ok /\ signatures' = signatures \cup {s} /\ sk' = sk
  BY Zenon DEF SphincsSign
<1>2. SecretOk(sk)
  BY <1>1 DEF SphincsInv
<1>3. d.u[FtsTrees + 1] = 0
  <2> HIDE DEF digest
  <2>1. Good \in SUBSET Nat
    BY SphincsAssumption
  <2>2. trial \in Good
    <3> HIDE DEF Good
    <3>1. QED
      BY <1>1, <2>1, FirstIsGood
  <2> HIDE DEF trial
  <2>3. QED
    BY <2>2
<1> HIDE DEF trial
<1>4. tree.ok = TRUE
  <2>1. tree.ok = TRUE \/ tree.ok = FALSE
    BY DEF HypertreeSign
  <2> HIDE DEF tree
  <2>2. QED
    BY <1>1, <2>1, Zenon
<1>5. d = MessageDigest(sk.param, sk.root, randomizer(trial), m)
  OBVIOUS
<1> HIDE DEF digest
<1>6. s.randomizer = randomizer(trial) /\ s.fts = fts.opening /\ s.ots = tree.ots /\ s.paths = tree.paths
  <2> HIDE DEF tree, fts, randomizer
  <2>1. QED
    OBVIOUS
<1>7. FewOf(sk.param, sk.master, DigestsOf(s))
  <2>1. fts = FtsOpen(sk.param, sk.master, d.idx, d.u) /\ tree = HypertreeSign(d.idx, fts.key)
    OBVIOUS
  <2> HIDE DEF s, tree, fts, d, randomizer
  <2>2. SignedAs(s, m, d, fts, tree)
    BY <1>3, <1>4, <1>5, <1>6, <2>1 DEF SignedAs
  <2>3. QED
    BY <1>2, <2>2, SignatureFits
<1> HIDE DEF s, tree, fts, d
<1>8. /\ IsFiniteSet(signatures) /\ Len(sk.master) = 1
      /\ \A x \in signatures : FewOf(sk.param, sk.master, DigestsOf(x))
  BY <1>1 DEF SphincsKept
<1>9. IsFiniteSet(signatures \cup {s})
  BY <1>8, FS_AddElement
<1>10. \A x \in signatures \cup {s} : FewOf(sk.param, sk.master, DigestsOf(x))
  BY <1>7, <1>8
<1>11. QED
  BY <1>1, <1>8, <1>9, <1>10 DEF SphincsKept

\* What the key has and what was returned are digests of the key, and not many.
LEMMA SphincsReturnedFit ==
    ASSUME SecretOk(sk), SphincsKept
    PROVE  FewOf(sk.param, sk.master, SphincsReturned)
<1> DEFINE C == SphincsDigests(sk.param, sk.master)
           f == [s \in signatures |-> DigestsOf(s)]
           Parts == UNION {f[s] : s \in signatures}
           h == Heights[1]
<1>1. SphincsReturned = {sk.root} \cup Parts
  BY DEF SphincsReturned, DigestsOf, LayerDigests, FtsDigests
<1>2. sk # NoSecret
  BY DEF SecretOk, NoSecret
<1>3. sk.root \in C
  <2>1. h \in Nat /\ 1 \in Layers
    BY SplitInside DEF Layers
  <2>2. sk.root = TreeNode(sk.param, sk.master, 1, 0, h, 0)
    BY DEF SecretOk, TreeNode
  <2>3. h \in 0 .. h /\ 0 \in 0 .. 2 ^ (h - h) - 1 /\ 0 \in Nat
    <3>1. h - h = 0
      BY <2>1
    <3>2. 0 \in 0 .. 2 ^ 0 - 1
      OBVIOUS
    <3>3. 0 \in 0 .. 2 ^ (h - h) - 1
      BY <3>1, <3>2
    <3>4. QED
      BY <2>1, <3>3
  <2>4. InTree(sk.param, sk.master, sk.root)
    BY <2>1, <2>2, <2>3 DEF InTree
  <2>5. QED
    BY <2>4, SphincsDigestsAre
<1>4. IsFiniteSet(Parts) /\ Parts \in SUBSET C
  <2>1. IsFiniteSet(signatures) /\ DOMAIN f = signatures
    BY DEF SphincsKept
  <2>2. \A s \in signatures : IsFiniteSet(f[s]) /\ f[s] \in SUBSET C
    BY <1>2 DEF SphincsKept, FewOf
  <2> HIDE DEF f, C
  <2>3. QED
    BY <2>1, <2>2, PartsOf
<1> HIDE DEF Parts, C
<1>5. IsFiniteSet({sk.root} \cup Parts)
  BY <1>4, FS_Singleton, FS_Union
<1>6. QED
  BY <1>1, <1>3, <1>4, <1>5 DEF FewOf, C

\* However far it goes back, no tweak of a key hashes two inputs.
LEMMA SphincsOneInput ==
    ASSUME SphincsInv, SphincsKept
    PROVE  OneInput(SphincsHashed)
<1>1. CASE sk = NoSecret
  <2>1. SphincsHashed = {}
    BY <1>1 DEF SphincsHashed
  <2>2. {<<d[1], d[2]>> : d \in {}} = {}
    OBVIOUS
  <2>3. QED
    BY <2>1, <2>2 DEF OneInput
<1>2. CASE sk # NoSecret
  <2>1. SecretOk(sk) /\ Len(sk.master) = 1
    BY <1>2 DEF SphincsInv, SphincsKept
  <2> DEFINE n == TotalOf(Heights) + OtsLength + FtsHeight + 1
             C == SphincsDigests(sk.param, sk.master)
  <2>2. n \in Nat
    <3>1. TotalOf(Heights) \in Nat
      BY SphincsAssumption, TotalIs
    <3>2. QED
      BY <3>1, SphincsAssumption
  <2>3. SphincsReturned \in SUBSET C /\ IsFiniteSet(SphincsReturned)
    BY <2>1, SphincsReturnedFit DEF FewOf
  <2>4. ClosedUnderInputs(C) /\ HasInputs(C) /\ OneEach(C)
    BY <2>1, SphincsClosed, SphincsOneEach
  <2> HIDE DEF n, C
  <2>5. OneInput(HashedIn(SphincsReturned, n))
    BY <2>2, <2>3, <2>4, HashedOnce
  <2>6. QED
    BY <1>2, <2>5 DEF SphincsHashed, n
<1>3. QED
  BY <1>1, <1>2

-----------------------------------------------------------------------------
(* One input per tweak, of both schemes. *)

\* What a step of a behaviour of any of the scenes keeps, with what was signed.
DigestsInv == SigningInv /\ XmssKept /\ SphincsKept

\* Nothing is signed at first.
LEMMA DigestsInitHolds == MCInit => DigestsInv
<1>1. ASSUME MCInit
      PROVE  XmssKept /\ SphincsKept
  <2>1. key = NoKey /\ signed = {} /\ sk = NoSecret /\ signatures = {}
    BY <1>1 DEF MCInit, XmssInit, SphincsInit
  <2>2. QED
    BY <2>1, FS_EmptySet DEF XmssKept, SphincsKept
<1>2. QED
  BY <1>1, SigningInitHolds DEF DigestsInv

\* What is kept of either scheme is of its variables alone.
LEMMA XmssKeptAlone == ASSUME XmssKept, UNCHANGED xmssVars PROVE XmssKept'
<1>1. key' = key /\ signed' = signed
  BY DEF xmssVars
<1>2. QED
  BY <1>1 DEF XmssKept

\* So it is of the other.
LEMMA SphincsKeptAlone == ASSUME SphincsKept, UNCHANGED sphincsVars PROVE SphincsKept'
<1>1. sk' = sk /\ signatures' = signatures
  BY DEF sphincsVars
<1>2. QED
  BY <1>1, Zenon DEF SphincsKept

\* A step of any scene keeps it.
LEMMA DigestsKeep ==
    ASSUME DigitsFit, OtsDigitsFit, IndicesFit, DigestsInv, [MCNext]_mcvars
    PROVE  DigestsInv'
<1>1. XmssInv /\ SphincsInv /\ XmssKept /\ SphincsKept
  BY DEF DigestsInv, SigningInv
<1>2. SigningInv'
  BY SigningKeeps DEF DigestsInv
<1>3. CASE XmssNext /\ UNCHANGED sphincsVars
  BY <1>1, <1>2, <1>3, XmssKeptKeeps, SphincsKeptAlone DEF DigestsInv
<1>4. CASE SphincsNext /\ UNCHANGED xmssVars
  <2>1. SphincsKept'
    BY <1>1, <1>4, SphincsKeyGenKept, SphincsSignKept DEF SphincsNext
  <2>2. QED
    BY <1>1, <1>2, <1>4, <2>1, XmssKeptAlone DEF DigestsInv
<1>5. CASE UNCHANGED xmssVars /\ UNCHANGED sphincsVars
  BY <1>1, <1>2, <1>5, XmssKeptAlone, SphincsKeptAlone DEF DigestsInv
<1>6. QED
  BY <1>3, <1>4, <1>5, Zenon DEF MCNext, mcvars

\* With it no tweak hashes two inputs.
LEMMA DigestsAreEnough == ASSUME DigitsFit PROVE DigestsInv => OneInputPerTweak
BY XmssOneInput, SphincsOneInput DEF DigestsInv, SigningInv, OneInputPerTweak

(* No tweak hashes two different inputs, among all that a key and the        *)
(* signatures made with it were computed from: the values of the chains,    *)
(* the nodes of every tree, what stands in for missing ones and the secrets *)
(* are told apart by their tweaks (xmss's hash.rs, sphincs's hash.rs).      *)
THEOREM TweaksKeepApart ==
    ASSUME DigitsFit, OtsDigitsFit, IndicesFit
    PROVE  MCSpec => []OneInputPerTweak
<1>1. DigestsInv /\ [MCNext]_mcvars => DigestsInv'
  BY DigestsKeep
<1>2. DigestsInv => OneInputPerTweak
  BY DigestsAreEnough
<1>3. QED
  BY <1>1, <1>2, DigestsInitHolds, PTL DEF MCSpec

-----------------------------------------------------------------------------
(***************************************************************************)
(* Sequences laid end to end.                                              *)
(***************************************************************************)

\* FlattenSeq joins them one by one.
LEMMA Flattened ==
    ASSUME NEW S, NEW n \in Nat \ {0}, NEW seqs \in [1 .. n -> Seq(S)]
    PROVE  \E f : IsJoin(f, n, S, seqs) /\ FlattenSeq(seqs) = f[n]
<1>1. Len(seqs) = n /\ Len(seqs) # 0
  OBVIOUS
<1>2. FlattenSeq(seqs) = (CHOOSE h : h = Joining(h, Len(seqs), seqs))[Len(seqs)]
  BY <1>1, Zenon DEF FlattenSeq, Joining
<1>3. FlattenSeq(seqs) = (CHOOSE h : h = Joining(h, n, seqs))[n]
  BY <1>1, <1>2, Zenon
<1>4. QED
  BY <1>3, Concatenated

\* Pairs laid end to end: twice as many, in their order.
IsPaired(t, n, S, a, b) ==
    /\ t \in Seq(S) /\ Len(t) = 2 * n
    /\ \A i \in 1 .. n : t[2 * i - 1] = a[i] /\ t[2 * i] = b[i]

\* The shape the cache files have.
LEMMA Paired ==
    ASSUME NEW S, NEW n \in Nat, NEW a \in [1 .. n -> S], NEW b \in [1 .. n -> S]
    PROVE  IsPaired(FlattenSeq([i \in 1 .. n |-> <<a[i], b[i]>>]), n, S, a, b)
<1> DEFINE seqs == [i \in 1 .. n |-> <<a[i], b[i]>>]
<1>1. CASE n = 0
  <2>1. seqs = <<>>
    BY <1>1
  <2>2. Len(seqs) = 0
    BY <2>1
  <2>3. FlattenSeq(seqs) = seqs
    BY <2>2, Zenon DEF FlattenSeq
  <2>4. IsPaired(<<>>, n, S, a, b)
    BY <1>1 DEF IsPaired
  <2>5. QED
    <3> HIDE DEF seqs
    <3>1. IsPaired(FlattenSeq(seqs), n, S, a, b)
      BY <2>1, <2>3, <2>4
    <3>2. QED
      BY <3>1 DEF seqs
<1>2. CASE n # 0
  <2>1. seqs \in [1 .. n -> Seq(S)]
    OBVIOUS
  <2>2. \A i \in 1 .. n : seqs[i] = <<a[i], b[i]>>
    OBVIOUS
  <2> HIDE DEF seqs
  <2>3. PICK f : IsJoin(f, n, S, seqs) /\ FlattenSeq(seqs) = f[n]
    BY <1>2, <2>1, Flattened
  <2> DEFINE T == {k \in 0 .. n : IsPaired(f[k], k, S, a, b)}
  <2>4. 0 \in T
    BY <2>3 DEF IsJoin, IsPaired
  <2>5. ASSUME NEW k \in 0 .. n - 1, k \in T
        PROVE  k + 1 \in T
    <3> DEFINE t == f[k]
               u == f[k + 1]
    <3>1. k + 1 \in 1 .. n /\ (k + 1) - 1 = k
      OBVIOUS
    <3>2. u = t \o <<a[k + 1], b[k + 1]>>
      BY <2>2, <2>3, <3>1 DEF IsJoin
    <3>3. t \in Seq(S) /\ Len(t) = 2 * k /\ a[k + 1] \in S /\ b[k + 1] \in S
      BY <2>5, <3>1 DEF IsPaired
    <3>4. \A i \in 1 .. k : t[2 * i - 1] = a[i] /\ t[2 * i] = b[i]
      BY <2>5 DEF IsPaired
    <3> HIDE DEF t, u
    <3>5. u \in Seq(S) /\ Len(u) = 2 * (k + 1)
      BY <3>2, <3>3
    <3>6. \A j \in 1 .. 2 * k : u[j] = t[j]
      BY <3>2, <3>3
    <3>7. u[2 * k + 1] = a[k + 1] /\ u[2 * k + 2] = b[k + 1]
      BY <3>2, <3>3
    <3>8. ASSUME NEW i \in 1 .. k + 1
          PROVE  u[2 * i - 1] = a[i] /\ u[2 * i] = b[i]
      <4>1. CASE i = k + 1
        <5>1. 2 * i - 1 = 2 * k + 1 /\ 2 * i = 2 * k + 2
          BY <4>1
        <5>2. QED
          BY <3>7, <4>1, <5>1
      <4>2. CASE i # k + 1
        <5>1. i \in 1 .. k /\ 2 * i - 1 \in 1 .. 2 * k /\ 2 * i \in 1 .. 2 * k
          BY <4>2
        <5>2. QED
          BY <3>4, <3>6, <5>1
      <4>3. QED
        BY <4>1, <4>2
    <3>9. IsPaired(u, k + 1, S, a, b)
      BY <3>5, <3>8 DEF IsPaired
    <3>10. QED
      BY <3>1, <3>9 DEF u
  <2>6. \A k \in 0 .. n : k \in T
    <3> HIDE DEF T
    <3>1. QED
      BY <2>4, <2>5, UpTo
  <2>7. IsPaired(f[n], n, S, a, b)
    BY <2>6
  <2>8. QED
    <3>1. IsPaired(FlattenSeq(seqs), n, S, a, b)
      BY <2>3, <2>7
    <3>2. QED
      BY <3>1 DEF seqs
<1>3. QED
  BY <1>1, <1>2

-----------------------------------------------------------------------------
(***************************************************************************)
(* What is in a file and in the pools.                                     *)
(***************************************************************************)

\* The first m signers, all valid.
ValidPool(m) == [i \in 1 .. m |-> Valid(i)]

\* What the i-th signer of a file may turn out to be.
SomeSigner(i) == {NoSigner, Valid(i), Stale(i)}

\* The signer that the i-th unit of a file is of.
SignerAt(k, i) == IF k = "xmss" THEN i \div 2 ELSE (i + 1) \div 2

\* Whatever wrote it, a unit is what belongs in its place, or a hole.
Fits(k, i, u) ==
    IF k = "xmss" /\ i = 1 THEN u = Hole \/ \E count \in Nat : u = FileHead(count)
    ELSE u[2] \in SomeSigner(SignerAt(k, i))

\* The units of a file do.
Fitting(k, units) ==
    /\ \E U : units \in Seq(U)
    /\ \A i \in 1 .. Len(units) : Fits(k, i, units[i])

\* A call has a pool of the first signers, in order, that all verify, and whatever it
\* has read of the file fits.
CallOk(k, c, f) ==
    /\ \E m \in Nat : c.pool = ValidPool(m)
    /\ c.at = "read" =>
          /\ c = [at |-> "read", pool |-> c.pool, n |-> c.n, units |-> c.units]
          /\ c.n \in Nat /\ Fitting(k, c.units)
    /\ c.at \in {"open", "write"} => c.n \in Nat /\ c.n <= Len(c.pool)
    /\ c.at = "write" =>
          /\ c = [at |-> "write", n |-> c.n, pool |-> c.pool, offset |-> c.offset]
          /\ c.offset \in Nat /\ Fitting(k, f)

\* The inductive invariant.
CacheInv ==
    /\ kind \in {"xmss", "sphincs"}
    /\ file = Absent \/ Fitting(kind, file)
    /\ procs = [p \in Process |-> procs[p]]
    /\ \A p \in Process : CallOk(kind, procs[p], file)
    /\ ReturnedSignersVerify

-----------------------------------------------------------------------------
(***************************************************************************)
(* Reading: whatever a fitting file holds, what is loaded is a valid pool. *)
(***************************************************************************)

\* The signers up to the first that does not verify.
LEMMA VerifyingGives ==
    ASSUME NEW n \in Nat, NEW s, s = [i \in 1 .. n |-> s[i]],
           \A i \in 1 .. n : s[i] \in SomeSigner(i)
    PROVE  \E m \in Nat : Verifying(s) = ValidPool(m)
<1> DEFINE bad == {i \in 1 .. Len(s) : ~s[i].verifies}
<1>1. Len(s) = n
  OBVIOUS
<1>2. \A i \in 1 .. n : i \notin bad => s[i] = Valid(i)
  BY <1>1 DEF SomeSigner, NoSigner, Stale
<1>3. CASE bad = {}
  <2>1. s = ValidPool(n)
    <3>1. \A i \in 1 .. n : s[i] = Valid(i)
      BY <1>2, <1>3
    <3>2. QED
      BY <3>1, Zenon DEF ValidPool
  <2>2. Verifying(s) = s
    BY <1>3 DEF Verifying
  <2>3. QED
    BY <2>1, <2>2
<1>4. CASE bad # {}
  <2> DEFINE least == CHOOSE i \in bad : \A j \in bad : i <= j
  <2>1. bad \in SUBSET Nat
    BY <1>1
  <2>2. least \in bad /\ \A j \in bad : least <= j
    <3> HIDE DEF bad
    <3>1. \E i \in bad : \A j \in bad : i <= j
      BY <1>4, <2>1, LeastElement
    <3>2. QED
      BY <3>1
  <2>3. least \in 1 .. n
    BY <1>1, <2>2
  <2>4. Verifying(s) = SubSeq(s, 1, least - 1)
    BY <1>4, Zenon DEF Verifying
  <2>5. \A i \in 1 .. least - 1 : s[i] = Valid(i)
    <3>1. ASSUME NEW i \in 1 .. least - 1
          PROVE  s[i] = Valid(i)
      <4>1. i \in 1 .. n /\ i < least
        BY <2>3
      <4>2. i \notin bad
        <5> HIDE DEF bad
        <5>1. QED
          BY <2>2, <2>3, <4>1
      <4>3. QED
        BY <1>2, <4>1, <4>2
    <3>2. QED
      BY <3>1
  <2> HIDE DEF least, bad
  <2>6. SubSeq(s, 1, least - 1) = [i \in 1 .. least - 1 |-> s[i]]
    BY <1>1, <2>3
  <2>7. [i \in 1 .. least - 1 |-> s[i]] = ValidPool(least - 1)
    BY <2>5, Zenon DEF ValidPool
  <2>8. least - 1 \in Nat
    BY <2>3
  <2>9. QED
    BY <2>4, <2>6, <2>7, <2>8
<1>5. QED
  BY <1>3, <1>4

\* The signers in a row of halves: two halves that agree are one of the signers in
\* their place.
LEMMA DecodedGives ==
    ASSUME NEW U, NEW h \in Seq(U),
           \A i \in 1 .. Len(h) : h[i][2] \in SomeSigner((i + 1) \div 2)
    PROVE  \E m \in Nat : Verifying(Decoded(h)) = ValidPool(m)
<1> DEFINE n == Len(h) \div 2
<1>1. n \in Nat /\ 2 * n <= Len(h)
  BY Z3
<1>2. DOMAIN Decoded(h) = 1 .. n /\ Decoded(h) = [i \in 1 .. n |-> Decoded(h)[i]]
  BY DEF Decoded
<1>3. ASSUME NEW i \in 1 .. n
      PROVE  Decoded(h)[i] \in SomeSigner(i)
  <2>1. Decoded(h)[i] = IF h[2 * i - 1][2] = h[2 * i][2] THEN h[2 * i][2] ELSE NoSigner
    BY DEF Decoded
  <2>2. 2 * i \in 1 .. Len(h)
    BY <1>1
  <2>3. (2 * i + 1) \div 2 = i
    BY Z3
  <2>4. h[2 * i][2] \in SomeSigner(i)
    BY <2>2, <2>3
  <2>5. NoSigner \in SomeSigner(i)
    BY DEF SomeSigner
  <2>6. QED
    BY <2>1, <2>4, <2>5
<1> HIDE DEF n
<1>4. QED
  BY <1>1, <1>2, <1>3, VerifyingGives

\* What is read of a file.
LEMMA TryLoadGives ==
    ASSUME kind \in {"xmss", "sphincs"}, NEW units, Fitting(kind, units)
    PROVE  \E m \in Nat : TryLoad(units) = ValidPool(m)
<1>1. PICK U : units \in Seq(U)
  BY DEF Fitting
<1>2. \A i \in 1 .. Len(units) : Fits(kind, i, units[i])
  BY DEF Fitting
<1>3. CASE kind = "sphincs"
  <2>1. \A i \in 1 .. Len(units) : units[i][2] \in SomeSigner((i + 1) \div 2)
    BY <1>2, <1>3 DEF Fits, SignerAt
  <2>2. \E m \in Nat : Verifying(Decoded(units)) = ValidPool(m)
    BY <1>1, <2>1, DecodedGives
  <2>3. QED
    BY <1>3, <2>2 DEF TryLoad
<1>4. CASE kind = "xmss" /\ (units = <<>> \/ units[1] = Hole \/ Len(units) - 1 < 2 * units[1][2])
  <2>1. TryLoad(units) = <<>>
    BY <1>4 DEF TryLoad
  <2>2. ValidPool(0) = <<>>
    BY DEF ValidPool
  <2>3. QED
    BY <2>1, <2>2
<1>5. CASE kind = "xmss" /\ ~(units = <<>> \/ units[1] = Hole \/ Len(units) - 1 < 2 * units[1][2])
  <2> DEFINE count == units[1][2]
             h == SubSeq(units, 2, 2 * count + 1)
  <2>1. count \in Nat
    <3>1. 1 \in 1 .. Len(units)
      BY <1>1, <1>5
    <3>2. Fits(kind, 1, units[1])
      BY <1>2, <3>1
    <3>3. PICK c \in Nat : units[1] = FileHead(c)
      BY <1>5, <3>2 DEF Fits
    <3>4. QED
      BY <3>3 DEF FileHead
  <2>2. 2 * count + 1 <= Len(units) /\ Len(units) \in Nat
    BY <1>1, <1>5, <2>1
  <2>3. TryLoad(units) = Verifying(Decoded(h))
    BY <1>5 DEF TryLoad
  <2> HIDE DEF count
  <2>4. h \in Seq(U) /\ Len(h) = 2 * count /\ \A i \in 1 .. 2 * count : h[i] = units[i + 1]
    BY <1>1, <2>1, <2>2
  <2>5. ASSUME NEW i \in 1 .. Len(h)
        PROVE  h[i][2] \in SomeSigner((i + 1) \div 2)
    <3>1. i + 1 \in 1 .. Len(units) /\ i + 1 # 1 /\ h[i] = units[i + 1]
      BY <2>1, <2>2, <2>4
    <3>2. Fits(kind, i + 1, units[i + 1])
      BY <1>2, <3>1
    <3>3. units[i + 1][2] \in SomeSigner(SignerAt(kind, i + 1))
      BY <3>1, <3>2 DEF Fits
    <3>4. SignerAt(kind, i + 1) = (i + 1) \div 2
      BY <1>5 DEF SignerAt
    <3>5. QED
      BY <3>1, <3>3, <3>4
  <2> HIDE DEF h
  <2>6. \E m \in Nat : Verifying(Decoded(h)) = ValidPool(m)
    BY <2>4, <2>5, DecodedGives
  <2>7. QED
    BY <2>3, <2>6
<1>6. QED
  BY <1>3, <1>4, <1>5

-----------------------------------------------------------------------------
(***************************************************************************)
(* Writing: what is saved of the first signers fits, whichever verify.     *)
(***************************************************************************)

\* The halves of the signers.
Halves(s) == FlattenSeq([i \in 1 .. Len(s) |-> <<Half("first", s[i]), Half("last", s[i])>>])

\* Each signer's halves lie in its place.
LEMMA HalvesFit ==
    ASSUME NEW n \in Nat, NEW s, s = [i \in 1 .. n |-> s[i]],
           \A i \in 1 .. n : s[i] \in SomeSigner(i)
    PROVE  /\ \E U : Halves(s) \in Seq(U)
           /\ \A i \in 1 .. Len(Halves(s)) : Halves(s)[i][2] \in SomeSigner((i + 1) \div 2)
<1> DEFINE a == [i \in 1 .. n |-> Half("first", s[i])]
           b == [i \in 1 .. n |-> Half("last", s[i])]
           U == {a[i] : i \in 1 .. n} \cup {b[i] : i \in 1 .. n}
           t == Halves(s)
<1>1. Len(s) = n
  OBVIOUS
<1>2. a \in [1 .. n -> U] /\ b \in [1 .. n -> U]
  <2>1. \A i \in 1 .. n : a[i] \in U /\ b[i] \in U
    <3> HIDE DEF a, b
    <3>1. QED
      OBVIOUS
  <2>2. a = [i \in 1 .. n |-> a[i]] /\ b = [i \in 1 .. n |-> b[i]]
    OBVIOUS
  <2> HIDE DEF a, b, U
  <2>3. QED
    BY <2>1, <2>2
<1>3. t = FlattenSeq([i \in 1 .. n |-> <<a[i], b[i]>>])
  <2>1. [i \in 1 .. n |-> <<a[i], b[i]>>]
          = [i \in 1 .. Len(s) |-> <<Half("first", s[i]), Half("last", s[i])>>]
    BY <1>1
  <2>2. t = FlattenSeq([i \in 1 .. Len(s) |-> <<Half("first", s[i]), Half("last", s[i])>>])
    BY Zenon DEF Halves
  <2>3. QED
    BY <2>1, <2>2, Zenon
<1>4. IsPaired(t, n, U, a, b)
  <2> HIDE DEF a, b, U, t
  <2>1. IsPaired(FlattenSeq([i \in 1 .. n |-> <<a[i], b[i]>>]), n, U, a, b)
    BY <1>2, Paired
  <2>2. QED
    BY <1>3, <2>1, Zenon
<1>5. \A i \in 1 .. n : a[i][2] = s[i] /\ b[i][2] = s[i]
  BY DEF Half
<1> HIDE DEF a, b, U, t
<1>6. ASSUME NEW i \in 1 .. Len(t)
      PROVE  t[i][2] \in SomeSigner((i + 1) \div 2)
  <2> DEFINE k == (i + 1) \div 2
  <2>1. Len(t) = 2 * n
    BY <1>4 DEF IsPaired
  <2>2. k \in 1 .. n /\ (i = 2 * k - 1 \/ i = 2 * k)
    BY <2>1, Z3
  <2> HIDE DEF k
  <2>3. t[2 * k - 1] = a[k] /\ t[2 * k] = b[k]
    BY <1>4, <2>2 DEF IsPaired
  <2>4. t[i][2] = s[k]
    BY <1>5, <2>2, <2>3
  <2>5. t[i][2] \in SomeSigner(k)
    BY <2>2, <2>4
  <2>6. QED
    BY <2>5 DEF k
<1>7. t \in Seq(U)
  BY <1>4 DEF IsPaired
<1>8. QED
  BY <1>6, <1>7 DEF t

\* What is written in the file fits.
LEMMA SerializedFits ==
    ASSUME kind \in {"xmss", "sphincs"},
           NEW n \in Nat, NEW s, s = [i \in 1 .. n |-> s[i]],
           \A i \in 1 .. n : s[i] \in SomeSigner(i)
    PROVE  Fitting(kind, Serialized(s))
<1>1. PICK U : Halves(s) \in Seq(U)
  BY HalvesFit
<1>2. \A i \in 1 .. Len(Halves(s)) : Halves(s)[i][2] \in SomeSigner((i + 1) \div 2)
  BY HalvesFit
<1> DEFINE t == Halves(s)
           h == FileHead(Len(s))
           head == <<h>>
<1>3. CASE kind = "sphincs"
  <2>1. Serialized(s) = <<>> \o t
    BY <1>3 DEF Serialized, Halves
  <2>2. t \in Seq(U) /\ \A i \in 1 .. Len(t) : t[i][2] \in SomeSigner((i + 1) \div 2)
    BY <1>1, <1>2
  <2> HIDE DEF t
  <2>3. Serialized(s) = t
    BY <2>1, <2>2, ConcatEmptySeq
  <2>4. \A i \in 1 .. Len(t) : Fits(kind, i, t[i])
    BY <1>3, <2>2 DEF Fits, SignerAt
  <2>5. QED
    BY <2>2, <2>3, <2>4 DEF Fitting
<1>4. CASE kind = "xmss"
  <2>1. Serialized(s) = head \o t
    BY <1>4 DEF Serialized, Halves
  <2>2. t \in Seq(U) /\ \A i \in 1 .. Len(t) : t[i][2] \in SomeSigner((i + 1) \div 2)
    BY <1>1, <1>2
  <2>3. Fits(kind, 1, h)
    BY <1>4 DEF Fits
  <2> HIDE DEF t, h
  <2>4. head \in Seq(U \cup {h}) /\ Len(head) = 1 /\ head[1] = h
    OBVIOUS
  <2> HIDE DEF head
  <2>5. t \in Seq(U \cup {h})
    BY <2>2
  <2> DEFINE all == head \o t
  <2>6. all \in Seq(U \cup {h}) /\ Len(all) = Len(t) + 1 /\ all[1] = h
    <3>1. all \in Seq(U \cup {h}) /\ Len(all) = Len(head) + Len(t)
      BY <2>4, <2>5, ConcatProperties
    <3>2. 1 \in 1 .. Len(head) + Len(t) /\ 1 <= Len(head)
      BY <2>4, <2>5, LenProperties
    <3>3. all[1] = head[1]
      BY <2>4, <2>5, <3>2, ConcatProperties, ZenonT(60)
    <3>4. QED
      BY <2>4, <2>5, <3>1, <3>3
  <2>7. \A i \in 2 .. Len(all) : all[i] = t[i - 1] /\ i - 1 \in 1 .. Len(t)
    BY <2>4, <2>5, <2>6
  <2> HIDE DEF all
  <2>8. ASSUME NEW i \in 1 .. Len(all)
        PROVE  Fits(kind, i, all[i])
    <3>1. CASE i = 1
      BY <2>3, <2>6, <3>1
    <3>2. CASE i # 1
      <4>1. i \in 2 .. Len(all) /\ (i - 1) + 1 = i
        BY <3>2
      <4>2. t[i - 1][2] \in SomeSigner(((i - 1) + 1) \div 2)
        BY <2>2, <2>7, <4>1
      <4>3. all[i][2] \in SomeSigner(i \div 2)
        BY <2>7, <4>1, <4>2
      <4>4. QED
        BY <1>4, <3>2, <4>3 DEF Fits, SignerAt
    <3>3. QED
      BY <3>1, <3>2
  <2>9. Serialized(s) = all
    BY <2>1 DEF all
  <2>10. QED
    BY <2>6, <2>8, <2>9 DEF Fitting
<1>5. QED
  BY <1>3, <1>4

\* The file of a valid pool.
LEMMA PoolFits ==
    ASSUME kind \in {"xmss", "sphincs"}, NEW m \in Nat
    PROVE  Fitting(kind, Serialized(ValidPool(m)))
<1> DEFINE s == ValidPool(m)
<1>1. s = [i \in 1 .. m |-> s[i]] /\ \A i \in 1 .. m : s[i] \in SomeSigner(i)
  BY DEF ValidPool, SomeSigner
<1> HIDE DEF s
<1>2. Fitting(kind, Serialized(s))
  BY <1>1, SerializedFits
<1>3. QED
  BY <1>2 DEF s

\* The file an older build left.
LEMMA OldFileFits ==
    ASSUME kind \in {"xmss", "sphincs"}
    PROVE  Fitting(kind, OldFile(MaxSigners))
<1> USE CacheAssumption
<1> DEFINE s == [i \in 1 .. MaxSigners |-> IF i >= StaleFrom THEN Stale(i) ELSE Valid(i)]
<1>1. s = [i \in 1 .. MaxSigners |-> s[i]] /\ \A i \in 1 .. MaxSigners : s[i] \in SomeSigner(i)
  BY DEF SomeSigner
<1>2. OldFile(MaxSigners) = Serialized(s)
  BY Zenon DEF OldFile
<1> HIDE DEF s
<1>3. QED
  BY <1>1, <1>2, SerializedFits

-----------------------------------------------------------------------------
(***************************************************************************)
(* The steps.                                                              *)
(***************************************************************************)

\* A step changes one call, and perhaps the file, to what is again in order.
LEMMA ChangeKeeps ==
    ASSUME CacheInv, NEW p \in Process, NEW call,
           Change(p, call), kind' = kind, file' = file \/ Fitting(kind, file'),
           CallOk(kind, call, file'), ReturnedSignersVerify'
    PROVE  CacheInv'
<1>1. procs' = [q \in Process |-> IF q = p THEN call ELSE procs[q]]
  BY DEF Change, CacheInv
<1>2. ASSUME NEW q \in Process
      PROVE  CallOk(kind', procs'[q], file')
  <2>1. CASE q = p
    BY <1>1, <2>1
  <2>2. CASE q # p
    <3>1. procs'[q] = procs[q] /\ CallOk(kind, procs[q], file)
      BY <1>1, <2>2 DEF CacheInv
    <3>2. CallOk(kind, procs[q], file')
      BY <3>1 DEF CallOk
    <3>3. QED
      BY <3>1, <3>2
  <2>3. QED
    BY <2>1, <2>2
<1>3. QED
  BY <1>1, <1>2 DEF CacheInv

\* Between two calls only the pool counts.
LEMMA IdleOk ==
    ASSUME NEW k, NEW f, NEW m \in Nat
    PROVE  CallOk(k, Waiting(ValidPool(m)), f)
<1>1. Waiting(ValidPool(m)).at = "idle" /\ Waiting(ValidPool(m)).pool = ValidPool(m)
  BY DEF Waiting
<1>2. QED
  BY <1>1 DEF CallOk

\* A return: as many of the pool's as were asked for.
LEMMA ReturnKeeps ==
    ASSUME CacheInv, NEW p \in Process, NEW m \in Nat, NEW n \in 0 .. m,
           ReturnSigners(p, n, ValidPool(m)), kind' = kind, file' = file
    PROVE  CacheInv'
<1>1. ReturnedSignersVerify'
  <2>1. SubSeq(ValidPool(m), 1, n) = [i \in 1 .. n |-> Valid(i)]
    BY DEF ValidPool
  <2>2. returned' = returned \cup {[n |-> n, signers |-> [i \in 1 .. n |-> Valid(i)]]}
    BY <2>1 DEF ReturnSigners
  <2>3. QED
    BY <2>2 DEF CacheInv, ReturnedSignersVerify
<1>2. CallOk(kind, Waiting(ValidPool(m)), file')
  BY IdleOk
<1>3. QED
  BY <1>1, <1>2, ChangeKeeps DEF ReturnSigners

\* A call that starts answers from the pool, or reads the file.
LEMMA GetSignersKeeps ==
    ASSUME CacheInv, NEW p \in Process, NEW n \in 1 .. MaxSigners, GetSigners(p, n)
    PROVE  CacheInv'
<1> USE CacheAssumption
<1>1. PICK m \in Nat : procs[p].pool = ValidPool(m)
  BY DEF CacheInv, CallOk
<1>2. Len(procs[p].pool) = m /\ kind' = kind /\ file' = file
  <2>1. Len(ValidPool(m)) = m
    BY DEF ValidPool
  <2>2. QED
    BY <1>1, <2>1 DEF GetSigners
<1>3. CASE m >= n
  BY <1>1, <1>2, <1>3, ReturnKeeps DEF GetSigners
<1>4. CASE ~(m >= n)
  <2> DEFINE c == [at |-> "read", pool |-> procs[p].pool, n |-> n, units |-> << >>]
  <2>1. Change(p, c) /\ returned' = returned
    BY <1>2, <1>4 DEF GetSigners
  <2>2. Fitting(kind, << >>)
    BY DEF Fitting
  <2>3. CallOk(kind, c, file')
    <3>1. c.at = "read" /\ c.pool = procs[p].pool /\ c.n = n /\ c.units = <<>>
      OBVIOUS
    <3>2. c = [at |-> "read", pool |-> c.pool, n |-> c.n, units |-> c.units]
      OBVIOUS
    <3> HIDE DEF c
    <3>3. QED
      BY <1>1, <2>2, <3>1, <3>2 DEF CallOk
  <2>4. ReturnedSignersVerify'
    BY <2>1 DEF CacheInv, ReturnedSignersVerify
  <2> HIDE DEF c
  <2>5. QED
    BY <1>2, <2>1, <2>3, <2>4, ChangeKeeps
<1>5. QED
  BY <1>3, <1>4

\* A unit of a fitting file is read.
LEMMA ReadFileKeeps ==
    ASSUME CacheInv, NEW p \in Process, ReadFile(p)
    PROVE  CacheInv'
<1> DEFINE c == procs[p]
           more == Append(c.units, file[Len(c.units) + 1])
           d == [c EXCEPT !.units = Append(@, file[Len(@) + 1])]
<1>1. /\ c.at = "read" /\ file # Absent /\ Len(c.units) < Len(file) /\ Change(p, d)
      /\ kind' = kind /\ file' = file /\ returned' = returned
  BY DEF ReadFile
<1>2. CallOk(kind, c, file) /\ Fitting(kind, file)
  BY <1>1 DEF CacheInv
<1>3. /\ c = [at |-> "read", pool |-> c.pool, n |-> c.n, units |-> c.units]
      /\ c.n \in Nat /\ Fitting(kind, c.units) /\ \E m \in Nat : c.pool = ValidPool(m)
  BY <1>1, <1>2 DEF CallOk
<1> HIDE DEF c
<1>4. d = [at |-> "read", pool |-> c.pool, n |-> c.n, units |-> more]
  BY <1>3
<1>5. Fitting(kind, more)
  <2>1. PICK U : c.units \in Seq(U)
    BY <1>3 DEF Fitting
  <2>2. PICK V : file \in Seq(V)
    BY <1>2 DEF Fitting
  <2> DEFINE j == Len(c.units) + 1
             u == file[j]
  <2>3. j \in 1 .. Len(file) /\ Len(c.units) \in Nat
    BY <1>1, <2>1, <2>2
  <2>4. Fits(kind, j, u)
    BY <1>2, <2>3 DEF Fitting
  <2>5. more = Append(c.units, u)
    OBVIOUS
  <2> HIDE DEF u, more
  <2>6. c.units \in Seq(U \cup {u}) /\ u \in U \cup {u}
    BY <2>1
  <2>7. more \in Seq(U \cup {u}) /\ Len(more) = j
    BY <2>5, <2>6
  <2>8. more[j] = u /\ \A i \in 1 .. j - 1 : more[i] = c.units[i]
    BY <2>5, <2>6
  <2>9. \A i \in 1 .. j - 1 : Fits(kind, i, c.units[i])
    BY <1>3 DEF Fitting
  <2>10. ASSUME NEW i \in 1 .. Len(more)
         PROVE  Fits(kind, i, more[i])
    <3>1. i = j \/ i \in 1 .. j - 1
      BY <2>3, <2>7
    <3>2. QED
      BY <2>4, <2>8, <2>9, <3>1
  <2>11. QED
    BY <2>7, <2>10 DEF Fitting
<1> HIDE DEF more, d
<1>6. CallOk(kind, d, file')
  <2>1. d.at = "read" /\ d.pool = c.pool /\ d.n = c.n /\ d.units = more
    BY <1>4
  <2>2. d = [at |-> "read", pool |-> d.pool, n |-> d.n, units |-> d.units]
    BY <1>4, <2>1
  <2>3. QED
    BY <1>3, <1>5, <2>1, <2>2 DEF CallOk
<1>7. ReturnedSignersVerify'
  BY <1>1 DEF CacheInv, ReturnedSignersVerify
<1>8. QED
  BY <1>1, <1>6, <1>7, ChangeKeeps

\* What was read and what is computed make a valid pool.
LEMMA LoadKeeps ==
    ASSUME CacheInv, NEW p \in Process, LoadAndGenerate(p)
    PROVE  CacheInv'
<1> DEFINE c == procs[p]
           disk == TryLoad(c.units)
           pool == IF Len(disk) > Len(c.pool) THEN disk ELSE c.pool
<1>1. c.at = "read" /\ CallOk(kind, c, file) /\ kind' = kind /\ file' = file
  BY DEF LoadAndGenerate, CacheInv
<1>2. c.n \in Nat /\ Fitting(kind, c.units) /\ \E m \in Nat : c.pool = ValidPool(m)
  BY <1>1 DEF CallOk
<1>3. \E m \in Nat : disk = ValidPool(m)
  BY <1>2, TryLoadGives DEF CacheInv
<1>4. IF Len(pool) >= c.n THEN ReturnSigners(p, c.n, pool)
      ELSE /\ Change(p, [at |-> "open", n |-> c.n,
                            pool |-> pool \o [i \in 1..c.n - Len(pool) |-> Valid(Len(pool) + i)]])
           /\ returned' = returned
  BY Zenon DEF LoadAndGenerate
<1> HIDE DEF c, disk
<1>5. PICK m \in Nat : pool = ValidPool(m)
  BY <1>2, <1>3
<1> HIDE DEF pool
<1>6. Len(pool) = m
  <2>1. Len(ValidPool(m)) = m
    BY DEF ValidPool
  <2>2. QED
    BY <1>5, <2>1
<1>7. CASE m >= c.n
  <2>1. c.n \in 0 .. m /\ ReturnSigners(p, c.n, ValidPool(m))
    BY <1>2, <1>4, <1>5, <1>6, <1>7
  <2>2. QED
    BY <1>1, <2>1, ReturnKeeps
<1>8. CASE ~(m >= c.n)
  <2> DEFINE n == c.n
             made == [i \in 1..n - m |-> Valid(m + i)]
             d == [at |-> "open", n |-> n, pool |-> ValidPool(m) \o made]
  <2>1. Change(p, d) /\ returned' = returned
    BY <1>4, <1>5, <1>6, <1>8
  <2>2. n \in Nat /\ m < n
    BY <1>2, <1>8
  <2> HIDE DEF n
  <2>3. ValidPool(m) \o made = ValidPool(n)
    <3> DEFINE V == {Valid(i) : i \in 1 .. n}
    <3>1. ValidPool(m) \in Seq(V) /\ Len(ValidPool(m)) = m /\ \A i \in 1 .. m : ValidPool(m)[i] = Valid(i)
      BY <2>2 DEF ValidPool
    <3>2. made \in Seq(V) /\ Len(made) = n - m /\ \A i \in 1 .. n - m : made[i] = Valid(m + i)
      BY <2>2
    <3> HIDE DEF made, V
    <3> DEFINE both == ValidPool(m) \o made
    <3>3. both \in Seq(V) /\ Len(both) = n
      BY <2>2, <3>1, <3>2
    <3>4. \A i \in 1 .. m : both[i] = Valid(i)
      BY <2>2, <3>1, <3>2
    <3>5. \A i \in m + 1 .. n : both[i] = made[i - m] /\ i - m \in 1 .. n - m /\ m + (i - m) = i
      BY <2>2, <3>1, <3>2
    <3> HIDE DEF both
    <3>6. ASSUME NEW i \in 1 .. n
          PROVE  both[i] = Valid(i)
      <4>1. i \in 1 .. m \/ i \in m + 1 .. n
        BY <2>2
      <4>2. CASE i \in m + 1 .. n
        <5>1. both[i] = made[i - m] /\ made[i - m] = Valid(m + (i - m)) /\ m + (i - m) = i
          BY <3>2, <3>5, <4>2
        <5>2. QED
          BY <5>1
      <4>3. QED
        BY <3>4, <4>1, <4>2
    <3>7. both = [i \in 1 .. n |-> both[i]]
      BY <3>3
    <3>8. both = [i \in 1 .. n |-> Valid(i)]
      BY <3>6, <3>7, Zenon
    <3>9. QED
      BY <3>8 DEF both, ValidPool
  <2>4. CallOk(kind, d, file')
    <3>1. d.at = "open" /\ d.n = n /\ d.pool = ValidPool(n)
      BY <2>3
    <3>2. Len(ValidPool(n)) = n
      BY <2>2 DEF ValidPool
    <3> HIDE DEF d
    <3>3. QED
      BY <2>2, <3>1, <3>2 DEF CallOk
  <2>5. ReturnedSignersVerify'
    BY <2>1 DEF CacheInv, ReturnedSignersVerify
  <2> HIDE DEF d
  <2>6. QED
    BY <1>1, <2>1, <2>4, <2>5, ChangeKeeps
<1>9. QED
  BY <1>7, <1>8

\* The file is cut.
LEMMA OpenFileKeeps ==
    ASSUME CacheInv, NEW p \in Process, OpenFile(p)
    PROVE  CacheInv'
<1> DEFINE c == procs[p]
           d == [at |-> "write", n |-> c.n, pool |-> c.pool, offset |-> 0]
<1>1. /\ c.at = "open" /\ file' = << >> /\ Change(p, d) /\ kind' = kind /\ returned' = returned
      /\ CallOk(kind, c, file)
  BY DEF OpenFile, CacheInv
<1>2. Fitting(kind, file')
  BY <1>1 DEF Fitting
<1>3. c.n \in Nat /\ c.n <= Len(c.pool) /\ \E m \in Nat : c.pool = ValidPool(m)
  BY <1>1 DEF CallOk
<1> HIDE DEF c
<1>4. /\ d.at = "write" /\ d.n = c.n /\ d.pool = c.pool /\ d.offset = 0
      /\ d = [at |-> "write", n |-> d.n, pool |-> d.pool, offset |-> d.offset]
  OBVIOUS
<1> HIDE DEF d
<1>5. CallOk(kind, d, file')
  BY <1>2, <1>3, <1>4 DEF CallOk
<1>6. ReturnedSignersVerify'
  BY <1>1 DEF CacheInv, ReturnedSignersVerify
<1>7. QED
  BY <1>1, <1>2, <1>5, <1>6, ChangeKeeps

\* A unit is written where it belongs, and holes where nothing is.
LEMMA WriteFileKeeps ==
    ASSUME CacheInv, NEW p \in Process, WriteFile(p)
    PROVE  CacheInv'
<1> DEFINE c == procs[p]
           all == Serialized(c.pool)
           size == IF Len(file) > c.offset THEN Len(file) ELSE c.offset + 1
           Unit(i) == IF i = c.offset + 1 THEN all[i]
                      ELSE IF i <= Len(file) THEN file[i] ELSE Hole
           d == [c EXCEPT !.offset = @ + 1]
<1>1. /\ c.at = "write" /\ c.offset < Len(all) /\ file' = [i \in 1 .. size |-> Unit(i)]
      /\ Change(p, d) /\ kind' = kind /\ returned' = returned
  BY DEF WriteFile
<1>2. CallOk(kind, c, file) /\ kind \in {"xmss", "sphincs"}
  BY DEF CacheInv
<1>3. PICK m \in Nat : c.pool = ValidPool(m)
  BY <1>2 DEF CallOk
<1>4. /\ c = [at |-> "write", n |-> c.n, pool |-> c.pool, offset |-> c.offset]
      /\ c.offset \in Nat /\ Fitting(kind, file) /\ c.n \in Nat /\ c.n <= Len(c.pool)
  BY <1>1, <1>2 DEF CallOk
<1>5. Fitting(kind, all)
  BY <1>2, <1>3, PoolFits
<1> HIDE DEF c, all
<1>6. Len(file) \in Nat /\ Len(all) \in Nat
  BY <1>4, <1>5 DEF Fitting
<1>7. size \in Nat /\ c.offset + 1 \in 1 .. Len(all)
  BY <1>1, <1>4, <1>6
<1>8. ASSUME NEW i \in 1 .. size
      PROVE  Fits(kind, i, Unit(i))
  <2>1. CASE i = c.offset + 1
    BY <1>5, <1>7, <2>1 DEF Fitting
  <2>2. CASE i # c.offset + 1 /\ i <= Len(file)
    <3>1. i \in 1 .. Len(file)
      BY <1>6, <1>7, <2>2
    <3>2. QED
      BY <1>4, <2>2, <3>1 DEF Fitting
  <2>3. CASE i # c.offset + 1 /\ ~(i <= Len(file))
    <3>1. Fits(kind, i, Hole)
      BY DEF Fits, Hole, SomeSigner
    <3>2. QED
      BY <2>3, <3>1
  <2>4. QED
    BY <2>1, <2>2, <2>3
<1> HIDE DEF size, Unit
<1>9. Fitting(kind, file')
  <2> DEFINE U == {Unit(i) : i \in 1 .. size}
  <2>1. file' \in Seq(U) /\ Len(file') = size /\ \A i \in 1 .. size : file'[i] = Unit(i)
    BY <1>1, <1>7
  <2>2. \A i \in 1 .. Len(file') : Fits(kind, i, file'[i])
    BY <1>8, <2>1
  <2>3. QED
    BY <2>1, <2>2 DEF Fitting
<1>10. d = [at |-> "write", n |-> c.n, pool |-> c.pool, offset |-> c.offset + 1]
  BY <1>4
<1> HIDE DEF d
<1>11. CallOk(kind, d, file')
  <2>1. /\ d.at = "write" /\ d.n = c.n /\ d.pool = c.pool /\ d.offset \in Nat
        /\ d = [at |-> "write", n |-> d.n, pool |-> d.pool, offset |-> d.offset]
    BY <1>4, <1>10
  <2>2. QED
    BY <1>3, <1>4, <1>9, <2>1 DEF CallOk
<1>12. ReturnedSignersVerify'
  BY <1>1 DEF CacheInv, ReturnedSignersVerify
<1>13. QED
  BY <1>1, <1>9, <1>11, <1>12, ChangeKeeps

\* A call that returns once the file is written, or that could not write it.
LEMMA SavedKeeps ==
    ASSUME CacheInv, NEW p \in Process, Saved(p) \/ SaveFails(p)
    PROVE  CacheInv'
<1> DEFINE c == procs[p]
<1>1. /\ c.at \in {"open", "write"} /\ ReturnSigners(p, c.n, c.pool)
      /\ kind' = kind /\ file' = file /\ CallOk(kind, c, file)
  BY DEF Saved, SaveFails, CacheInv
<1>2. PICK m \in Nat : c.pool = ValidPool(m)
  BY <1>1 DEF CallOk
<1>3. c.n \in 0 .. m
  <2>1. Len(ValidPool(m)) = m
    BY DEF ValidPool
  <2>2. QED
    BY <1>1, <1>2, <2>1 DEF CallOk
<1>4. QED
  BY <1>1, <1>2, <1>3, ReturnKeeps

\* A crash leaves the file as it is.
LEMMA CrashKeeps ==
    ASSUME CacheInv, NEW p \in Process, Crash(p)
    PROVE  CacheInv'
<1>1. ValidPool(0) = << >>
  BY DEF ValidPool
<1>2. CallOk(kind, Waiting(<< >>), file')
  BY <1>1, IdleOk
<1>3. Change(p, Waiting(<< >>)) /\ kind' = kind /\ file' = file /\ returned' = returned
  BY DEF Crash, Change
<1>4. ReturnedSignersVerify'
  BY <1>3 DEF CacheInv, ReturnedSignersVerify
<1>5. QED
  BY <1>2, <1>3, <1>4, ChangeKeeps

\* The invariant holds at first.
LEMMA CacheInitHolds ==
    ASSUME CacheInit
    PROVE  CacheInv
<1>1. kind \in {"xmss", "sphincs"}
  BY CacheAssumption DEF CacheInit
<1>2. file = Absent \/ Fitting(kind, file)
  BY <1>1, OldFileFits DEF CacheInit
<1>3. ValidPool(0) = << >>
  BY DEF ValidPool
<1>4. \A p \in Process : CallOk(kind, procs[p], file)
  BY <1>3, IdleOk DEF CacheInit
<1>5. QED
  BY <1>1, <1>2, <1>4 DEF CacheInit, CacheInv, ReturnedSignersVerify

\* The inductive invariant: whatever was written when, by whom and up to where, what is
\* in the file fits its place, so what is read of it is a valid pool.
THEOREM CacheInvariant == CacheSpec => []CacheInv
<1>1. CacheInit => CacheInv
  BY CacheInitHolds
<1>2. CacheInv /\ [CacheNext]_cacheVars => CacheInv'
  <2> SUFFICES ASSUME CacheInv, [CacheNext]_cacheVars
               PROVE  CacheInv'
    OBVIOUS
  <2>1. CASE CacheNext
    <3>1. PICK p \in Process :
            \/ Crash(p)
            \/ \E n \in 1..MaxSigners : GetSigners(p, n)
            \/ ReadFile(p) \/ LoadAndGenerate(p)
            \/ OpenFile(p) \/ WriteFile(p) \/ Saved(p) \/ SaveFails(p)
      BY <2>1 DEF CacheNext
    <3>2. QED
      BY <3>1, CrashKeeps, GetSignersKeeps, ReadFileKeeps, LoadKeeps, OpenFileKeeps,
         WriteFileKeeps, SavedKeeps
  <2>2. CASE UNCHANGED cacheVars
    BY <2>2 DEF cacheVars, CacheInv, CallOk, ReturnedSignersVerify
  <2>3. QED
    BY <2>1, <2>2
<1>3. QED
  BY <1>1, <1>2, PTL DEF CacheSpec

\* A call that asked for n signers gets the first n, in their order, and all verify, whatever
\* became of the file (signers_cache.rs:105, 127, 167, 284).
THEOREM SignersVerify == CacheSpec => []ReturnedSignersVerify
<1>1. CacheInv => ReturnedSignersVerify
  BY DEF CacheInv
<1>2. QED
  BY <1>1, CacheInvariant, PTL

=============================================================================
