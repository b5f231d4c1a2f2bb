------------------------------- MODULE Sphincs -------------------------------
(***************************************************************************)
(* crates/sphincs/src: a few-time signature under a hypertree of one-time  *)
(* ones.  Layer 1 is the top; the secret key keeps the nodes in the middle *)
(* of its one tree.  Every other tree is built when a signature needs it.  *)
(***************************************************************************)
EXTENDS TweakHash
CONSTANTS Heights,               \* the height of a tree of each layer, top first
          FtsHeight, FtsTrees,   \* the few-time trees
          OtsChains, OtsLength, OtsSum,
          MaxDigestAttempts, MaxEncodingAttempts, SphincsMessages,
          OtsDigitsOf(_),        \* the digits in a digest
          IndicesOf(_)           \* in a message digest: the leaf, one index per tree and a last

ASSUME SphincsAssumption ==
  /\ Heights \in Seq(Nat) /\ Heights # << >> /\ OtsLength \in Nat \ {0}
  /\ {FtsHeight, FtsTrees, OtsChains, OtsSum, MaxDigestAttempts, MaxEncodingAttempts} \subseteq Nat

VARIABLES sk,       \* the secret key, or NoSecret
          signatures
sphincsVars == <<sk, signatures>>

NoSecret == [made |-> FALSE]
Master   == <<"master">>
Layers   == 1..Len(Heights)
SplitLevel == (Heights[1] + 1) \div 2

Th(pp, tweak, payload) == TweakHashOf(pp, tweak, payload)
SphincsTweak(type, lay, tau, p, j) == <<type, lay, tau, p, j>>

\* The tree of a layer, and its leaf, that a leaf of the whole is under.
Suffix(lay)      == TotalOf(SubSeq(Heights, lay, Len(Heights)))
TreeOf(idx, lay) == idx \div 2^Suffix(lay)
LeafOf(idx, lay) == (idx \div 2^Suffix(lay + 1)) % 2^Heights[lay]
Pos(lay, tau, e) == [lay |-> lay, tau |-> tau, e |-> e]
PosOf(idx, lay)  == Pos(lay, TreeOf(idx, lay), LeafOf(idx, lay))

MessageDigest(pp, root, randomizer, m) ==
  IndicesOf(Th(pp, SphincsTweak("MSG", 0, 0, 0, 0), <<randomizer, root, m>>))

-----------------------------------------------------------------------------
(* One-time signatures. *)

OtsSecret(pp, master, pos, i) == Th(pp, SphincsTweak("PRF", pos.lay, pos.tau, i, pos.e), <<master>>)

Chain(pp, pos, i, start, steps, value) ==
  Iterate(pp, [k \in 1..steps |-> SphincsTweak("CHAIN", pos.lay, pos.tau, OtsLength * i + start + k - 1, pos.e)], value)

OtsLeafHash(pp, pos, tips) == Th(pp, SphincsTweak("LEAF", pos.lay, pos.tau, 0, pos.e), tips)

Encode(pp, pos, m, c) ==
  CodewordOf(OtsDigitsOf(Th(pp, SphincsTweak("ENC", pos.lay, pos.tau, 0, pos.e), <<m, <<c>>>>)), OtsSum)

\* A counter that encodes, or -1, and the signature under it.
OtsSign(pp, master, pos, m) ==
  LET c == FirstOf({k \in 0..MaxEncodingAttempts - 1 : Encode(pp, pos, m, k) # << >>})
      x == Encode(pp, pos, m, c)
  IN  IF c = -1 THEN [counter |-> -1]
      ELSE [counter |-> c,
            tips |-> [i \in 1..OtsChains |-> Chain(pp, pos, i, 0, x[i], OtsSecret(pp, master, pos, i))]]

\* The leaf a signature comes from; << >> when the counter does not encode.
OtsLeaf(pp, pos, m, ots) ==
  LET x == Encode(pp, pos, m, ots.counter)
  IN  IF x = << >> THEN << >>
      ELSE OtsLeafHash(pp, pos, [i \in 1..OtsChains |->
                                   Chain(pp, pos, i, x[i], OtsLength - 1 - x[i], ots.tips[i])])

OtsPublicLeaf(pp, master, pos) ==
  OtsLeafHash(pp, pos, [i \in 1..OtsChains |->
                          Chain(pp, pos, i, 0, OtsLength - 1, OtsSecret(pp, master, pos, i))])

-----------------------------------------------------------------------------
(* Few-time signatures: of every tree the leaf that the message chose. *)

FtsSecret(pp, master, idx, kappa, j) == Th(pp, SphincsTweak("FTS_PRF", kappa, idx, 0, j), <<master>>)
FtsLeaf(pp, idx, kappa, j, secret)   == Th(pp, SphincsTweak("FTS_LEAF", kappa, idx, 0, j), <<secret>>)
FtsNodeTweak(idx, kappa, level, j)   == SphincsTweak("FTS_NODE", kappa, idx, level, j)
FtsNode(pp, idx, kappa, level, j, left, right) == Th(pp, FtsNodeTweak(idx, kappa, level, j), <<left, right>>)
FtsKeyOfRoots(pp, idx, roots) == Th(pp, SphincsTweak("FTS_ROOTS", 0, idx, 0, 0), roots)

FtsOpen(pp, master, idx, u) ==
  LET leaf(kappa, j) == FtsLeaf(pp, idx, kappa, j, FtsSecret(pp, master, idx, kappa, j))
      nodes(kappa) == LET at[level \in 0..FtsHeight] ==
                            [j \in 0..2^(FtsHeight - level) - 1 |->
                               IF level = 0 THEN leaf(kappa, j)
                               ELSE FtsNode(pp, idx, kappa, level, j, at[level - 1][2 * j], at[level - 1][2 * j + 1])]
                      IN  at
      sibling(j) == IF j % 2 = 0 THEN j + 1 ELSE j - 1
  IN  [key |-> FtsKeyOfRoots(pp, idx, [kappa \in 1..FtsTrees |-> nodes(kappa)[FtsHeight][0]]),
       opening |-> [kappa \in 1..FtsTrees |->
                      [secret |-> FtsSecret(pp, master, idx, kappa, u[kappa]),
                       path |-> [level \in 1..FtsHeight |->
                                   nodes(kappa)[level - 1][sibling(u[kappa] \div 2^(level - 1))]]]]]

FtsRecover(pp, idx, u, opening) ==
  FtsKeyOfRoots(pp, idx, [kappa \in 1..FtsTrees |->
    FoldPath(pp, [level \in 1..FtsHeight |-> FtsNodeTweak(idx, kappa, level, u[kappa] \div 2^level)],
             FtsLeaf(pp, idx, kappa, u[kappa], opening[kappa].secret), u[kappa], opening[kappa].path)])

-----------------------------------------------------------------------------
(* The hypertree. *)

NodeTweak(lay, tau, level, j) == SphincsTweak("NODE", lay, tau, level, j)
Node(pp, lay, tau, level, j, left, right) == Th(pp, NodeTweak(lay, tau, level, j), <<left, right>>)

\* The layers above a row of nodes, of which the first has the index first.
SphincsBuildUp(pp, lay, tau, bottom, from, to, first) ==
  LET layers[level \in from..to] ==
        IF level = from THEN bottom
        ELSE LET base == first \div 2^(level - from)
             IN  [j \in 1..Len(bottom) \div 2^(level - from) |->
                    Node(pp, lay, tau, level, base + j - 1, layers[level - 1][2 * j - 1], layers[level - 1][2 * j])]
  IN  layers

LeavesOf(pp, master, lay, tau, first, count) ==
  [i \in 1..count |-> OtsPublicLeaf(pp, master, Pos(lay, tau, first + i - 1))]

SphincsKeyGen ==
  /\ sk = NoSecret
  /\ LET pp     == <<"param of", Master>>
         layers == SphincsBuildUp(pp, 1, 0, LeavesOf(pp, Master, 1, 0, 0, 2^Heights[1]), 0, Heights[1], 0)
     IN  sk' = [made |-> TRUE, param |-> pp, master |-> Master, root |-> layers[Heights[1]][1],
                cache |-> layers[SplitLevel]]
  /\ UNCHANGED signatures

Sibling(e, level) == LET n == e \div 2^level IN IF n % 2 = 0 THEN n + 1 ELSE n - 1

TreePathAndRoot(lay, tau, e) ==
  LET layers == SphincsBuildUp(sk.param, lay, tau, LeavesOf(sk.param, sk.master, lay, tau, 0, 2^Heights[lay]),
                               0, Heights[lay], 0)
  IN  [path |-> [level \in 1..Heights[lay] |-> layers[level - 1][Sibling(e, level - 1) + 1]],
       root |-> layers[Heights[lay]][1]]

\* As CachedPathAndRoot, with the rebuilt subtree numbered from 0.
CachedPathFromZero(e) ==
  LET first == (e \div 2^SplitLevel) * 2^SplitLevel
      below == SphincsBuildUp(sk.param, 1, 0, LeavesOf(sk.param, sk.master, 1, 0, first, 2^SplitLevel), 0, SplitLevel, 0)
      above == SphincsBuildUp(sk.param, 1, 0, sk.cache, SplitLevel, Heights[1], 0)
  IN  [path |-> [level \in 1..Heights[1] |->
                   IF level - 1 < SplitLevel
                   THEN below[level - 1][Sibling(e, level - 1) - first \div 2^(level - 1) + 1]
                   ELSE above[level - 1][Sibling(e, level - 1) + 1]],
       root |-> above[Heights[1]][1]]

\* In the top tree only the subtree of the leaf is built, below the nodes that
\* the key has kept.
CachedPathAndRoot(e) ==
  LET first == (e \div 2^SplitLevel) * 2^SplitLevel
      below == SphincsBuildUp(sk.param, 1, 0, LeavesOf(sk.param, sk.master, 1, 0, first, 2^SplitLevel),
                              0, SplitLevel, first)
      above == SphincsBuildUp(sk.param, 1, 0, sk.cache, SplitLevel, Heights[1], 0)
  IN  [path |-> [level \in 1..Heights[1] |->
                   IF level - 1 < SplitLevel
                   THEN below[level - 1][Sibling(e, level - 1) - first \div 2^(level - 1) + 1]
                   ELSE above[level - 1][Sibling(e, level - 1) + 1]],
       root |-> above[Heights[1]][1]]

\* A layer signs the root of the one below it.
SignLayer(idx, lay, below) ==
  LET pos  == PosOf(idx, lay)
      ots  == OtsSign(sk.param, sk.master, pos, below.message)
      tree == IF lay = 1 THEN CachedPathAndRoot(pos.e) ELSE TreePathAndRoot(lay, pos.tau, pos.e)
  IN  IF ~below.ok \/ ots.counter = -1 THEN [ok |-> FALSE]
      ELSE [ok |-> TRUE, ots |-> ots, path |-> tree.path, message |-> tree.root]

\* From the bottom layer up; each fills in its part of the signature.
HypertreeSign(idx, ftsKey) ==
  LET layer[lay \in 1..Len(Heights) + 1] ==
        IF lay > Len(Heights) THEN [ok |-> TRUE, message |-> ftsKey] ELSE SignLayer(idx, lay, layer[lay + 1])
  IN  IF layer[1].ok THEN [ok |-> TRUE, ots |-> [lay \in Layers |-> layer[lay].ots],
                                        paths |-> [lay \in Layers |-> layer[lay].path]]
      ELSE [ok |-> FALSE]

\* Nothing is signed when no randomizer or no counter is found.
SphincsSign(m) ==
  /\ sk # NoSecret
  /\ LET randomizer(k) == Th(sk.param, SphincsTweak("RANDOMIZER", 0, 0, k, 0), <<sk.master, m>>)
         digest(k) == MessageDigest(sk.param, sk.root, randomizer(k), m)
         trial == FirstOf({k \in 0..MaxDigestAttempts - 1 : digest(k).u[FtsTrees + 1] = 0})
     IN  /\ trial # -1
         /\ LET d    == digest(trial)
                fts  == FtsOpen(sk.param, sk.master, d.idx, d.u)
                tree == HypertreeSign(d.idx, fts.key)
            IN  /\ tree.ok
                /\ signatures' = signatures \cup
                     {[message |-> m, randomizer |-> randomizer(trial), fts |-> fts.opening,
                       ots |-> tree.ots, paths |-> tree.paths]}
  /\ UNCHANGED sk

\* The root a layer's signature leads to; << >> when a counter did not encode.
RootOfLayer(pp, idx, lay, below, s) ==
  LET pos  == PosOf(idx, lay)
      leaf == IF below = << >> THEN << >> ELSE OtsLeaf(pp, pos, below, s.ots[lay])
  IN  IF leaf = << >> THEN << >>
      ELSE FoldPath(pp, [level \in 1..Heights[lay] |-> NodeTweak(lay, pos.tau, level, pos.e \div 2^level)],
                    leaf, pos.e, s.paths[lay])

SphincsVerify(root, pp, m, s) ==
  LET d == MessageDigest(pp, root, s.randomizer, m)
      walk[lay \in 1..Len(Heights) + 1] ==
        IF lay > Len(Heights) THEN FtsRecover(pp, d.idx, d.u, s.fts)
        ELSE RootOfLayer(pp, d.idx, lay, walk[lay + 1], s)
  IN  IF d.u[FtsTrees + 1] # 0 THEN "inadmissible digest"
      ELSE IF walk[1] = << >> THEN "inadmissible encoding"
      ELSE IF walk[1] = root THEN "ok" ELSE "root mismatch"

-----------------------------------------------------------------------------
SphincsInit == sk = NoSecret /\ signatures = {}
SphincsNext == SphincsKeyGen \/ \E m \in SphincsMessages : SphincsSign(m)

-----------------------------------------------------------------------------
(* A signature verifies: the path from the kept nodes is the path of the   *)
(* whole tree, and every layer signs the root that the one below it has    *)
(* (sphincs.rs:409 asserts the last one in debug builds only).             *)
SphincsVerifies ==
  \A s \in signatures : SphincsVerify(sk.root, sk.param, s.message, s) = "ok"

\* The digests of the key and of what was signed, down to the secrets.
SphincsReturned ==
  {sk.root} \cup UNION {
    (UNION {ToSet(s.paths[lay]) \cup ToSet(s.ots[lay].tips) : lay \in Layers})
    \cup (UNION {ToSet(s.fts[k].path) \cup {s.fts[k].secret} : k \in 1..FtsTrees}) : s \in signatures}
SphincsHashed ==
  IF sk = NoSecret THEN {} ELSE HashedIn(SphincsReturned, TotalOf(Heights) + OtsLength + FtsHeight + 1)
=============================================================================
