---------------------------- MODULE MerkleProofs ----------------------------
(***************************************************************************)
(* Proofs about Merkle, for a tree of any height, any rows and any queries.*)
(*                                                                         *)
(* An accepted opening holds committed rows (OpeningsAreCommitted). If the *)
(* digests rebuilt at one level are the tree's, so are those of the level  *)
(* below, since a digest determines what was hashed; at the last level the *)
(* digest is compared with the root.                                       *)
(*                                                                         *)
(* What the prover sends is accepted, nothing else is for the same positions,*)
(* and the expanded paths lead to the root (HonestPhasesOpen,              *)
(* PhasesHaveOneForm, PathsLeadToTheRoot). These need FullInv, which says  *)
(* where in the phase each level's siblings are and what was rebuilt so far.*)
(***************************************************************************)
EXTENDS Merkle, Induction, FiniteSetTheorems, FunctionTheorems, TLAPS

\* The nodes of a level.
Level(l) == 0 .. 2 ^ (Height - l) - 1

\* The levels of the tree that are built are what they should be.
TreeInv ==
    /\ \E S : tree \in Seq(S)
    /\ Len(tree) \in 1 .. Height + 1
    /\ stage # "commit" => Len(tree) = Height + 1
    /\ tree[1] = [p \in Leaves |-> HashWords(Image(rows[p]))]
    /\ \A l \in 0 .. Len(tree) - 2 : \A p \in Level(l + 1) :
        tree[l + 2][p] = HashPair(tree[l + 1][2 * p], tree[l + 1][2 * p + 1])

\* The row that is opened at q is the one that was committed.
Committed(q) == Image(RowAt(q)) = Image(rows[q])

\* The verifier's nodes are nodes of its level, and if they are the tree's then
\* every row is committed.
OpenInv ==
    stage = "open" =>
        /\ level \in 0 .. Height
        /\ DOMAIN nodes # {} /\ DOMAIN nodes \subseteq Level(level)
        /\ (\A p \in DOMAIN nodes : nodes[p] = tree[level + 1][p]) =>
              \A q \in ToSet(asked) : Committed(q)

\* The first invariant: what the tree holds, and what acceptance will imply.
IInv ==
    /\ asked \in QueryLists /\ level \in 0 .. Height
    /\ stage \in {"leaves", "commit"} => level = 0
    /\ stage = "send" => level = 0
    /\ TreeInv
    /\ OpenInv
    /\ stage = "opened" => \A q \in ToSet(asked) : Committed(q)

-----------------------------------------------------------------------------
(***************************************************************************)
(* The widths of the levels.                                               *)
(***************************************************************************)

\* Levels are halved on the way to the root, which is alone on its level.
LEMMA Levels ==
    /\ Leaves = Level(0) /\ Level(Height) = {0}
    /\ \A l \in 0 .. Height - 1 : \A p \in Level(l + 1) :
        2 * p \in Level(l) /\ 2 * p + 1 \in Level(l)
    /\ \A l \in 0 .. Height - 1 : \A p \in Level(l) :
        /\ p \div 2 \in Level(l + 1)
        /\ p = 2 * (p \div 2) \/ p = 2 * (p \div 2) + 1
<1> USE MerkleAssumption
<1>1. Leaves = Level(0)
  BY DEF Leaves, Level
<1>2. Level(Height) = {0}
  <2>1. 2 ^ 0 = 1 /\ Height - Height = 0
    OBVIOUS
  <2> QED BY <2>1 DEF Level
<1>3. ASSUME NEW l \in 0 .. Height - 1
      PROVE  /\ \A p \in Level(l + 1) : 2 * p \in Level(l) /\ 2 * p + 1 \in Level(l)
             /\ \A p \in Level(l) : /\ p \div 2 \in Level(l + 1)
                                    /\ p = 2 * (p \div 2) \/ p = 2 * (p \div 2) + 1
  <2> DEFINE n == Height - (l + 1)
             w == 2 ^ n
  <2>1. n \in Nat /\ Height - l = n + 1
    OBVIOUS
  <2>2. 2 ^ (n + 1) = 2 * w /\ w \in Nat
    BY <2>1, Doubling
  <2>3. Level(l + 1) = 0 .. w - 1
    BY DEF Level
  <2>4. Level(l) = 0 .. 2 * w - 1
    BY <2>1, <2>2 DEF Level
  <2> HIDE DEF w
  <2> QED BY <2>2, <2>3, <2>4
<1> QED BY <1>1, <1>2, <1>3

-----------------------------------------------------------------------------
(***************************************************************************)
(* The steps.                                                              *)
(***************************************************************************)

\* A sequence of anything is extended by one element.
LEMMA Appended ==
    ASSUME NEW s, NEW e, \E S : s \in Seq(S)
    PROVE  /\ \E S : Append(s, e) \in Seq(S)
           /\ Len(s) \in Nat /\ Len(Append(s, e)) = Len(s) + 1
           /\ \A i \in 1 .. Len(s) : Append(s, e)[i] = s[i]
           /\ Append(s, e)[Len(s) + 1] = e
<1>1. PICK S : s \in Seq(S)
  OBVIOUS
<1>2. s \in Seq(S \cup {e}) /\ e \in S \cup {e}
  BY <1>1
<1>3. Append(s, e) \in Seq(S \cup {e})
  BY <1>2
<1> QED BY <1>2, <1>3

\* The leaves' digests are a tree of one level, and nothing was asked.
LEMMA InitHolds ==
    ASSUME Init
    PROVE  IInv
<1> DEFINE leaves == [p \in Leaves |-> HashWords(Image(rows[p]))]
<1>1. tree = <<leaves>>
  BY DEF Init
<1> HIDE DEF leaves
<1>2. tree \in Seq({leaves}) /\ Len(tree) = 1 /\ tree[1] = leaves
  BY <1>1
<1>3. TreeInv
  <2>1. Height \in Nat
    BY MerkleAssumption
  <2>2. stage = "commit"
    BY DEF Init
  <2> QED BY <1>2, <2>1, <2>2 DEF TreeInv, leaves
<1>4. OpenInv
  BY DEF OpenInv, Init
<1> QED BY <1>3, <1>4, MerkleAssumption DEF IInv, Init

\* A step that leaves the tree and what the verifier sees alone.
LEMMA TreeKept ==
    ASSUME TreeInv, UNCHANGED commitment, stage # "commit", stage' # "commit"
    PROVE  TreeInv'
<1>1. rows' = rows /\ tree' = tree
  BY DEF commitment
<1> QED BY <1>1 DEF TreeInv, HashWords, Image, HashPair, Level, Leaves

\* A level hashed from the one below it is what it should be.
LEMMA HashLevelKeeps ==
    ASSUME IInv, HashLevel
    PROVE  IInv'
<1> DEFINE n == Len(tree)
           below == tree[n]
           new == [p \in 0 .. 2 ^ (Height - n) - 1 |->
                     HashPair(below[2 * p], below[2 * p + 1])]
<1>1. /\ tree' = Append(tree, new) /\ rows' = rows /\ stage' = stage
      /\ stage = "commit" /\ n <= Height /\ level' = level /\ asked' = asked
  BY DEF HashLevel, verifying
<1>2. n \in 1 .. Height
  BY <1>1, MerkleAssumption DEF IInv, TreeInv
<1>3. \A p \in Level(n) : new[p] = HashPair(tree[n][2 * p], tree[n][2 * p + 1])
  BY DEF Level
<1> HIDE DEF new
<1>4. \E S : tree \in Seq(S)
  BY DEF IInv, TreeInv
<1>5. /\ \E S : tree' \in Seq(S)
      /\ Len(tree') = n + 1 /\ tree'[n + 1] = new
      /\ \A i \in 1 .. n : tree'[i] = tree[i]
  BY <1>1, <1>4, Appended, ZenonT(60)
<1>6. ASSUME NEW l \in 0 .. n - 1, NEW p \in Level(l + 1)
      PROVE  tree'[l + 2][p] = HashPair(tree'[l + 1][2 * p], tree'[l + 1][2 * p + 1])
  <2>1. CASE l = n - 1
    <3>1. l + 2 = n + 1 /\ l + 1 = n
      BY <1>2, <2>1
    <3> QED BY <1>2, <1>3, <1>5, <3>1
  <2>2. CASE l # n - 1
    <3>1. l \in 0 .. n - 2 /\ l + 1 \in 1 .. n /\ l + 2 \in 1 .. n
      BY <1>2, <2>2
    <3>2. tree'[l + 1] = tree[l + 1] /\ tree'[l + 2] = tree[l + 2]
      BY <1>5, <3>1
    <3>3. tree[l + 2][p] = HashPair(tree[l + 1][2 * p], tree[l + 1][2 * p + 1])
      BY <3>1 DEF IInv, TreeInv
    <3> QED BY <3>2, <3>3
  <2> QED BY <2>1, <2>2
<1>7. tree'[1] = [p \in Leaves |-> HashWords(Image(rows'[p]))]
  BY <1>1, <1>2, <1>5 DEF IInv, TreeInv
<1>8. Len(tree') \in 1 .. Height + 1 /\ Len(tree') - 2 = n - 1
  BY <1>2, <1>5, MerkleAssumption
<1>9. TreeInv'
  <2>1. (\A l \in 0 .. Len(tree) - 2 : \A p \in Level(l + 1) :
          tree[l + 2][p] = HashPair(tree[l + 1][2 * p], tree[l + 1][2 * p + 1]))'
    BY <1>6, <1>8
  <2> QED BY <1>1, <1>5, <1>7, <1>8, <2>1 DEF TreeInv
<1>10. OpenInv'
  BY <1>1 DEF OpenInv
<1> QED BY <1>1, <1>9, <1>10 DEF IInv

\* A rejection, or a step of the prover: nothing is open.
LEMMA OtherKeeps ==
    ASSUME IInv, UNCHANGED commitment, asked' \in QueryLists, level' \in 0 .. Height,
           stage # "commit" \/ Len(tree) = Height + 1,
           stage' \in {"prune", "send", "leaves", "rejected"},
           stage' \in {"send", "leaves"} => level' = 0
    PROVE  IInv'
<1>1. rows' = rows /\ tree' = tree
  BY DEF commitment
<1>2. TreeInv'
  BY <1>1 DEF IInv, TreeInv, HashWords, Image, HashPair, Level, Leaves
<1>3. OpenInv'
  BY DEF OpenInv
<1> QED BY <1>2, <1>3 DEF IInv

\* Hashing the received rows: if these digests are the tree's, the rows are committed.
LEMMA OpenLeavesKeeps ==
    ASSUME IInv, OpenLeaves
    PROVE  IInv'
<1>1. CASE Reject
  <2>1. /\ UNCHANGED commitment /\ asked' = asked /\ level' = level
        /\ stage' = "rejected" /\ stage = "leaves"
    BY <1>1 DEF Reject, verifying, OpenLeaves
  <2> QED BY <2>1, OtherKeeps DEF IInv
<1>2. CASE ~Reject
  <2> DEFINE leaves == [p \in ToSet(asked) |-> HashWords(Image(RowAt(p)))]
  <2>1. /\ nodes' = leaves /\ stage' = "open" /\ stage = "leaves"
        /\ UNCHANGED commitment /\ rows' = rows /\ tree' = tree
        /\ level' = level /\ asked' = asked /\ received' = received
    BY <1>2 DEF OpenLeaves, commitment
  <2>2. level = 0 /\ asked \in QueryLists
    BY <2>1 DEF IInv
  <2>3. ToSet(asked) # {} /\ ToSet(asked) \subseteq Level(0)
    <3>1. asked \in Seq(Leaves) /\ asked # <<>>
      BY <2>2, MerkleAssumption
    <3>2. 1 \in DOMAIN asked /\ \A i \in DOMAIN asked : asked[i] \in Leaves
      BY <3>1
    <3> QED BY <3>2, Levels DEF ToSet
  <2>4. ASSUME NEW q \in ToSet(asked), leaves[q] = tree[1][q]
        PROVE  Committed(q)
    <3>1. HashWords(Image(RowAt(q))) = HashWords(Image(rows[q]))
      BY <2>3, <2>4, Levels DEF IInv, TreeInv
    <3> QED BY <3>1 DEF HashWords, Committed
  <2>5. TreeInv'
    BY <2>1, TreeKept DEF IInv
  <2>6. \A q : Committed(q)' <=> Committed(q)
    <3>1. SortedUnique(asked)' = SortedUnique(asked)
      BY <2>1
    <3>2. \A q : RowAt(q)' = RowAt(q)
      BY <2>1, <3>1 DEF RowAt
    <3>3. QED
      BY <2>1, <3>2 DEF Committed
  <2>7. DOMAIN leaves = ToSet(asked)
    OBVIOUS
  <2> HIDE DEF leaves
  <2>8. ToSet(asked') = ToSet(asked)
    BY <2>1
  <2>9. OpenInv'
    <3>1. level' = 0 /\ level' \in 0 .. Height
      BY <2>1, <2>2, MerkleAssumption
    <3>2. DOMAIN nodes' # {} /\ DOMAIN nodes' \subseteq Level(0)
      BY <2>1, <2>3, <2>7
    <3>3. ASSUME \A p \in DOMAIN nodes' : nodes'[p] = tree'[level' + 1][p],
                 NEW q \in ToSet(asked)
          PROVE  Committed(q)'
      <4>1. leaves[q] = tree[1][q]
        BY <2>1, <2>7, <3>1, <3>3
      <4> QED BY <2>4, <2>6, <4>1
    <3>4. (Level(level))' = Level(0)
      BY <3>1 DEF Level
    <3> QED BY <2>8, <3>1, <3>2, <3>3, <3>4 DEF OpenInv
  <2> QED BY <2>1, <2>2, <2>5, <2>9, MerkleAssumption DEF IInv
<1> QED BY <1>1, <1>2

\* If the parents are the tree's, so are their children on the paths.
LEMMA OpenLevelKeeps ==
    ASSUME IInv, OpenLevel
    PROVE  IInv'
<1>1. CASE Reject
  <2>1. /\ UNCHANGED commitment /\ asked' = asked /\ level' = level
        /\ stage' = "rejected" /\ stage = "open"
    BY <1>1 DEF Reject, verifying, OpenLevel
  <2> QED BY <2>1, OtherKeeps DEF IInv
<1>2. CASE ~Reject
  <2> DEFINE folded == [p \in Parents(DOMAIN nodes) |->
                          HashPair(Completed[2 * p], Completed[2 * p + 1])]
  <2>1. /\ nodes' = folded /\ level' = level + 1
        /\ UNCHANGED commitment /\ rows' = rows /\ tree' = tree
        /\ stage' = stage /\ stage = "open" /\ level < Height
        /\ asked' = asked /\ received' = received
    BY <1>2 DEF OpenLevel, commitment
  <2>2. /\ level \in 0 .. Height - 1 /\ Height \in Nat
        /\ DOMAIN nodes # {} /\ DOMAIN nodes \subseteq Level(level)
    BY <2>1, MerkleAssumption DEF IInv, OpenInv
  <2>3. Len(tree) = Height + 1
    BY <2>1 DEF IInv, TreeInv
  <2>4. Parents(DOMAIN nodes) # {} /\ Parents(DOMAIN nodes) \subseteq Level(level + 1)
    BY <2>2, Levels DEF Parents
  <2>5. DOMAIN folded = Parents(DOMAIN nodes)
    OBVIOUS
  <2>6. \A q : Committed(q)' <=> Committed(q)
    BY <2>1 DEF Committed, RowAt, Image, SortedUnique, Ascending, ToSet
  <2>7. ASSUME \A y \in Parents(DOMAIN nodes) : folded[y] = tree[level + 2][y],
               NEW p \in DOMAIN nodes
        PROVE  nodes[p] = tree[level + 1][p]
    <3> DEFINE y == p \div 2
    <3>1. y \in Parents(DOMAIN nodes) /\ y \in Level(level + 1)
      BY <2>4 DEF Parents
    <3>2. p = 2 * y \/ p = 2 * y + 1
      BY <2>2, Levels
    <3> HIDE DEF y
    <3>3. tree[level + 2][y] =
            HashPair(tree[level + 1][2 * y], tree[level + 1][2 * y + 1])
      BY <2>2, <2>3, <3>1 DEF IInv, TreeInv
    <3>4. folded[y] = HashPair(Completed[2 * y], Completed[2 * y + 1])
      BY <3>1
    <3>5. folded[y] = tree[level + 2][y]
      BY <2>7, <3>1
    <3>6. /\ Completed[2 * y] = tree[level + 1][2 * y]
          /\ Completed[2 * y + 1] = tree[level + 1][2 * y + 1]
      BY <3>3, <3>4, <3>5 DEF HashPair
    <3>7. Completed[p] = nodes[p]
      BY DEF Completed
    <3>8. CASE p = 2 * y
      BY <3>6, <3>7, <3>8
    <3>9. CASE p = 2 * y + 1
      BY <3>6, <3>7, <3>9
    <3> QED BY <3>2, <3>8, <3>9
  <2> HIDE DEF folded
  <2>8. TreeInv'
    BY <2>1, TreeKept DEF IInv
  <2>9. level' \in 0 .. Height /\ level' + 1 = level + 2
    BY <2>1, <2>2
  <2>10. OpenInv'
    <3>1. DOMAIN nodes' # {} /\ DOMAIN nodes' \subseteq Level(level + 1)
      BY <2>1, <2>4, <2>5
    <3>2. ASSUME \A p \in DOMAIN nodes' : nodes'[p] = tree'[level' + 1][p],
                 NEW q \in ToSet(asked)
          PROVE  Committed(q)'
      <4>1. \A y \in Parents(DOMAIN nodes) : folded[y] = tree[level + 2][y]
        BY <2>1, <2>5, <2>9, <3>2
      <4>2. \A p \in DOMAIN nodes : nodes[p] = tree[level + 1][p]
        BY <2>7, <4>1
      <4>3. Committed(q)
        BY <2>1, <4>2 DEF IInv, OpenInv
      <4> QED BY <2>6, <4>3
    <3>3. (Level(level))' = Level(level + 1) /\ ToSet(asked') = ToSet(asked)
      BY <2>1 DEF Level
    <3> QED BY <2>9, <3>1, <3>2, <3>3 DEF OpenInv
  <2> QED BY <2>1, <2>8, <2>9, <2>10 DEF IInv
<1> QED BY <1>1, <1>2

\* Only the root is left at the last level, and it is compared.
LEMMA EndOpenKeeps ==
    ASSUME IInv, EndOpen
    PROVE  IInv'
<1>1. CASE Reject
  <2>1. /\ UNCHANGED commitment /\ asked' = asked /\ level' = level
        /\ stage' = "rejected" /\ stage = "open"
    BY <1>1 DEF Reject, verifying, EndOpen
  <2> QED BY <2>1, OtherKeeps DEF IInv
<1>2. CASE ~Reject
  <2>1. /\ nodes[0] = Root /\ stage' = "opened" /\ stage = "open" /\ level = Height
        /\ UNCHANGED commitment /\ rows' = rows /\ tree' = tree
        /\ level' = level /\ asked' = asked /\ received' = received
    BY <1>2 DEF EndOpen, Authentic, commitment, verifying
  <2>2. DOMAIN nodes = {0}
    BY <2>1, Levels DEF IInv, OpenInv
  <2>3. \A q \in ToSet(asked) : Committed(q)
    BY <2>1, <2>2 DEF IInv, OpenInv, Root
  <2>4. \A q : Committed(q)' <=> Committed(q)
    BY <2>1 DEF Committed, RowAt, Image, SortedUnique, Ascending, ToSet
  <2>5. TreeInv'
    BY <2>1, TreeKept DEF IInv
  <2>6. OpenInv'
    BY <2>1 DEF OpenInv
  <2>7. ToSet(asked') = ToSet(asked)
    BY <2>1
  <2> QED BY <2>1, <2>3, <2>4, <2>5, <2>6, <2>7 DEF IInv
<1> QED BY <1>1, <1>2

\* The invariant reads nothing but the variables.
LEMMA StutterKeeps ==
    ASSUME IInv, UNCHANGED vars
    PROVE  IInv'
<1>1. /\ rows' = rows /\ tree' = tree /\ stage' = stage /\ level' = level
      /\ asked' = asked /\ nodes' = nodes /\ received' = received
  BY DEF vars, commitment, verifying
<1>2. \A q : Committed(q)' <=> Committed(q)
  BY <1>1 DEF Committed, RowAt, Image, SortedUnique, Ascending, ToSet
<1>3. TreeInv'
  BY <1>1 DEF IInv, TreeInv, HashWords, Image, HashPair, Level, Leaves
<1>4. ToSet(asked') = ToSet(asked) /\ (Level(level))' = Level(level)
  BY <1>1 DEF Level
<1>5. OpenInv'
  BY <1>1, <1>2, <1>4 DEF IInv, OpenInv
<1> QED BY <1>1, <1>2, <1>3, <1>4, <1>5 DEF IInv

\* The strengthening is kept by every step.
THEOREM MerkleInvariant == Spec => []IInv
<1>1. Init => IInv
  BY InitHolds
<1>2. ASSUME IInv, [Next]_vars
      PROVE  IInv'
  <2>1. CASE HashLevel
    BY <1>2, <2>1, HashLevelKeeps
  <2>2. CASE StartPrune
    <3>1. /\ UNCHANGED commitment /\ asked' = asked /\ level' = level
          /\ stage' = "prune" /\ Len(tree) = Height + 1
      BY <2>2 DEF StartPrune, verifying
    <3> QED BY <1>2, <3>1, OtherKeeps DEF IInv
  <2>3. CASE PruneLevel
    <3>1. /\ UNCHANGED commitment /\ asked' = asked /\ level' = level + 1
          /\ stage' = "prune" /\ stage = "prune" /\ level < Height
      BY <2>3 DEF PruneLevel, verifying
    <3>2. level' \in 0 .. Height
      BY <1>2, <3>1, MerkleAssumption DEF IInv
    <3> QED BY <1>2, <3>1, <3>2, OtherKeeps DEF IInv
  <2>4. CASE EndPrune
    <3>1. /\ UNCHANGED commitment /\ asked' = asked /\ level' = 0
          /\ stage' = "send" /\ stage = "prune"
      BY <2>4 DEF EndPrune, verifying
    <3>2. level' \in 0 .. Height
      BY <3>1, MerkleAssumption
    <3> QED BY <1>2, <3>1, <3>2, OtherKeeps DEF IInv
  <2>5. CASE Receive
    <3>1. /\ UNCHANGED commitment /\ asked' \in QueryLists /\ level' = level
          /\ stage' = "leaves" /\ stage = "send"
      BY <2>5 DEF Receive
    <3> QED BY <1>2, <3>1, OtherKeeps DEF IInv
  <2>6. CASE OpenLeaves
    BY <1>2, <2>6, OpenLeavesKeeps
  <2>7. CASE OpenLevel
    BY <1>2, <2>7, OpenLevelKeeps
  <2>8. CASE EndOpen
    BY <1>2, <2>8, EndOpenKeeps
  <2>9. CASE UNCHANGED vars
    BY <1>2, <2>9, StutterKeeps
  <2> QED BY <1>2, <2>1, <2>2, <2>3, <2>4, <2>5, <2>6, <2>7, <2>8, <2>9 DEF Next
<1> QED BY <1>1, <1>2, PTL DEF Spec

\* Whatever arrives, an accepted opening holds the row that was committed at its
\* query: what `open` promises to whoever trusts the root.
THEOREM OpeningsAreCommitted == Spec => []AcceptedRowsAreCommitted
<1>1. ASSUME IInv
      PROVE  AcceptedRowsAreCommitted
  <2>1. ASSUME stage = "opened", NEW i \in DOMAIN asked
        PROVE  Opening(i).leaf_data = Image(rows[asked[i]])
    <3>1. asked[i] \in ToSet(asked)
      BY DEF ToSet
    <3>2. Image(RowAt(asked[i])) = Image(rows[asked[i]])
      BY <1>1, <2>1, <3>1 DEF IInv, Committed
    <3> QED BY <3>2 DEF Opening
  <2> QED BY <2>1 DEF AcceptedRowsAreCommitted
<1> QED BY <1>1, MerkleInvariant, PTL

-----------------------------------------------------------------------------
(***************************************************************************)
(* Numbers and nodes: a finite set in ascending order, a node and its      *)
(* sibling, the nodes on the paths of some positions.                      *)
(***************************************************************************)

\* A finite set of numbers in ascending order: every element, once.
LEMMA Enumeration ==
    ASSUME NEW ps \in SUBSET Nat, IsFiniteSet(ps)
    PROVE  /\ Cardinality(ps) \in Nat
           /\ DOMAIN Ascending(ps) = 1 .. Cardinality(ps)
           /\ \A k \in 1 .. Cardinality(ps) : Ascending(ps)[k] \in ps
           /\ \A p \in ps : \E k \in 1 .. Cardinality(ps) : Ascending(ps)[k] = p
           /\ \A j, k \in 1 .. Cardinality(ps) : Ascending(ps)[j] = Ascending(ps)[k] => j = k
<1> DEFINE n == Cardinality(ps)
           UpToIn(p) == {q \in ps : q <= p}
           rank == [p \in ps |-> Cardinality(UpToIn(p))]
<1>1. n \in Nat
  BY FS_CardinalityType
<1>2. ASSUME NEW p \in ps
      PROVE  IsFiniteSet(UpToIn(p)) /\ rank[p] \in 1 .. n
  <2>1. /\ IsFiniteSet(UpToIn(p)) /\ Cardinality(UpToIn(p)) <= n
    BY FS_Subset
  <2>2. UpToIn(p) # {}
    OBVIOUS
  <2>3. Cardinality(UpToIn(p)) \in Nat /\ Cardinality(UpToIn(p)) # 0
    <3> HIDE DEF UpToIn
    <3> QED BY <2>1, <2>2, FS_CardinalityType, FS_EmptySet
  <2> QED BY <1>1, <2>1, <2>3
<1>3. ASSUME NEW p \in ps, NEW q \in ps, p < q
      PROVE  rank[p] < rank[q]
  <2>1. UpToIn(p) \in SUBSET UpToIn(q) /\ q \in UpToIn(q) /\ q \notin UpToIn(p)
    <3>1. p \in Nat /\ q \in Nat /\ \A x \in ps : x \in Nat
      OBVIOUS
    <3>2. q <= q /\ ~(q <= p) /\ \A x \in ps : x <= p => x <= q
      BY <1>3, <3>1
    <3> QED BY <3>2
  <2>2. IsFiniteSet(UpToIn(q)) /\ Cardinality(UpToIn(p)) \in Nat /\ Cardinality(UpToIn(q)) \in Nat
    BY <1>2
  <2>3. Cardinality(UpToIn(p)) <= Cardinality(UpToIn(q))
        /\ (Cardinality(UpToIn(q)) = Cardinality(UpToIn(p)) => UpToIn(q) = UpToIn(p))
    <3> HIDE DEF UpToIn
    <3> QED BY <2>1, <2>2, FS_Subset
  <2>4. Cardinality(UpToIn(p)) # Cardinality(UpToIn(q))
    BY <2>1, <2>3
  <2> HIDE DEF UpToIn
  <2> QED BY <2>2, <2>3, <2>4
<1>4. \A p, q \in ps : rank[p] = rank[q] => p = q
  <2>1. \A p, q \in ps : p < q \/ q < p \/ p = q
    OBVIOUS
  <2>2. \A p \in ps : rank[p] \in Nat
    BY <1>1, <1>2
  <2> HIDE DEF rank
  <2>3. ASSUME NEW p \in ps, NEW q \in ps, rank[p] = rank[q], p # q
        PROVE  FALSE
    <3>1. p < q \/ q < p
      BY <2>1, <2>3
    <3>2. rank[p] < rank[q] \/ rank[q] < rank[p]
      BY <1>3, <3>1
    <3>3. rank[p] \in Nat /\ rank[q] \in Nat
      BY <2>2
    <3> QED BY <2>3, <3>2, <3>3
  <2> QED BY <2>3
<1>5. rank \in Injection(ps, 1 .. n)
  <2>1. rank \in [ps -> 1 .. n]
    BY <1>2
  <2> HIDE DEF rank
  <2> QED BY <1>4, <2>1, Fun_IsInj
<1>6. rank \in Surjection(ps, 1 .. n)
  <2>1. IsFiniteSet(1 .. n) /\ Cardinality(1 .. n) = n
    BY <1>1, FS_Interval
  <2> HIDE DEF rank
  <2> QED BY <1>5, <2>1, FS_Injection
<1>7. \A k \in 1 .. n : \E p \in ps : rank[p] = k
  <2> HIDE DEF rank
  <2> QED BY <1>6 DEF Surjection
<1>8. ASSUME NEW k \in 1 .. n
      PROVE  Ascending(ps)[k] \in ps /\ rank[Ascending(ps)[k]] = k
  <2>1. Ascending(ps)[k] = CHOOSE p \in ps : Cardinality(UpToIn(p)) = k
    BY DEF Ascending
  <2>2. \E p \in ps : Cardinality(UpToIn(p)) = k
    BY <1>7
  <2> QED BY <2>1, <2>2
<1>9. DOMAIN Ascending(ps) = 1 .. n
  BY DEF Ascending
<1> HIDE DEF rank
<1>10. \A p \in ps : \E k \in 1 .. n : Ascending(ps)[k] = p
  <2>1. ASSUME NEW p \in ps
        PROVE  Ascending(ps)[rank[p]] = p /\ rank[p] \in 1 .. n
    BY <1>2, <1>4, <1>8
  <2> QED BY <2>1
<1>11. \A j, k \in 1 .. n : Ascending(ps)[j] = Ascending(ps)[k] => j = k
  BY <1>8
<1> QED BY <1>1, <1>8, <1>9, <1>10, <1>11

\* The nodes of a level on the paths of the positions Q.
NodesAt(Q, l) == {q \div 2 ^ l : q \in Q}

\* A node and its sibling are the children of one parent.
LEMMA Sides ==
    ASSUME NEW l \in 0 .. Height - 1, NEW p \in Level(l)
    PROVE  /\ Sibling(p) \in Level(l) /\ Sibling(p) # p /\ Sibling(Sibling(p)) = p
           /\ p \in Nat /\ Sibling(p) \div 2 = p \div 2
           /\ \/ p % 2 = 0 /\ p = 2 * (p \div 2) /\ Sibling(p) = 2 * (p \div 2) + 1
              \/ p % 2 # 0 /\ p = 2 * (p \div 2) + 1 /\ Sibling(p) = 2 * (p \div 2)
<1> DEFINE y == p \div 2
<1>1. y \in Level(l + 1) /\ (p = 2 * y \/ p = 2 * y + 1)
  BY Levels
<1>2. 2 * y \in Level(l) /\ 2 * y + 1 \in Level(l)
  BY <1>1, Levels
<1>3. p \in Nat /\ y \in Nat
  BY <1>1 DEF Level
<1> HIDE DEF y
<1>4. \A k \in Nat : /\ (2 * k) % 2 = 0 /\ (2 * k + 1) % 2 = 1
                     /\ (2 * k) \div 2 = k /\ (2 * k + 1) \div 2 = k
                     /\ (2 * k) + 1 - 1 = 2 * k
  OBVIOUS
<1>5. CASE p = 2 * y
  <2>1. Sibling(p) = 2 * y + 1 /\ p % 2 = 0
    BY <1>3, <1>4, <1>5 DEF Sibling
  <2>2. Sibling(2 * y + 1) = 2 * y
    BY <1>3, <1>4 DEF Sibling
  <2>3. Sibling(p) \div 2 = y /\ Sibling(p) # p
    BY <1>3, <1>4, <1>5, <2>1
  <2> QED BY <1>2, <1>3, <1>5, <2>1, <2>2, <2>3 DEF y
<1>6. CASE p = 2 * y + 1
  <2>1. Sibling(p) = 2 * y /\ p % 2 # 0
    BY <1>3, <1>4, <1>6 DEF Sibling
  <2>2. Sibling(2 * y) = 2 * y + 1
    BY <1>3, <1>4 DEF Sibling
  <2>3. Sibling(p) \div 2 = y /\ Sibling(p) # p
    BY <1>3, <1>4, <1>6, <2>1
  <2> QED BY <1>2, <1>3, <1>6, <2>1, <2>2, <2>3 DEF y
<1> QED BY <1>1, <1>5, <1>6

\* Going up, the nodes of the next level are the parents; they are on the level, finitely
\* many, and the last is the root.
LEMMA NodesUp ==
    ASSUME NEW Q \in SUBSET Leaves
    PROVE  /\ NodesAt(Q, 0) = Q
           /\ \A l \in 0 .. Height - 1 : NodesAt(Q, l + 1) = Parents(NodesAt(Q, l))
           /\ \A l \in 0 .. Height : /\ NodesAt(Q, l) \in SUBSET Level(l)
                                     /\ NodesAt(Q, l) \in SUBSET Nat
                                     /\ IsFiniteSet(NodesAt(Q, l))
                                     /\ (Q # {} => NodesAt(Q, l) # {})
           /\ Q # {} => NodesAt(Q, Height) = {0}
<1> USE MerkleAssumption
<1>1. Q \in SUBSET Nat
  BY DEF Leaves
<1>2. NodesAt(Q, 0) = Q
  <2>1. ASSUME NEW q \in Q
        PROVE  q \div 2 ^ 0 = q
    <3>1. q \in Nat /\ 0 \in Nat
      BY <1>1
    <3> QED BY <3>1, Halving
  <2> QED BY <2>1 DEF NodesAt
<1>3. ASSUME NEW l \in 0 .. Height - 1
      PROVE  NodesAt(Q, l + 1) = Parents(NodesAt(Q, l))
  <2>1. \A q \in Q : (q \div 2 ^ l) \div 2 = q \div 2 ^ (l + 1)
    BY <1>1, Halving
  <2>2. Parents(NodesAt(Q, l)) = {(q \div 2 ^ l) \div 2 : q \in Q}
    BY DEF Parents, NodesAt
  <2> QED BY <2>1, <2>2 DEF NodesAt
<1> DEFINE S == {l \in 0 .. Height : NodesAt(Q, l) \in SUBSET Level(l)}
<1>4. 0 \in S
  BY <1>2, Levels
<1>5. ASSUME NEW l \in 0 .. Height - 1, l \in S
      PROVE  l + 1 \in S
  <2>1. \A p \in NodesAt(Q, l) : p \div 2 \in Level(l + 1)
    BY <1>5, Levels
  <2> QED BY <1>3, <2>1 DEF Parents
<1>6. \A l \in 0 .. Height : l \in S
  <2> HIDE DEF S
  <2> QED BY <1>4, <1>5, UpTo
<1>7. ASSUME NEW l \in 0 .. Height
      PROVE  /\ NodesAt(Q, l) \in SUBSET Nat /\ IsFiniteSet(NodesAt(Q, l))
             /\ (Q # {} => NodesAt(Q, l) # {})
  <2>1. NodesAt(Q, l) \in SUBSET Level(l)
    BY <1>6
  <2>2. 2 ^ (Height - l) \in Nat
    BY Doubling
  <2>3. IsFiniteSet(Level(l)) /\ Level(l) \in SUBSET Nat
    BY <2>2, FS_Interval DEF Level
  <2> QED BY <2>1, <2>3, FS_Subset DEF NodesAt
<1>8. Q # {} => NodesAt(Q, Height) = {0}
  <2>1. NodesAt(Q, Height) \in SUBSET Level(Height) /\ (Q # {} => NodesAt(Q, Height) # {})
    BY <1>6, <1>7
  <2> QED BY <2>1, Levels
<1> QED BY <1>2, <1>3, <1>6, <1>7, <1>8

\* How many siblings each level needs, and where they start in the phase.
Needed(Q) == [k \in 1 .. Height |-> Cardinality(Lonely(NodesAt(Q, k - 1)))]

Offsets(Q) ==
    LET off[l \in 0 .. Height] ==
            IF l = 0 THEN 0 ELSE off[l - 1] + Cardinality(Lonely(NodesAt(Q, l - 1)))
    IN  off

\* The siblings of a level in ascending order.
LEMMA LonelyNodes ==
    ASSUME NEW Q \in SUBSET Leaves, NEW l \in 0 .. Height
    PROVE  LET ps == Lonely(NodesAt(Q, l))
           IN  /\ ps \in SUBSET NodesAt(Q, l) /\ ps \in SUBSET Level(l)
               /\ Cardinality(ps) \in Nat
               /\ DOMAIN Ascending(ps) = 1 .. Cardinality(ps)
               /\ \A k \in 1 .. Cardinality(ps) : Ascending(ps)[k] \in ps
               /\ \A p \in ps : \E k \in 1 .. Cardinality(ps) : Ascending(ps)[k] = p
               /\ \A j, k \in 1 .. Cardinality(ps) : Ascending(ps)[j] = Ascending(ps)[k] => j = k
<1> DEFINE ps == Lonely(NodesAt(Q, l))
<1>1. /\ NodesAt(Q, l) \in SUBSET Level(l) /\ NodesAt(Q, l) \in SUBSET Nat
      /\ IsFiniteSet(NodesAt(Q, l))
  BY NodesUp
<1>2. ps \in SUBSET NodesAt(Q, l)
  BY DEF Lonely
<1> HIDE DEF ps
<1>3. ps \in SUBSET Nat /\ IsFiniteSet(ps) /\ ps \in SUBSET Level(l)
  BY <1>1, <1>2, FS_Subset
<1>4. QED
  BY <1>2, <1>3, Enumeration DEF ps

\* Where they start is a sum.
LEMMA OffsetsAre ==
    ASSUME NEW Q \in SUBSET Leaves
    PROVE  Needed(Q) \in [1 .. Height -> Nat] /\ IsSum(Offsets(Q), Height, Needed(Q))
<1> USE MerkleAssumption
<1> DEFINE c == Needed(Q)
           Body(f) == [l \in 0 .. Height |->
                         IF l = 0 THEN 0 ELSE f[l - 1] + Cardinality(Lonely(NodesAt(Q, l - 1)))]
<1>1. c \in [1 .. Height -> Nat]
  <2>1. ASSUME NEW k \in 1 .. Height
        PROVE  Cardinality(Lonely(NodesAt(Q, k - 1))) \in Nat
    <3>1. k - 1 \in 0 .. Height
      OBVIOUS
    <3>2. QED
      BY <3>1, LonelyNodes
  <2>2. QED
    BY <2>1 DEF Needed
<1>2. PICK f : IsSum(f, Height, c)
  <2> HIDE DEF c
  <2>1. QED
    BY <1>1, Sums
<1>3. f = Body(f)
  <2>1. ASSUME NEW l \in 0 .. Height
        PROVE  f[l] = Body(f)[l]
    <3>1. CASE l = 0
      BY <1>2, <3>1 DEF IsSum
    <3>2. CASE l # 0
      <4>1. l \in 1 .. Height
        BY <3>2
      <4>2. f[l] = f[l - 1] + c[l] /\ c[l] = Cardinality(Lonely(NodesAt(Q, l - 1)))
        BY <1>2, <4>1 DEF IsSum, Needed
      <4>3. QED
        BY <3>2, <4>2
    <3>3. QED
      BY <3>1, <3>2
  <2>2. f \in [0 .. Height -> Nat]
    BY <1>2 DEF IsSum
  <2>3. DOMAIN Body(f) = 0 .. Height /\ Body(f) = [l \in 0 .. Height |-> Body(f)[l]]
    OBVIOUS
  <2> HIDE DEF Body
  <2>4. QED
    BY <2>1, <2>2, <2>3
<1>4. Offsets(Q) = CHOOSE g : g = Body(g)
  BY Zenon DEF Offsets
<1>5. Offsets(Q) = Body(Offsets(Q))
  <2> HIDE DEF Body
  <2>1. QED
    BY <1>3, <1>4
<1> DEFINE g == Offsets(Q)
<1>6. DOMAIN g = 0 .. Height /\ g[0] = 0 /\ \A k \in 1 .. Height : g[k] = g[k - 1] + c[k]
  <2>1. g = Body(g)
    BY <1>5
  <2> HIDE DEF g
  <2>2. g[0] = 0
    <3>1. 0 \in 0 .. Height
      OBVIOUS
    <3>2. QED
      BY <2>1, <3>1
  <2>3. ASSUME NEW k \in 1 .. Height
        PROVE  g[k] = g[k - 1] + c[k]
    <3>1. k \in 0 .. Height /\ k # 0
      OBVIOUS
    <3>2. g[k] = g[k - 1] + Cardinality(Lonely(NodesAt(Q, k - 1)))
      BY <2>1, <3>1
    <3>3. c[k] = Cardinality(Lonely(NodesAt(Q, k - 1)))
      BY DEF Needed
    <3>4. QED
      BY <3>2, <3>3
  <2>4. QED
    BY <2>1, <2>2, <2>3
<1> HIDE DEF g, c
<1>7. \A k \in 0 .. Height : g[k] \in Nat
  <2> DEFINE S == {k \in 0 .. Height : g[k] \in Nat}
  <2>1. 0 \in S
    BY <1>6
  <2>2. ASSUME NEW k \in 0 .. Height - 1, k \in S
        PROVE  k + 1 \in S
    <3>1. k + 1 \in 1 .. Height /\ (k + 1) - 1 = k /\ g[k] \in Nat
      BY <2>2
    <3>2. g[k + 1] = g[k] + c[k + 1] /\ c[k + 1] \in Nat
      BY <1>1, <1>6, <3>1
    <3>3. QED
      BY <3>1, <3>2
  <2>3. \A k \in 0 .. Height : k \in S
    <3> HIDE DEF S
    <3>1. QED
      BY <2>1, <2>2, UpTo
  <2>4. QED
    BY <2>3
<1>8. g = [k \in 0 .. Height |-> g[k]]
  BY <1>5 DEF g
<1>9. QED
  BY <1>1, <1>6, <1>7, <1>8 DEF IsSum, g, c

\* What the lemma on sums says of the offsets.
LEMMA OffsetsGrow ==
    ASSUME NEW Q \in SUBSET Leaves
    PROVE  /\ Offsets(Q)[0] = 0
           /\ \A l \in 0 .. Height - 1 : Offsets(Q)[l + 1]
                  = Offsets(Q)[l] + Cardinality(Lonely(NodesAt(Q, l)))
           /\ \A l \in 0 .. Height : /\ Offsets(Q)[l] \in Nat
                                     /\ \A k \in 0 .. l : Offsets(Q)[k] <= Offsets(Q)[l]
           /\ \A j \in 1 .. Offsets(Q)[Height] : \E k \in 0 .. Height - 1 :
                \E i \in 1 .. Cardinality(Lonely(NodesAt(Q, k))) : j = Offsets(Q)[k] + i
<1> USE MerkleAssumption
<1> DEFINE f == Offsets(Q)
           c == Needed(Q)
<1>1. c \in [1 .. Height -> Nat] /\ IsSum(f, Height, c)
  BY OffsetsAre
<1>2. \A l \in 0 .. Height - 1 : c[l + 1] = Cardinality(Lonely(NodesAt(Q, l)))
  <2>1. \A l \in 0 .. Height - 1 : l + 1 \in 1 .. Height /\ (l + 1) - 1 = l
    OBVIOUS
  <2>2. QED
    BY <2>1 DEF Needed
<1> HIDE DEF f, c
<1>3. f[0] = 0
  BY <1>1 DEF IsSum
<1>4. ASSUME NEW l \in 0 .. Height - 1
      PROVE  f[l + 1] = f[l] + Cardinality(Lonely(NodesAt(Q, l)))
  <2>1. l + 1 \in 1 .. Height /\ (l + 1) - 1 = l
    OBVIOUS
  <2>2. f[l + 1] = f[l] + c[l + 1]
    BY <1>1, <2>1 DEF IsSum
  <2>3. QED
    BY <1>2, <2>2
<1>5. \A l \in 0 .. Height :
         /\ f[l] \in Nat
         /\ \A k \in 0 .. l : f[k] <= f[l]
         /\ \A j \in 1 .. f[l] : \E k \in 1 .. l : \E i \in 1 .. c[k] : j = f[k - 1] + i
  <2>1. Cumulates(f, Height, c)
    BY <1>1, SumsGrow
  <2>2. QED
    BY <2>1 DEF Cumulates
<1>6. ASSUME NEW j \in 1 .. f[Height]
      PROVE  \E k \in 0 .. Height - 1 :
                \E i \in 1 .. Cardinality(Lonely(NodesAt(Q, k))) : j = f[k] + i
  <2>1. Height \in 0 .. Height
    OBVIOUS
  <2>2. PICK k \in 1 .. Height : \E i \in 1 .. c[k] : j = f[k - 1] + i
    BY <1>5, <2>1
  <2>3. k - 1 \in 0 .. Height - 1 /\ (k - 1) + 1 = k
    OBVIOUS
  <2>4. c[k] = Cardinality(Lonely(NodesAt(Q, k - 1)))
    BY <1>2, <2>3
  <2>5. QED
    BY <2>2, <2>3, <2>4
<1>7. QED
  BY <1>3, <1>4, <1>5, <1>6 DEF f

-----------------------------------------------------------------------------
(***************************************************************************)
(* The second invariant: what the prover has pruned and the verifier has   *)
(* rebuilt, level by level. The siblings of a level lie in the phase where *)
(* those of the levels below end, on both sides alike.                     *)
(***************************************************************************)

\* The positions queried by the prover and asked by the verifier, as sets, and the
\* row committed at the i-th smallest.
Queried == ToSet(queries)
Asked == ToSet(asked)

Row(Q, i) == rows[Ascending(Q)[i]]

\* What is pruned when the first l levels have sent their siblings.
PrunedTo(l) ==
    /\ pruned = [leaf_data |-> [i \in DOMAIN Ascending(Queried) |-> Row(Queried, i)],
                 sibling_hashes |-> pruned.sibling_hashes]
    /\ \E S : pruned.sibling_hashes \in Seq(S)
    /\ Len(pruned.sibling_hashes) = Offsets(Queried)[l]
    /\ \A k \in 0 .. l - 1 : \A i \in 1 .. Cardinality(Lonely(NodesAt(Queried, k))) :
          pruned.sibling_hashes[Offsets(Queried)[k] + i]
            = SentSiblings(k, NodesAt(Queried, k))[i]

\* The prover's half.
PruneInv ==
    /\ rows \in Matrices /\ queries \in QueryLists
    /\ stage = "prune" => active = NodesAt(Queried, level) /\ PrunedTo(level)
    /\ stage \notin {"commit", "prune"} => PrunedTo(Height)

\* A phase, of rows of any width.
Readable(paths) ==
    /\ paths = [leaf_data |-> paths.leaf_data, sibling_hashes |-> paths.sibling_hashes]
    /\ paths.leaf_data \in Seq(Seq(Words))
    /\ \E S : paths.sibling_hashes \in Seq(S)

\* A phase is read only once it arrived, and nothing was rebuilt before.
ReceivedInv ==
    /\ stage \in {"commit", "prune", "send", "leaves"} => known = <<>> /\ supplied = 0
    /\ stage \in {"leaves", "open", "opened"} =>
          Readable(received)

\* The digest the verifier has for a node on the way.
Digest(k, p) == IF k < Len(known) THEN known[k + 1][p] ELSE nodes[p]

\* What is rebuilt when the first l levels are: the siblings are those received, in
\* their order, and everything else is hashed.
WalkTo(l) ==
    /\ \E S : known \in Seq(S) /\ Len(known) = l
    /\ Cardinality(Asked) = Len(received.leaf_data) /\ WidthMatches
    /\ DOMAIN nodes = NodesAt(Asked, l)
    /\ supplied = Offsets(Asked)[l] /\ supplied <= Len(received.sibling_hashes)
    /\ \A p \in Asked : Digest(0, p) = HashWords(Image(RowAt(p)))
    /\ \A k \in 0 .. l - 1 : \A y \in NodesAt(Asked, k + 1) :
          Digest(k + 1, y) = HashPair(known[k + 1][2 * y], known[k + 1][2 * y + 1])
    /\ \A k \in 0 .. l - 1 : \A i \in 1 .. Cardinality(Lonely(NodesAt(Asked, k))) :
          known[k + 1][Sibling(Ascending(Lonely(NodesAt(Asked, k)))[i])]
            = received.sibling_hashes[Offsets(Asked)[k] + i]

\* The verifier's half.
WalkInv ==
    /\ stage = "open" => WalkTo(level)
    /\ stage = "opened" => WalkTo(Height) /\ Authentic

\* The whole invariant; honest phases are accepted on the way, so that is part of it.
FullInv == IInv /\ PruneInv /\ ReceivedInv /\ WalkInv /\ HonestOpens

-----------------------------------------------------------------------------
(***************************************************************************)
(* The steps of the prover.                                                *)
(***************************************************************************)

\* t has n elements.
IsTuple(t, n) == t = [i \in 1 .. n |-> t[i]]

\* A sequence of anything is extended by any n elements.
LEMMA Joined ==
    ASSUME NEW s, \E S : s \in Seq(S), NEW n \in Nat, NEW t, IsTuple(t, n)
    PROVE  /\ \E S : s \o t \in Seq(S)
           /\ Len(s) \in Nat /\ Len(s \o t) = Len(s) + n
           /\ \A i \in 1 .. Len(s) : (s \o t)[i] = s[i]
           /\ \A i \in 1 .. n : (s \o t)[Len(s) + i] = t[i]
<1>1. PICK S : s \in Seq(S)
  OBVIOUS
<1> DEFINE T == S \cup {t[i] : i \in 1 .. n}
<1>2. s \in Seq(T)
  BY <1>1
<1>3. t \in Seq(T) /\ Len(t) = n
  <2>1. [i \in 1 .. n |-> t[i]] \in Seq(T) /\ Len([i \in 1 .. n |-> t[i]]) = n
    <3>1. \A i \in 1 .. n : t[i] \in T
      OBVIOUS
    <3> HIDE DEF T
    <3>2. QED
      BY <3>1
  <2>2. QED
    BY <2>1 DEF IsTuple
<1> HIDE DEF T
<1>4. s \o t \in Seq(T) /\ Len(s) \in Nat /\ Len(s \o t) = Len(s) + n
  BY <1>2, <1>3
<1>5. \A i \in 1 .. Len(s) : (s \o t)[i] = s[i]
  BY <1>2, <1>3
<1>6. \A i \in 1 .. n : (s \o t)[Len(s) + i] = t[i]
  BY <1>2, <1>3
<1>7. QED
  BY <1>4, <1>5, <1>6

\* What is asked for is some leaves, and at least one.
LEMMA Positions ==
    ASSUME NEW qs \in QueryLists
    PROVE  ToSet(qs) \in SUBSET Leaves /\ ToSet(qs) # {} /\ IsFiniteSet(ToSet(qs))
<1>1. qs \in Seq(Leaves) /\ qs # <<>>
  BY MerkleAssumption
<1>2. 1 \in DOMAIN qs /\ \A i \in DOMAIN qs : qs[i] \in Leaves
  BY <1>1
<1>3. ToSet(qs) \in SUBSET Leaves /\ ToSet(qs) # {}
  BY <1>2 DEF ToSet
<1>4. IsFiniteSet(ToSet(qs))
  <2>1. 0 \in 0 .. Height
    BY MerkleAssumption
  <2>2. IsFiniteSet(NodesAt(ToSet(qs), 0)) /\ NodesAt(ToSet(qs), 0) = ToSet(qs)
    BY <1>3, <2>1, NodesUp
  <2>3. QED
    BY <2>2
<1>5. QED
  BY <1>3, <1>4

\* The siblings a level sends, in the order of the nodes they stand beside.
LEMMA SentIs ==
    ASSUME NEW Q \in SUBSET Leaves, NEW l \in 0 .. Height
    PROVE  LET ps == Lonely(NodesAt(Q, l))
               sent == SentSiblings(l, NodesAt(Q, l))
           IN  /\ IsTuple(sent, Cardinality(ps))
               /\ \A i \in 1 .. Cardinality(ps) :
                     sent[i] = tree[l + 1][Sibling(Ascending(ps)[i])]
<1> DEFINE ps == Lonely(NodesAt(Q, l))
<1>1. DOMAIN Ascending(ps) = 1 .. Cardinality(ps)
  BY LonelyNodes
<1> HIDE DEF ps
<1>2. SentSiblings(l, NodesAt(Q, l))
        = [i \in 1 .. Cardinality(ps) |-> tree[l + 1][Sibling(Ascending(ps)[i])]]
  BY <1>1 DEF SentSiblings, ps
<1>3. QED
  BY <1>2 DEF ps, IsTuple

\* The rows are pruned, and no sibling yet.
LEMMA StartPruneKeeps ==
    ASSUME IInv, PruneInv, StartPrune
    PROVE  PruneInv'
<1> DEFINE data == [i \in DOMAIN Ascending(Queried) |-> Row(Queried, i)]
<1>1. /\ rows' = rows /\ tree' = tree /\ queries' = queries /\ level' = level
      /\ stage = "commit" /\ stage' = "prune" /\ active' = Queried
      /\ pruned' = [leaf_data |-> data, sibling_hashes |-> <<>>]
  BY DEF StartPrune, commitment, Queried, Row, SortedUnique
<1>2. level' = 0
  BY <1>1 DEF IInv
<1>3. Queried \in SUBSET Leaves
  BY Positions DEF PruneInv, Queried
<1>4. Queried' = Queried
  BY <1>1 DEF Queried
<1>5. Row(Queried, 1)' = Row(Queried, 1) /\ data' = data
  BY <1>1, <1>4 DEF Row
<1> HIDE DEF data
<1>6. pruned'.leaf_data = data /\ pruned'.sibling_hashes = <<>>
  BY <1>1
<1>7. <<>> \in Seq({}) /\ Len(<<>>) = 0
  OBVIOUS
<1>8. Offsets(Queried)[0] = 0 /\ NodesAt(Queried, 0) = Queried
  BY <1>3, OffsetsGrow, NodesUp
<1>9. PrunedTo(0)'
  <2>1. pruned' = [leaf_data |-> data', sibling_hashes |-> pruned'.sibling_hashes]
    BY <1>1, <1>5, <1>6
  <2>2. \E S : pruned'.sibling_hashes \in Seq(S)
    BY <1>6, <1>7
  <2>3. Len(pruned'.sibling_hashes) = Offsets(Queried)'[0]
    BY <1>4, <1>6, <1>7, <1>8
  <2>4. QED
    BY <2>1, <2>2, <2>3 DEF PrunedTo, data
<1>10. QED
  <2>1. (PrunedTo(level))'
    BY <1>2, <1>9 DEF PrunedTo
  <2>2. active' = (NodesAt(Queried, level))'
    BY <1>1, <1>2, <1>4, <1>8
  <2>3. QED
    BY <1>1, <2>1, <2>2 DEF PruneInv

\* The siblings of a level follow those of the levels below.
LEMMA PruneLevelKeeps ==
    ASSUME IInv, PruneInv, PruneLevel
    PROVE  PruneInv'
<1> DEFINE Q == Queried
           old == pruned.sibling_hashes
           new == pruned'.sibling_hashes
           ps == Lonely(NodesAt(Q, level))
           sent == SentSiblings(level, NodesAt(Q, level))
<1>1. /\ rows' = rows /\ tree' = tree /\ queries' = queries /\ level' = level + 1
      /\ stage = "prune" /\ stage' = "prune" /\ level < Height
      /\ active' = Parents(active)
      /\ pruned' = [pruned EXCEPT !.sibling_hashes = @ \o SentSiblings(level, active)]
  BY DEF PruneLevel, commitment
<1>2. level \in 0 .. Height - 1 /\ level \in 0 .. Height /\ Height \in Nat
  BY <1>1, MerkleAssumption DEF IInv
<1>3. Q \in SUBSET Leaves
  BY Positions DEF PruneInv, Queried
<1>4. Queried' = Q
  BY <1>1 DEF Queried
<1>5. active = NodesAt(Q, level) /\ PrunedTo(level)
  BY <1>1 DEF PruneInv
<1>6. active' = NodesAt(Q, level + 1)
  BY <1>1, <1>2, <1>3, <1>5, NodesUp
<1>7. pruned = [leaf_data |-> pruned.leaf_data, sibling_hashes |-> old]
  BY <1>5 DEF PrunedTo
<1>8. pruned' = [leaf_data |-> pruned.leaf_data, sibling_hashes |-> old \o sent]
  BY <1>1, <1>5, <1>7
<1>9. pruned'.leaf_data = pruned.leaf_data /\ new = old \o sent
  BY <1>8
<1>10. /\ Cardinality(ps) \in Nat
       /\ IsTuple(sent, Cardinality(ps))
  BY <1>2, <1>3, SentIs, LonelyNodes
<1>11. \E S : old \in Seq(S)
  BY <1>5 DEF PrunedTo
<1> DEFINE n == Cardinality(ps)
<1> HIDE DEF old, new, sent, Q, ps
<1>12. /\ \E S : new \in Seq(S)
       /\ Len(old) \in Nat /\ Len(new) = Len(old) + n
       /\ \A i \in 1 .. Len(old) : new[i] = old[i]
       /\ \A i \in 1 .. n : new[Len(old) + i] = sent[i]
  <2> HIDE DEF n
  <2>1. n \in Nat /\ IsTuple(sent, n)
    BY <1>10 DEF n
  <2>2. QED
    <3>1. /\ \E S : old \o sent \in Seq(S)
          /\ Len(old) \in Nat /\ Len(old \o sent) = Len(old) + n
          /\ \A i \in 1 .. Len(old) : (old \o sent)[i] = old[i]
          /\ \A i \in 1 .. n : (old \o sent)[Len(old) + i] = sent[i]
      BY <1>11, <2>1, Joined
    <3>2. QED
      BY <1>9, <3>1
<1>13. Len(old) = Offsets(Q)[level] /\ Offsets(Q)[level + 1] = Offsets(Q)[level] + n
  <2>1. Len(old) = Offsets(Q)[level]
    BY <1>5 DEF PrunedTo, old, Q
  <2>2. QED
    BY <1>2, <1>3, <2>1, OffsetsGrow DEF ps
<1>14. ASSUME NEW k \in 0 .. level, NEW i \in 1 .. Cardinality(Lonely(NodesAt(Q, k)))
       PROVE  new[Offsets(Q)[k] + i] = SentSiblings(k, NodesAt(Q, k))[i]
  <2>1. CASE k = level
    BY <1>12, <1>13, <2>1 DEF ps, sent
  <2>2. CASE k # level
    <3>1. k \in 0 .. level - 1 /\ k \in 0 .. Height - 1 /\ k + 1 \in 0 .. level /\ k \in 0 .. Height
      BY <1>2, <2>2
    <3>2. old[Offsets(Q)[k] + i] = SentSiblings(k, NodesAt(Q, k))[i]
      BY <1>5, <3>1 DEF PrunedTo, old, Q
    <3>3. /\ Offsets(Q)[k + 1] = Offsets(Q)[k] + Cardinality(Lonely(NodesAt(Q, k)))
          /\ Offsets(Q)[k + 1] <= Offsets(Q)[level] /\ Offsets(Q)[k] \in Nat
      BY <1>2, <1>3, <3>1, OffsetsGrow
    <3>4. Cardinality(Lonely(NodesAt(Q, k))) \in Nat
      BY <1>3, <3>1, LonelyNodes
    <3>5. Offsets(Q)[k] + i \in 1 .. Len(old)
      BY <1>12, <1>13, <3>3, <3>4
    <3>6. QED
      BY <1>12, <3>2, <3>5
  <2>3. QED
    BY <2>1, <2>2
<1>15. (PrunedTo(level))'
  <2>1. pruned' = [leaf_data |-> [i \in DOMAIN Ascending(Queried) |-> Row(Queried, i)],
                   sibling_hashes |-> new]
    <3>1. pruned.leaf_data = [i \in DOMAIN Ascending(Queried) |-> Row(Queried, i)]
      BY <1>5 DEF PrunedTo
    <3>2. pruned' = [leaf_data |-> pruned.leaf_data, sibling_hashes |-> new]
      BY <1>8, <1>9
    <3>3. QED
      BY <3>1, <3>2
  <2>2. \A i : Row(Queried, i)' = Row(Queried, i)
    BY <1>1, <1>4 DEF Row, Q
  <2>3. pruned' = [leaf_data |-> [i \in DOMAIN Ascending(Queried') |-> Row(Queried, i)'],
                   sibling_hashes |-> pruned'.sibling_hashes]
    BY <1>4, <2>1, <2>2 DEF Q, new
  <2>4. /\ \E S : pruned'.sibling_hashes \in Seq(S)
        /\ Len(pruned'.sibling_hashes) = Offsets(Queried')[level']
    BY <1>1, <1>4, <1>12, <1>13 DEF new
  <2>5. \A k \in 0 .. level' - 1 : \A i \in 1 .. Cardinality(Lonely(NodesAt(Queried', k))) :
           pruned'.sibling_hashes[Offsets(Queried')[k] + i]
             = SentSiblings(k, NodesAt(Queried, k))'[i]
    <3>1. \A k : SentSiblings(k, NodesAt(Queried, k))' = SentSiblings(k, NodesAt(Q, k))
      BY <1>1, <1>4 DEF SentSiblings
    <3>2. level' - 1 = level
      BY <1>1, <1>2
    <3>3. QED
      BY <1>4, <1>14, <3>1, <3>2 DEF new
  <2>6. QED
    BY <2>3, <2>4, <2>5 DEF PrunedTo
<1>16. active' = (NodesAt(Queried, level))'
  BY <1>1, <1>4, <1>6
<1>17. QED
  BY <1>1, <1>15, <1>16 DEF PruneInv

\* The phase is not changed after the last level.
LEMMA PrunedKept ==
    ASSUME PruneInv, UNCHANGED <<rows, tree, queries, pruned>>,
           stage \notin {"commit", "prune"} \/ (stage = "prune" /\ level = Height),
           stage' \notin {"commit", "prune"}
    PROVE  PruneInv'
<1>1. PrunedTo(Height)
  BY DEF PruneInv
<1>2. Queried' = Queried
  BY DEF Queried
<1>3. (PrunedTo(Height))'
  <2>1. \A i : Row(Queried, i)' = Row(Queried, i)
    BY <1>2 DEF Row
  <2>2. \A k : SentSiblings(k, NodesAt(Queried, k))' = SentSiblings(k, NodesAt(Queried, k))
    BY <1>2 DEF SentSiblings
  <2>3. pruned' = [leaf_data |-> [i \in DOMAIN Ascending(Queried') |-> Row(Queried, i)'],
                   sibling_hashes |-> pruned'.sibling_hashes]
    BY <1>1, <1>2, <2>1 DEF PrunedTo
  <2>4. QED
    BY <1>1, <1>2, <2>2, <2>3 DEF PrunedTo
<1>4. QED
  BY <1>3 DEF PruneInv

-----------------------------------------------------------------------------
(***************************************************************************)
(* The steps of the verifier.                                              *)
(***************************************************************************)

\* What arrives is a phase.
LEMMA Arriving ==
    ASSUME rows \in Matrices, queries \in QueryLists, PrunedTo(Height),
           NEW paths \in Damaged(pruned)
    PROVE  Readable(paths)
<1> DEFINE data == pruned.leaf_data
           hashes == pruned.sibling_hashes
           foreign == HashWords(Image(<<0>>))
           IsPhase(d, h) == d \in Seq(Seq(Words)) /\ \E S : h \in Seq(S)
           Phase(d, h) == [leaf_data |-> d, sibling_hashes |-> h]
<1>1. pruned = Phase(data, hashes)
  BY DEF PrunedTo
<1>2. Rows \in SUBSET Seq(Words) /\ \A row \in Rows : <<0>> \o row \in Seq(Words)
  <2>1. 0 \in Words /\ RowWords \in Nat
    BY MerkleAssumption
  <2>2. Rows \in SUBSET Seq(Words)
    BY <2>1 DEF Rows
  <2>3. <<0>> \in Seq(Words)
    BY <2>1
  <2>4. QED
    BY <2>2, <2>3
<1>3. \E n \in Nat \ {0} : data \in [1 .. n -> Rows]
  <2> DEFINE Q == Queried
  <2>1. Q \in SUBSET Leaves /\ Q # {} /\ IsFiniteSet(Q)
    BY Positions DEF Queried
  <2>2. Q \in SUBSET Nat
    BY <2>1 DEF Leaves
  <2>3. rows \in [Leaves -> Rows]
    BY MerkleAssumption
  <2>4. data = [i \in DOMAIN Ascending(Q) |-> Row(Q, i)]
    BY DEF PrunedTo
  <2> HIDE DEF Q, data
  <2>5. /\ Cardinality(Q) \in Nat /\ DOMAIN Ascending(Q) = 1 .. Cardinality(Q)
        /\ \A k \in 1 .. Cardinality(Q) : Ascending(Q)[k] \in Q
    BY <2>1, <2>2, Enumeration
  <2>6. Cardinality(Q) # 0
    BY <2>1, FS_EmptySet
  <2>7. data \in [1 .. Cardinality(Q) -> Rows]
    BY <2>1, <2>3, <2>4, <2>5 DEF Row
  <2>8. QED
    BY <2>5, <2>6, <2>7
<1>4. data \in Seq(Rows) /\ data # <<>>
  <2> HIDE DEF data
  <2>1. QED
    BY <1>3
<1>5. data \in Seq(Seq(Words))
  <2> HIDE DEF data
  <2>1. QED
    BY <1>2, <1>4
<1>6. \E S : hashes \in Seq(S)
  BY DEF PrunedTo
<1>7. PICK S : hashes \in Seq(S)
  BY <1>6
<1>8. \/ paths \in {Phase(data, hashes), Phase(data, Append(hashes, foreign)), Phase(Tail(data), hashes)}
      \/ \E i \in DOMAIN hashes : paths = Phase(data, [hashes EXCEPT ![i] = foreign])
      \/ \E i \in DOMAIN hashes : paths = Phase(data, SubSeq(hashes, 1, i - 1))
      \/ \E i \in DOMAIN data, row \in Rows : paths = Phase([data EXCEPT ![i] = row], hashes)
      \/ \E i \in DOMAIN data : paths = Phase([data EXCEPT ![i] = <<0>> \o @], hashes)
  <2>1. \/ paths \in {pruned, [pruned EXCEPT !.sibling_hashes = Append(@, foreign)],
                     [pruned EXCEPT !.leaf_data = Tail(@)]}
        \/ \E i \in DOMAIN hashes :
              paths = [pruned EXCEPT !.sibling_hashes = [@ EXCEPT ![i] = foreign]]
        \/ \E i \in DOMAIN hashes :
              paths = [pruned EXCEPT !.sibling_hashes = SubSeq(@, 1, i - 1)]
        \/ \E i \in DOMAIN data, row \in Rows : paths = [pruned EXCEPT !.leaf_data[i] = row]
        \/ \E i \in DOMAIN data : paths = [pruned EXCEPT !.leaf_data[i] = <<0>> \o @]
    BY DEF Damaged
  <2> DEFINE p == pruned
  <2> HIDE DEF data, hashes, p, foreign
  <2>2. p = Phase(data, hashes)
    BY <1>1 DEF p
  <2>20. p.leaf_data = data /\ p.sibling_hashes = hashes
    BY <2>2
  <2>21. \A e : /\ [p EXCEPT !.sibling_hashes = e] = Phase(data, e)
                /\ [p EXCEPT !.leaf_data = e] = Phase(e, hashes)
    BY <2>2
  <2>3. /\ [p EXCEPT !.sibling_hashes = Append(@, foreign)] = Phase(data, Append(hashes, foreign))
        /\ [p EXCEPT !.leaf_data = Tail(@)] = Phase(Tail(data), hashes)
    BY <2>20, <2>21
  <2>4. ASSUME NEW i
        PROVE  [p EXCEPT !.sibling_hashes = [@ EXCEPT ![i] = foreign]]
                 = Phase(data, [hashes EXCEPT ![i] = foreign])
    BY <2>20, <2>21
  <2>5. ASSUME NEW i
        PROVE  [p EXCEPT !.sibling_hashes = SubSeq(@, 1, i - 1)]
                 = Phase(data, SubSeq(hashes, 1, i - 1))
    BY <2>20, <2>21
  <2>6. ASSUME NEW i, NEW row
        PROVE  [p EXCEPT !.leaf_data[i] = row]
                 = Phase([data EXCEPT ![i] = row], hashes)
    BY <2>20, <2>21
  <2>7. ASSUME NEW i
        PROVE  [p EXCEPT !.leaf_data[i] = <<0>> \o @]
                 = Phase([data EXCEPT ![i] = <<0>> \o @], hashes)
    BY <2>20, <2>21
  <2> HIDE DEF Phase
  <2>8. CASE paths \in {pruned, [pruned EXCEPT !.sibling_hashes = Append(@, foreign)],
                     [pruned EXCEPT !.leaf_data = Tail(@)]}
    BY <2>2, <2>3, <2>8 DEF p
  <2>9. CASE \E i \in DOMAIN hashes :
              paths = [pruned EXCEPT !.sibling_hashes = [@ EXCEPT ![i] = foreign]]
    BY <2>4, <2>9 DEF p
  <2>10. CASE \E i \in DOMAIN hashes :
              paths = [pruned EXCEPT !.sibling_hashes = SubSeq(@, 1, i - 1)]
    BY <2>5, <2>10 DEF p
  <2>11. CASE \E i \in DOMAIN data, row \in Rows : paths = [pruned EXCEPT !.leaf_data[i] = row]
    <3>1. PICK i \in DOMAIN data, row \in Rows : paths = [pruned EXCEPT !.leaf_data[i] = row]
      BY <2>11
    <3>2. paths = Phase([data EXCEPT ![i] = row], hashes)
      BY <2>6, <3>1 DEF p
    <3>3. QED
      BY <3>2
  <2>12. CASE \E i \in DOMAIN data : paths = [pruned EXCEPT !.leaf_data[i] = <<0>> \o @]
    BY <2>7, <2>12 DEF p
  <2>13. QED
    BY <2>1, <2>8, <2>9, <2>10, <2>11, <2>12
<1> HIDE DEF data, hashes, foreign
<1>9. ASSUME NEW d, NEW h, IsPhase(d, h), paths = Phase(d, h)
      PROVE  Readable(paths)
  BY <1>9 DEF Readable
<1>10. IsPhase(data, hashes)
  BY <1>5, <1>6
<1>11. IsPhase(data, Append(hashes, foreign))
  <2>1. hashes \in Seq(S \cup {foreign}) /\ foreign \in S \cup {foreign}
    BY <1>7
  <2>2. Append(hashes, foreign) \in Seq(S \cup {foreign})
    BY <2>1
  <2>3. QED
    BY <1>5, <2>2
<1>12. IsPhase(Tail(data), hashes)
  <2>1. data \in Seq(Seq(Words)) /\ data # <<>>
    BY <1>4, <1>5
  <2>2. Tail(data) \in Seq(Seq(Words))
    BY <2>1
  <2>3. QED
    BY <1>6, <2>2
<1>13. ASSUME NEW i \in DOMAIN hashes
       PROVE  IsPhase(data, [hashes EXCEPT ![i] = foreign])
  <2>1. hashes \in Seq(S \cup {foreign}) /\ foreign \in S \cup {foreign}
    BY <1>7
  <2>2. [hashes EXCEPT ![i] = foreign] \in Seq(S \cup {foreign})
    BY <2>1
  <2>3. QED
    BY <1>5, <2>2
<1>14. ASSUME NEW i \in DOMAIN hashes
       PROVE  IsPhase(data, SubSeq(hashes, 1, i - 1))
  <2>1. SubSeq(hashes, 1, i - 1) \in Seq(S)
    BY <1>7
  <2>2. QED
    BY <1>5, <2>1
<1>15. ASSUME NEW i \in DOMAIN data, NEW row \in Rows
       PROVE  IsPhase([data EXCEPT ![i] = row], hashes)
  <2>1. [data EXCEPT ![i] = row] \in Seq(Rows)
    BY <1>4
  <2>2. [data EXCEPT ![i] = row] \in Seq(Seq(Words))
    BY <1>2, <2>1
  <2>3. QED
    BY <1>6, <2>2
<1>16. ASSUME NEW i \in DOMAIN data
       PROVE  IsPhase([data EXCEPT ![i] = <<0>> \o @], hashes)
  <2>1. data[i] \in Rows
    BY <1>4
  <2> DEFINE wide == <<0>> \o data[i]
  <2>2. wide \in Seq(Words)
    BY <1>2, <2>1
  <2> HIDE DEF wide
  <2>3. [data EXCEPT ![i] = wide] \in Seq(Seq(Words))
    BY <1>5, <2>2
  <2>4. QED
    BY <1>6, <2>3 DEF wide
<1>17. QED
  <2> HIDE DEF IsPhase, Phase
  <2>1. QED
    BY <1>8, <1>9, <1>10, <1>11, <1>12, <1>13, <1>14, <1>15, <1>16

\* What WalkTo speaks of, unchanged.
LEMMA WalkKept ==
    ASSUME NEW l, WalkTo(l), UNCHANGED <<received, asked, nodes, known, supplied>>
    PROVE  (WalkTo(l))'
<1>1. Asked' = Asked
  BY DEF Asked
<1>2. \A k, p : Digest(k, p)' = Digest(k, p)
  BY DEF Digest
<1>3. \A p : RowAt(p)' = RowAt(p)
  BY DEF RowAt
<1>4. WidthMatches' <=> WidthMatches
  BY DEF WidthMatches
<1>5. QED
  BY <1>1, <1>2, <1>3, <1>4 DEF WalkTo

\* Nothing is rebuilt yet but the leaves.
LEMMA OpenLeavesWalk ==
    ASSUME IInv, ReceivedInv, OpenLeaves, ~Reject
    PROVE  (WalkTo(level))' /\ stage' = "open"
<1>1. /\ stage = "leaves" /\ stage' = "open" /\ level' = level
      /\ Cardinality(ToSet(asked)) = Len(received.leaf_data) /\ WidthMatches
      /\ nodes' = [p \in Asked |-> HashWords(Image(RowAt(p)))]
      /\ received' = received /\ asked' = asked /\ known' = known /\ supplied' = supplied
  BY DEF OpenLeaves, Asked
<1>2. level = 0 /\ known = <<>> /\ supplied = 0 /\ Asked \in SUBSET Leaves
  BY <1>1, Positions DEF IInv, ReceivedInv, Asked
<1>3. Asked' = Asked
  BY <1>1 DEF Asked
<1>4. \A p : RowAt(p)' = RowAt(p)
  BY <1>1 DEF RowAt
<1>5. WidthMatches'
  BY <1>1 DEF WidthMatches
<1>6. known \in Seq({}) /\ Len(known) = 0
  BY <1>2
<1>7. Offsets(Asked)[0] = 0 /\ NodesAt(Asked, 0) = Asked
  BY <1>2, OffsetsGrow, NodesUp
<1>8. Len(received.sibling_hashes) >= 0
  BY <1>1 DEF ReceivedInv, Readable
<1>9. (WalkTo(0))'
  <2>1. \A p \in Asked : Digest(0, p)' = HashWords(Image(RowAt(p)))
    BY <1>1, <1>6 DEF Digest
  <2>2. \A p \in Asked : Digest(0, p)' = HashWords(Image(RowAt(p)'))
    BY <1>4, <2>1
  <2>3. (0 .. 0 - 1) = {}
    OBVIOUS
  <2>4. \A p \in Asked' : Digest(0, p)' = HashWords(Image(RowAt(p)'))
    BY <1>3, <2>2
  <2>5. /\ \E S : known' \in Seq(S)
        /\ Len(known') = 0
        /\ Cardinality(Asked') = Len(received'.leaf_data)
        /\ DOMAIN nodes' = NodesAt(Asked', 0)
        /\ supplied' = Offsets(Asked')[0] /\ supplied' <= Len(received'.sibling_hashes)
    BY <1>1, <1>2, <1>3, <1>6, <1>7, <1>8 DEF Asked
  <2>6. QED
    BY <1>5, <2>3, <2>4, <2>5 DEF WalkTo
<1>10. QED
  BY <1>1, <1>2, <1>9 DEF WalkTo

\* What Completed has: the nodes, and beside each the sibling, rebuilt or received.
LEMMA CompletedIs ==
    ASSUME Asked \in SUBSET Leaves, level \in 0 .. Height - 1, DOMAIN nodes = NodesAt(Asked, level)
    PROVE  LET ps == Lonely(DOMAIN nodes)
           IN  /\ \A p \in DOMAIN nodes : Completed[p] = nodes[p]
               /\ \A i \in 1 .. Cardinality(ps) :
                     Completed[Sibling(Ascending(ps)[i])] = received.sibling_hashes[supplied + i]
<1> DEFINE ps == Lonely(DOMAIN nodes)
           order == Ascending(ps)
           Rank(p) == CHOOSE i \in DOMAIN order : order[i] = p
           D == DOMAIN nodes \cup {Sibling(q) : q \in DOMAIN nodes}
<1>1. \A p \in D : Completed[p] = IF p \in DOMAIN nodes THEN nodes[p]
                                  ELSE received.sibling_hashes[supplied + Rank(Sibling(p))]
  BY DEF Completed
<1>2. /\ ps \in SUBSET Level(level) /\ DOMAIN order = 1 .. Cardinality(ps)
      /\ \A k \in 1 .. Cardinality(ps) : order[k] \in ps
      /\ \A j, k \in 1 .. Cardinality(ps) : order[j] = order[k] => j = k
  <2>1. level \in 0 .. Height
    BY MerkleAssumption
  <2>2. QED
    BY <2>1, LonelyNodes
<1>3. \A p \in DOMAIN nodes : Completed[p] = nodes[p]
  BY <1>1
<1>4. ASSUME NEW i \in 1 .. Cardinality(ps)
      PROVE  Completed[Sibling(order[i])] = received.sibling_hashes[supplied + i]
  <2> DEFINE p == order[i]
  <2>1. p \in ps /\ p \in Level(level)
    BY <1>2
  <2>2. p \in DOMAIN nodes /\ Sibling(p) \notin DOMAIN nodes
    <3> HIDE DEF p
    <3>1. QED
      BY <2>1 DEF Lonely
  <2>3. Sibling(p) \in D
    <3> HIDE DEF p
    <3>1. QED
      BY <2>2
  <2>4. Sibling(Sibling(p)) = p
    <3> HIDE DEF p
    <3>1. QED
      BY <2>1, Sides
  <2>5. Rank(p) = i
    <3>1. i \in DOMAIN order /\ order[i] = p
      BY <1>2
    <3>2. Rank(p) \in DOMAIN order /\ order[Rank(p)] = p
      <4> HIDE DEF order, p
      <4>1. QED
        BY <3>1
    <3>3. QED
      <4> HIDE DEF order, p, Rank
      <4>1. QED
        BY <1>2, <3>1, <3>2
  <2>6. Completed[Sibling(p)] = received.sibling_hashes[supplied + Rank(Sibling(Sibling(p)))]
    <3> HIDE DEF p, D
    <3>1. QED
      BY <1>1, <2>2, <2>3
  <2>7. QED
    <3> HIDE DEF order, Rank
    <3>1. QED
      BY <2>4, <2>5, <2>6
<1>5. QED
  BY <1>3, <1>4

\* One more level, its siblings where the last ones ended.
LEMMA OpenLevelWalk ==
    ASSUME IInv, ReceivedInv, WalkInv, OpenLevel, ~Reject
    PROVE  (WalkTo(level))' /\ stage' = "open"
<1> DEFINE l == level
           A == Asked
           D == DOMAIN nodes
           ps == Lonely(NodesAt(A, l))
           n == Cardinality(ps)
           hashes == received.sibling_hashes
           off == Offsets(A)
<1>1. /\ stage = "open" /\ stage' = "open" /\ l < Height /\ level' = l + 1
      /\ supplied + Cardinality(Lonely(D)) <= Len(hashes)
      /\ known' = Append(known, Completed)
      /\ nodes' = [p \in Parents(D) |-> HashPair(Completed[2 * p], Completed[2 * p + 1])]
      /\ supplied' = supplied + Cardinality(Lonely(D))
      /\ received' = received /\ asked' = asked
  <2>1. /\ stage = "open" /\ l < Height /\ ~(supplied + Cardinality(Lonely(D)) > Len(hashes))
        /\ known' = Append(known, Completed)
        /\ nodes' = [p \in Parents(D) |-> HashPair(Completed[2 * p], Completed[2 * p + 1])]
        /\ supplied' = supplied + Cardinality(Lonely(D))
        /\ received' = received /\ asked' = asked /\ stage' = "open" /\ level' = l + 1
    BY DEF OpenLevel
  <2>2. WalkTo(l) /\ Readable(received) /\ level \in 0 .. Height /\ Asked \in SUBSET Leaves
    BY <2>1, Positions DEF WalkInv, ReceivedInv, IInv, Asked
  <2>3. Len(hashes) \in Nat
    BY <2>2 DEF Readable
  <2>4. supplied \in Nat /\ Cardinality(Lonely(D)) \in Nat
    <3>1. off[l] \in Nat /\ Cardinality(ps) \in Nat
      BY <2>2, OffsetsGrow, LonelyNodes
    <3>2. supplied = off[l] /\ D = NodesAt(A, l)
      BY <2>2 DEF WalkTo
    <3>3. QED
      BY <3>1, <3>2
  <2>5. QED
    BY <2>1, <2>3, <2>4
<1>2. /\ WalkTo(l) /\ l \in 0 .. Height - 1 /\ l \in 0 .. Height /\ l + 1 \in 0 .. Height
      /\ A \in SUBSET Leaves /\ l \in Nat
  BY <1>1, Positions, MerkleAssumption DEF WalkInv, IInv, Asked
<1>3. D = NodesAt(A, l) /\ Len(known) = l /\ supplied = off[l]
  BY <1>2 DEF WalkTo
<1>4. Parents(D) = NodesAt(A, l + 1)
  <2>1. NodesAt(A, l + 1) = Parents(NodesAt(A, l))
    <3> HIDE DEF l, A
    <3>1. QED
      BY <1>2, NodesUp
  <2>2. QED
    BY <1>3, <2>1
<1>5. /\ \A p \in D : Completed[p] = nodes[p]
      /\ \A i \in 1 .. n : Completed[Sibling(Ascending(ps)[i])] = hashes[off[l] + i]
  BY <1>2, <1>3, CompletedIs
<1>6. /\ \E S : known' \in Seq(S)
      /\ Len(known') = l + 1
      /\ \A i \in 1 .. l : known'[i] = known[i]
      /\ known'[l + 1] = Completed
  <2>1. \E S : known \in Seq(S)
    BY <1>2 DEF WalkTo
  <2> DEFINE e == Completed
  <2> HIDE DEF e
  <2>2. /\ \E S : Append(known, e) \in Seq(S)
        /\ Len(Append(known, e)) = Len(known) + 1
        /\ \A i \in 1 .. Len(known) : Append(known, e)[i] = known[i]
        /\ Append(known, e)[Len(known) + 1] = e
    BY <2>1, Appended, ZenonT(60)
  <2>3. known' = Append(known, e)
    BY <1>1 DEF e
  <2>4. QED
    <3> HIDE DEF l
    <3>1. QED
      BY <1>3, <2>2, <2>3 DEF e
<1>7. off[l + 1] = off[l] + n
  BY <1>2, OffsetsGrow
<1>8. Asked' = A
  BY <1>1 DEF Asked
<1>9. ASSUME NEW k \in 0 .. l, NEW p \in NodesAt(A, k)
      PROVE  Digest(k, p)' = Digest(k, p)
  <2>1. Digest(k, p)' = known'[k + 1][p]
    BY <1>2, <1>6 DEF Digest
  <2>2. CASE k = l
    <3>1. Digest(k, p) = nodes[p]
      BY <1>2, <1>3, <2>2 DEF Digest
    <3>2. known'[k + 1][p] = nodes[p]
      BY <1>3, <1>5, <1>6, <2>2
    <3>3. QED
      BY <2>1, <3>1, <3>2
  <2>3. CASE k # l
    <3>1. k < Len(known) /\ k + 1 \in 1 .. l
      BY <1>2, <1>3, <2>3
    <3>2. QED
      BY <1>6, <2>1, <3>1 DEF Digest
  <2>4. QED
    BY <2>2, <2>3
<1>10. \A p : RowAt(p)' = RowAt(p)
  BY <1>1 DEF RowAt
<1>11. \A p \in A : Digest(0, p)' = HashWords(Image(RowAt(p)))
  <2>1. 0 \in 0 .. l /\ NodesAt(A, 0) = A
    BY <1>2, NodesUp
  <2>2. \A p \in A : Digest(0, p) = HashWords(Image(RowAt(p)))
    BY <1>2 DEF WalkTo
  <2>3. QED
    BY <1>9, <2>1, <2>2
<1>12. ASSUME NEW k \in 0 .. l, NEW y \in NodesAt(A, k + 1)
       PROVE  Digest(k + 1, y)' = HashPair(known'[k + 1][2 * y], known'[k + 1][2 * y + 1])
  <2>1. CASE k = l
    <3>1. Digest(k + 1, y)' = nodes'[y]
      BY <1>2, <1>6, <2>1 DEF Digest
    <3>2. nodes'[y] = HashPair(Completed[2 * y], Completed[2 * y + 1])
      BY <1>1, <1>4, <2>1
    <3>3. QED
      BY <1>6, <2>1, <3>1, <3>2
  <2>2. CASE k # l
    <3>1. k \in 0 .. l - 1 /\ k + 1 \in 0 .. l /\ k + 1 \in 1 .. l
      BY <1>2, <2>2
    <3>2. Digest(k + 1, y) = HashPair(known[k + 1][2 * y], known[k + 1][2 * y + 1])
      BY <1>2, <3>1 DEF WalkTo
    <3>3. Digest(k + 1, y)' = Digest(k + 1, y)
      BY <1>9, <3>1
    <3>4. known'[k + 1] = known[k + 1]
      BY <1>6, <3>1
    <3>5. QED
      BY <3>2, <3>3, <3>4
  <2>3. QED
    BY <2>1, <2>2
<1>13. ASSUME NEW k \in 0 .. l, NEW i \in 1 .. Cardinality(Lonely(NodesAt(A, k)))
       PROVE  known'[k + 1][Sibling(Ascending(Lonely(NodesAt(A, k)))[i])] = hashes[off[k] + i]
  <2>1. CASE k = l
    BY <1>5, <1>6, <2>1
  <2>2. CASE k # l
    <3>1. k \in 0 .. l - 1 /\ k + 1 \in 1 .. l
      BY <1>2, <2>2
    <3>2. known[k + 1][Sibling(Ascending(Lonely(NodesAt(A, k)))[i])] = hashes[off[k] + i]
      BY <1>2, <3>1 DEF WalkTo
    <3>3. known'[k + 1] = known[k + 1]
      BY <1>6, <3>1
    <3>4. QED
      BY <3>2, <3>3
  <2>3. QED
    BY <2>1, <2>2
<1>14. QED
  <2>1. level' - 1 = l
    BY <1>1, <1>2
  <2>2. /\ \E S : known' \in Seq(S)
        /\ Len(known') = level'
    BY <1>1, <1>6
  <2>3. Cardinality(Asked') = Len(received'.leaf_data) /\ WidthMatches'
    BY <1>1, <1>2, <1>8 DEF WalkTo, WidthMatches
  <2>4. DOMAIN nodes' = NodesAt(Asked', level')
    BY <1>1, <1>4, <1>8
  <2>5. supplied' = Offsets(Asked')[level'] /\ supplied' <= Len(received'.sibling_hashes)
    BY <1>1, <1>3, <1>7, <1>8
  <2>6. \A p \in Asked' : Digest(0, p)' = HashWords(Image(RowAt(p)'))
    BY <1>8, <1>10, <1>11
  <2>7. \A k \in 0 .. level' - 1 : \A y \in NodesAt(Asked', k + 1) :
           Digest(k + 1, y)' = HashPair(known'[k + 1][2 * y], known'[k + 1][2 * y + 1])
    BY <1>8, <1>12, <2>1
  <2>8. \A k \in 0 .. level' - 1 : \A i \in 1 .. Cardinality(Lonely(NodesAt(Asked', k))) :
           known'[k + 1][Sibling(Ascending(Lonely(NodesAt(Asked', k)))[i])]
             = received'.sibling_hashes[Offsets(Asked')[k] + i]
    BY <1>1, <1>8, <1>13, <2>1
  <2>9. (WalkTo(level))'
    BY <2>2, <2>3, <2>4, <2>5, <2>6, <2>7, <2>8 DEF WalkTo
  <2>10. QED
    BY <1>1, <2>9

-----------------------------------------------------------------------------
(***************************************************************************)
(* Level by level: an honest phase rebuilds the tree from below, and a root*)
(* that is reached fixes it from above.                                    *)
(***************************************************************************)

\* A child of a node on the paths is on the paths, or is the sibling of one that is lonely.
LEMMA Children ==
    ASSUME NEW Q \in SUBSET Leaves, NEW k \in 0 .. Height - 1,
           NEW y \in NodesAt(Q, k + 1), NEW c \in {2 * y, 2 * y + 1}
    PROVE  LET ps == Lonely(NodesAt(Q, k))
           IN  \/ c \in NodesAt(Q, k)
               \/ \E i \in 1 .. Cardinality(ps) : c = Sibling(Ascending(ps)[i])
<1> DEFINE ps == Lonely(NodesAt(Q, k))
<1>1. k \in 0 .. Height
  BY MerkleAssumption
<1>2. PICK p \in NodesAt(Q, k) : y = p \div 2
  <2>1. NodesAt(Q, k + 1) = Parents(NodesAt(Q, k))
    BY NodesUp
  <2>2. QED
    BY <2>1 DEF Parents
<1>3. p \in Level(k)
  BY <1>1, NodesUp
<1>4. c = p \/ c = Sibling(p)
  BY <1>2, <1>3, Sides
<1>5. CASE c = Sibling(p) /\ c \notin NodesAt(Q, k)
  <2>1. p \in ps
    BY <1>5 DEF Lonely
  <2>2. \E i \in 1 .. Cardinality(ps) : Ascending(ps)[i] = p
    BY <1>1, <2>1, LonelyNodes
  <2>3. QED
    BY <1>5, <2>2
<1>6. QED
  BY <1>4, <1>5

\* The row at a position, by its place in the ascending order.
LEMMA RowIs ==
    ASSUME Asked \in SUBSET Leaves, IsFiniteSet(Asked)
    PROVE  /\ \A p \in Asked : \E j \in 1 .. Cardinality(Asked) :
                Ascending(Asked)[j] = p /\ RowAt(p) = received.leaf_data[j]
           /\ \A j \in 1 .. Cardinality(Asked) :
                Ascending(Asked)[j] \in Asked /\ RowAt(Ascending(Asked)[j]) = received.leaf_data[j]
<1> DEFINE order == Ascending(Asked)
           n == Cardinality(Asked)
           Place(p) == CHOOSE i \in DOMAIN order : order[i] = p
<1>1. Asked \in SUBSET Nat
  BY DEF Leaves
<1>2. /\ DOMAIN order = 1 .. n
      /\ \A k \in 1 .. n : order[k] \in Asked
      /\ \A p \in Asked : \E k \in 1 .. n : order[k] = p
      /\ \A j, k \in 1 .. n : order[j] = order[k] => j = k
  BY <1>1, Enumeration
<1>3. \A p : RowAt(p) = received.leaf_data[Place(p)]
  BY DEF RowAt, SortedUnique, Asked
<1> HIDE DEF order, n
<1>4. ASSUME NEW p \in Asked
      PROVE  Place(p) \in 1 .. n /\ order[Place(p)] = p
  <2>1. \E i \in DOMAIN order : order[i] = p
    BY <1>2
  <2>2. QED
    BY <1>2, <2>1
<1> HIDE DEF Place
<1>5. ASSUME NEW j \in 1 .. n
      PROVE  Place(order[j]) = j /\ order[j] \in Asked
  <2>1. order[j] \in Asked
    BY <1>2
  <2>2. Place(order[j]) \in 1 .. n /\ order[Place(order[j])] = order[j]
    BY <1>4, <2>1
  <2>3. QED
    BY <1>2, <2>1, <2>2
<1>6. QED
  BY <1>3, <1>4, <1>5 DEF order, n

\* An honest phase that is opened for the positions it was made for.
Honest == received = pruned /\ Asked = Queried

\* With an honest phase, what is rebuilt is the tree.
LEMMA HonestDigests ==
    ASSUME TreeInv, Len(tree) = Height + 1, rows \in Matrices, queries \in QueryLists,
           PrunedTo(Height), Honest, NEW l \in 0 .. Height, WalkTo(l)
    PROVE  \A k \in 0 .. l : \A p \in NodesAt(Asked, k) : Digest(k, p) = tree[k + 1][p]
<1> USE MerkleAssumption
<1> DEFINE A == Asked
           S == {k \in 0 .. l : \A p \in NodesAt(A, k) : Digest(k, p) = tree[k + 1][p]}
           off == Offsets(A)
           hashes == received.sibling_hashes
<1>1. A \in SUBSET Leaves /\ IsFiniteSet(A) /\ A = Queried
  BY Positions DEF Honest, Queried
<1>2. 0 \in S
  <2>1. ASSUME NEW p \in A
        PROVE  Digest(0, p) = tree[1][p]
    <3>1. PICK j \in 1 .. Cardinality(A) : Ascending(A)[j] = p /\ RowAt(p) = received.leaf_data[j]
      BY <1>1, RowIs
    <3>2. DOMAIN Ascending(A) = 1 .. Cardinality(A)
      BY DEF Ascending
    <3>3. received.leaf_data[j] = rows[p]
      <4>1. pruned.leaf_data = [i \in DOMAIN Ascending(Queried) |-> Row(Queried, i)]
        BY DEF PrunedTo
      <4>2. received.leaf_data = [i \in 1 .. Cardinality(A) |-> Row(A, i)]
        BY <1>1, <3>2, <4>1 DEF Honest
      <4> HIDE DEF A
      <4>3. received.leaf_data[j] = Row(A, j)
        BY <4>2
      <4>4. QED
        BY <3>1, <4>3 DEF Row
    <3>4. Digest(0, p) = HashWords(Image(rows[p]))
      BY <3>1, <3>3 DEF WalkTo
    <3>5. QED
      BY <1>1, <3>4 DEF TreeInv
  <2>2. NodesAt(A, 0) = A
    BY <1>1, NodesUp
  <2>3. QED
    BY <2>1, <2>2
<1>3. ASSUME NEW k \in 0 .. l - 1, k \in S
      PROVE  k + 1 \in S
  <2>1. k \in 0 .. Height - 1 /\ k + 1 \in 0 .. l /\ k \in 0 .. Height /\ k + 1 \in 0 .. Height
    OBVIOUS
  <2>2. Len(known) = l /\ k < Len(known)
    BY DEF WalkTo
  <2>3. ASSUME NEW y \in NodesAt(A, k + 1)
        PROVE  Digest(k + 1, y) = tree[k + 2][y]
    <3>1. ASSUME NEW c \in {2 * y, 2 * y + 1}
          PROVE  known[k + 1][c] = tree[k + 1][c]
      <4> DEFINE ps == Lonely(NodesAt(A, k))
      <4>1. CASE c \in NodesAt(A, k)
        <5>1. Digest(k, c) = tree[k + 1][c]
          BY <1>3, <4>1
        <5>2. QED
          BY <2>2, <5>1 DEF Digest
      <4>2. CASE \E i \in 1 .. Cardinality(ps) : c = Sibling(Ascending(ps)[i])
        <5>1. PICK i \in 1 .. Cardinality(ps) : c = Sibling(Ascending(ps)[i])
          BY <4>2
        <5>2. known[k + 1][c] = hashes[off[k] + i]
          BY <5>1 DEF WalkTo
        <5>3. hashes[off[k] + i] = SentSiblings(k, NodesAt(A, k))[i]
          BY <1>1, <2>1 DEF PrunedTo, Honest
        <5>4. SentSiblings(k, NodesAt(A, k))[i] = tree[k + 1][c]
          BY <1>1, <2>1, <5>1, SentIs
        <5>5. QED
          BY <5>2, <5>3, <5>4
      <4>3. c \in NodesAt(A, k) \/ \E i \in 1 .. Cardinality(ps) : c = Sibling(Ascending(ps)[i])
        <5> HIDE DEF A, S, off, hashes
        <5>1. QED
          BY <1>1, <2>1, Children DEF ps
      <4>4. QED
        BY <4>1, <4>2, <4>3
    <3>2. Digest(k + 1, y) = HashPair(known[k + 1][2 * y], known[k + 1][2 * y + 1])
      BY DEF WalkTo
    <3>3. y \in Level(k + 1)
      BY <1>1, <2>1, NodesUp
    <3>4. k \in 0 .. Len(tree) - 2
      BY <2>1
    <3>5. tree[k + 2][y] = HashPair(tree[k + 1][2 * y], tree[k + 1][2 * y + 1])
      BY <3>3, <3>4 DEF TreeInv
    <3>6. QED
      BY <3>1, <3>2, <3>5
  <2>4. k + 1 + 1 = k + 2
    BY <2>1
  <2>5. QED
    BY <2>1, <2>3, <2>4
<1>4. \A k \in 0 .. l : k \in S
  <2> HIDE DEF S
  <2>1. l \in Nat
    OBVIOUS
  <2>2. QED
    BY <1>2, <1>3, <2>1, UpTo
<1>5. QED
  BY <1>4

\* With the root reached, what was rebuilt is the tree, and so are the siblings received.
LEMMA RootedDigests ==
    ASSUME TreeInv, Len(tree) = Height + 1, asked \in QueryLists, WalkTo(Height), nodes[0] = Root
    PROVE  /\ \A k \in 0 .. Height : \A p \in NodesAt(Asked, k) : Digest(k, p) = tree[k + 1][p]
           /\ \A k \in 0 .. Height - 1 : \A y \in NodesAt(Asked, k + 1) :
                \A c \in {2 * y, 2 * y + 1} : known[k + 1][c] = tree[k + 1][c]
<1> USE MerkleAssumption
<1> DEFINE A == Asked
           Rebuilt(k) == \A p \in NodesAt(A, k) : Digest(k, p) = tree[k + 1][p]
           S == {j \in 0 .. Height : Rebuilt(Height - j)}
<1>1. A \in SUBSET Leaves /\ A # {}
  BY Positions DEF Asked
<1>2. Len(known) = Height
  BY DEF WalkTo
<1>3. Rebuilt(Height)
  <2>1. NodesAt(A, Height) = {0}
    BY <1>1, NodesUp
  <2>2. Digest(Height, 0) = nodes[0]
    BY <1>2 DEF Digest
  <2>3. QED
    BY <2>1, <2>2 DEF Root
<1>4. ASSUME NEW k \in 0 .. Height - 1, Rebuilt(k + 1), NEW y \in NodesAt(A, k + 1),
             NEW c \in {2 * y, 2 * y + 1}
      PROVE  known[k + 1][c] = tree[k + 1][c]
  <2>1. k + 1 \in 0 .. Height /\ k \in 0 .. Len(tree) - 2 /\ k + 1 + 1 = k + 2
    OBVIOUS
  <2>2. Digest(k + 1, y) = HashPair(known[k + 1][2 * y], known[k + 1][2 * y + 1])
    BY DEF WalkTo
  <2>3. y \in Level(k + 1)
    BY <1>1, <2>1, NodesUp
  <2>4. tree[k + 2][y] = HashPair(tree[k + 1][2 * y], tree[k + 1][2 * y + 1])
    BY <2>1, <2>3 DEF TreeInv
  <2>5. Digest(k + 1, y) = tree[k + 2][y]
    BY <1>4, <2>1
  <2>6. /\ known[k + 1][2 * y] = tree[k + 1][2 * y]
        /\ known[k + 1][2 * y + 1] = tree[k + 1][2 * y + 1]
    BY <2>2, <2>4, <2>5 DEF HashPair
  <2>7. QED
    BY <2>6
<1>5. ASSUME NEW k \in 0 .. Height - 1, Rebuilt(k + 1)
      PROVE  Rebuilt(k)
  <2>1. ASSUME NEW p \in NodesAt(A, k)
        PROVE  Digest(k, p) = tree[k + 1][p]
    <3>1. k \in 0 .. Height
      OBVIOUS
    <3>2. p \in Level(k)
      BY <1>1, <3>1, NodesUp
    <3>3. p \div 2 \in NodesAt(A, k + 1)
      <4>1. NodesAt(A, k + 1) = Parents(NodesAt(A, k))
        BY <1>1, NodesUp
      <4>2. QED
        BY <4>1 DEF Parents
    <3>4. p \in {2 * (p \div 2), 2 * (p \div 2) + 1}
      BY <3>2, Sides
    <3>5. known[k + 1][p] = tree[k + 1][p]
      BY <1>4, <1>5, <3>3, <3>4
    <3>6. QED
      BY <1>2, <3>5 DEF Digest
  <2>2. QED
    BY <2>1
<1>6. \A j \in 0 .. Height : j \in S
  <2>1. 0 \in S
    BY <1>3
  <2>2. ASSUME NEW j \in 0 .. Height - 1, j \in S
        PROVE  j + 1 \in S
    <3>1. Height - (j + 1) \in 0 .. Height - 1 /\ (Height - (j + 1)) + 1 = Height - j
      OBVIOUS
    <3>2. Rebuilt((Height - (j + 1)) + 1)
      BY <2>2, <3>1
    <3>3. Rebuilt(Height - (j + 1))
      BY <1>5, <3>1, <3>2
    <3>4. QED
      BY <3>3
  <2> HIDE DEF S
  <2>3. QED
    BY <2>1, <2>2, UpTo
<1>7. ASSUME NEW k \in 0 .. Height
      PROVE  Rebuilt(k)
  <2>1. Height - k \in 0 .. Height /\ Height - (Height - k) = k
    OBVIOUS
  <2>2. Rebuilt(Height - (Height - k))
    BY <1>6, <2>1
  <2>3. QED
    BY <2>1, <2>2
<1>8. ASSUME NEW k \in 0 .. Height - 1, NEW y \in NodesAt(A, k + 1), NEW c \in {2 * y, 2 * y + 1}
      PROVE  known[k + 1][c] = tree[k + 1][c]
  <2>1. k + 1 \in 0 .. Height
    OBVIOUS
  <2>2. QED
    BY <1>4, <1>7, <2>1
<1>9. QED
  BY <1>7, <1>8

\* The verifier refuses an honest phase nowhere: not its shape ...
LEMMA HonestLeaves ==
    ASSUME rows \in Matrices, queries \in QueryLists, PrunedTo(Height), Honest
    PROVE  Cardinality(Asked) = Len(received.leaf_data) /\ WidthMatches
<1> DEFINE Q == Queried
           data == pruned.leaf_data
<1>1. Q \in SUBSET Leaves /\ IsFiniteSet(Q)
  BY Positions DEF Queried
<1>2. Q \in SUBSET Nat
  BY <1>1 DEF Leaves
<1>3. /\ Cardinality(Q) \in Nat /\ DOMAIN Ascending(Q) = 1 .. Cardinality(Q)
      /\ \A k \in 1 .. Cardinality(Q) : Ascending(Q)[k] \in Q
  BY <1>1, <1>2, Enumeration
<1>4. rows \in [Leaves -> Rows] /\ RowWords \in Nat
  BY MerkleAssumption
<1>5. data = [i \in DOMAIN Ascending(Q) |-> Row(Q, i)]
  BY DEF PrunedTo
<1> HIDE DEF Q, data
<1>6. data = [i \in 1 .. Cardinality(Q) |-> Row(Q, i)]
  BY <1>3, <1>5
<1>7. \A i \in 1 .. Cardinality(Q) : Row(Q, i) \in Rows
  BY <1>1, <1>3, <1>4 DEF Row
<1>8. data \in Seq(Rows) /\ Len(data) = Cardinality(Q)
  BY <1>3, <1>6, <1>7
<1>9. \A i \in DOMAIN data : Len(data[i]) = RowWords
  <2>1. \A row \in Rows : Len(row) = RowWords
    BY <1>4 DEF Rows
  <2>2. QED
    BY <1>8, <2>1
<1>10. QED
  BY <1>8, <1>9 DEF Honest, WidthMatches, Q, data

\* ... nor the number of its siblings ...
LEMMA HonestLevel ==
    ASSUME asked \in QueryLists, queries \in QueryLists, PrunedTo(Height), Honest,
           level \in 0 .. Height - 1, WalkTo(level)
    PROVE  supplied + Cardinality(Lonely(DOMAIN nodes)) <= Len(received.sibling_hashes)
<1>1. Asked \in SUBSET Leaves /\ Asked = Queried
  BY Positions DEF Asked, Honest
<1>2. /\ level + 1 \in 0 .. Height /\ Height \in 0 .. Height
  BY MerkleAssumption
<1>3. /\ Offsets(Asked)[level + 1] = Offsets(Asked)[level] + Cardinality(Lonely(NodesAt(Asked, level)))
      /\ Offsets(Asked)[level + 1] <= Offsets(Asked)[Height]
  BY <1>1, <1>2, OffsetsGrow
<1>4. Len(received.sibling_hashes) = Offsets(Asked)[Height]
  BY <1>1 DEF PrunedTo, Honest
<1>5. supplied = Offsets(Asked)[level] /\ DOMAIN nodes = NodesAt(Asked, level)
  BY DEF WalkTo
<1>6. QED
  BY <1>3, <1>4, <1>5

\* ... nor the root it leads to.
LEMMA HonestRoot ==
    ASSUME TreeInv, Len(tree) = Height + 1, rows \in Matrices, queries \in QueryLists,
           PrunedTo(Height), Honest, WalkTo(Height)
    PROVE  Authentic
<1>1. Height \in 0 .. Height /\ Height \in Nat
  BY MerkleAssumption
<1>2. NodesAt(Asked, Height) = {0}
  BY Positions, NodesUp DEF Honest, Queried
<1>3. Digest(Height, 0) = tree[Height + 1][0]
  BY <1>1, <1>2, HonestDigests
<1>4. Digest(Height, 0) = nodes[0]
  BY <1>1 DEF Digest, WalkTo
<1>5. supplied = Len(received.sibling_hashes)
  BY DEF WalkTo, PrunedTo, Honest
<1>6. QED
  BY <1>3, <1>4, <1>5 DEF Authentic, Root

-----------------------------------------------------------------------------
(***************************************************************************)
(* The invariant holds, and what follows from it.                          *)
(***************************************************************************)

\* A step of the prover, which leaves the verifier's side alone.
LEMMA ProverKeeps ==
    ASSUME FullInv, PruneInv', UNCHANGED verifying, stage \in {"commit", "prune"},
           stage' \in {"commit", "prune", "send"}
    PROVE  ReceivedInv' /\ WalkInv' /\ HonestOpens'
<1>1. ReceivedInv'
  BY DEF FullInv, ReceivedInv, verifying
<1>2. WalkInv' /\ HonestOpens'
  BY DEF WalkInv, HonestOpens
<1>3. QED
  BY <1>1, <1>2

\* A rejection leaves everything but the stage.
LEMMA RejectKeeps ==
    ASSUME FullInv, Reject, stage \in {"leaves", "open"}, ~Honest
    PROVE  PruneInv' /\ ReceivedInv' /\ WalkInv' /\ HonestOpens'
<1>1. /\ rows' = rows /\ tree' = tree /\ queries' = queries /\ pruned' = pruned
      /\ received' = received /\ asked' = asked /\ stage' = "rejected"
  BY DEF Reject, commitment, proving, verifying
<1>2. PruneInv'
  BY <1>1, PrunedKept DEF FullInv
<1>3. ReceivedInv' /\ WalkInv'
  BY <1>1 DEF ReceivedInv, WalkInv
<1>4. HonestOpens'
  BY <1>1 DEF HonestOpens, Honest, Asked, Queried
<1>5. QED
  BY <1>2, <1>3, <1>4

\* What arrives is a phase, whatever happened to it.
LEMMA ReceiveKeeps ==
    ASSUME FullInv, Receive
    PROVE  PruneInv' /\ ReceivedInv' /\ WalkInv' /\ HonestOpens'
<1>1. /\ stage = "send" /\ stage' = "leaves" /\ rows' = rows /\ tree' = tree
      /\ queries' = queries /\ pruned' = pruned /\ known' = known /\ supplied' = supplied
      /\ received' \in Damaged(pruned)
  BY DEF Receive, commitment, proving
<1>2. PruneInv'
  BY <1>1, PrunedKept DEF FullInv
<1>3. Readable(received')
  <2>1. rows \in Matrices /\ queries \in QueryLists /\ PrunedTo(Height)
    BY <1>1 DEF FullInv, PruneInv
  <2>2. QED
    BY <1>1, <2>1, Arriving
<1>4. ReceivedInv'
  BY <1>1, <1>3 DEF FullInv, ReceivedInv, Readable
<1>5. WalkInv' /\ HonestOpens'
  BY <1>1 DEF WalkInv, HonestOpens
<1>6. QED
  BY <1>2, <1>4, <1>5

\* Steps of the verifier that are not rejections.
LEMMA OpeningKeeps ==
    ASSUME FullInv, UNCHANGED <<rows, tree, queries, pruned, received>>,
           stage \in {"leaves", "open"}, stage' \in {"open", "opened"}, WalkInv'
    PROVE  PruneInv' /\ ReceivedInv' /\ WalkInv' /\ HonestOpens'
<1>1. PruneInv'
  BY PrunedKept DEF FullInv
<1>2. ReceivedInv'
  BY DEF FullInv, ReceivedInv, Readable
<1>3. QED
  BY <1>1, <1>2 DEF HonestOpens

\* The steps of the verifier, whether they reject or go on.
LEMMA VerifierKeeps ==
    ASSUME FullInv, OpenLeaves \/ OpenLevel \/ EndOpen
    PROVE  PruneInv' /\ ReceivedInv' /\ WalkInv' /\ HonestOpens'
<1>1. stage \in {"leaves", "open"}
  BY DEF OpenLeaves, OpenLevel, EndOpen
<1>2. /\ rows \in Matrices /\ queries \in QueryLists /\ PrunedTo(Height)
      /\ TreeInv /\ Len(tree) = Height + 1 /\ asked \in QueryLists /\ level \in 0 .. Height
  BY <1>1 DEF FullInv, PruneInv, IInv, TreeInv
<1>3. CASE Reject
  <2>1. stage' = "rejected"
    BY <1>3 DEF Reject
  <2>2. ASSUME Honest
        PROVE  FALSE
    <3>1. CASE OpenLeaves
      BY <1>2, <2>1, <2>2, <3>1, HonestLeaves DEF OpenLeaves, Asked
    <3>2. CASE OpenLevel
      <4>1. stage = "open" /\ level \in 0 .. Height - 1 /\ WalkTo(level)
        BY <1>2, <3>2, MerkleAssumption DEF OpenLevel, FullInv, WalkInv
      <4>2. supplied + Cardinality(Lonely(DOMAIN nodes)) <= Len(received.sibling_hashes)
        BY <1>2, <2>2, <4>1, HonestLevel
      <4>3. Len(received.sibling_hashes) \in Nat
        BY <4>1 DEF FullInv, ReceivedInv, Readable
      <4>4. supplied + Cardinality(Lonely(DOMAIN nodes)) > Len(received.sibling_hashes)
        BY <2>1, <3>2, <4>1 DEF OpenLevel
      <4>5. supplied + Cardinality(Lonely(DOMAIN nodes)) \in Nat
        <5>1. Asked \in SUBSET Leaves /\ level \in 0 .. Height
          BY <1>2, Positions DEF Asked
        <5>2. Offsets(Asked)[level] \in Nat /\ Cardinality(Lonely(NodesAt(Asked, level))) \in Nat
          BY <5>1, OffsetsGrow, LonelyNodes
        <5>3. QED
          BY <4>1, <5>2 DEF WalkTo
      <4>6. QED
        BY <4>2, <4>3, <4>4, <4>5
    <3>3. CASE EndOpen
      <4>1. stage = "open" /\ level = Height /\ WalkTo(Height)
        BY <3>3 DEF EndOpen, FullInv, WalkInv
      <4>2. Authentic
        BY <1>2, <2>2, <4>1, HonestRoot
      <4>3. QED
        BY <2>1, <3>3, <4>2 DEF EndOpen
    <3>4. QED
      BY <3>1, <3>2, <3>3
  <2>3. QED
    BY <1>1, <1>3, <2>2, RejectKeeps
<1>4. CASE ~Reject
  <2>1. CASE OpenLeaves
    <3>1. (WalkTo(level))' /\ stage' = "open"
      BY <1>4, <2>1, OpenLeavesWalk DEF FullInv
    <3>2. UNCHANGED <<rows, tree, queries, pruned, received>>
      BY <1>4, <2>1 DEF OpenLeaves, commitment, proving
    <3>3. WalkInv'
      BY <3>1 DEF WalkInv
    <3>4. QED
      BY <1>1, <3>1, <3>2, <3>3, OpeningKeeps
  <2>2. CASE OpenLevel
    <3>1. (WalkTo(level))' /\ stage' = "open"
      BY <1>4, <2>2, OpenLevelWalk DEF FullInv
    <3>2. UNCHANGED <<rows, tree, queries, pruned, received>>
      BY <1>4, <2>2 DEF OpenLevel, commitment, proving
    <3>3. WalkInv'
      BY <3>1 DEF WalkInv
    <3>4. QED
      BY <1>1, <3>1, <3>2, <3>3, OpeningKeeps
  <2>3. CASE EndOpen
    <3>1. /\ stage = "open" /\ level = Height /\ stage' = "opened" /\ Authentic
          /\ UNCHANGED <<rows, tree, queries, pruned, received, asked, nodes, known, supplied>>
      BY <1>4, <2>3 DEF EndOpen, commitment, proving, verifying
    <3>2. WalkTo(Height)
      BY <3>1 DEF FullInv, WalkInv
    <3>3. (WalkTo(Height))'
      BY <3>1, <3>2, WalkKept
    <3>4. Authentic'
      BY <3>1 DEF Authentic, Root
    <3>5. WalkInv'
      BY <3>1, <3>3, <3>4 DEF WalkInv
    <3>6. QED
      BY <1>1, <3>1, <3>5, OpeningKeeps
  <2>4. QED
    BY <2>1, <2>2, <2>3
<1>5. QED
  BY <1>3, <1>4

\* The strengthening of MerkleInvariant: what is pruned and what is rebuilt, level by level.
THEOREM WalkInvariant == Spec => []FullInv
<1>1. Init => FullInv
  <2>1. Init => IInv
    BY InitHolds
  <2>2. Init => PruneInv /\ ReceivedInv /\ WalkInv /\ HonestOpens
    BY DEF Init, PruneInv, ReceivedInv, WalkInv, HonestOpens
  <2>3. QED
    BY <2>1, <2>2 DEF FullInv
<1>2. ASSUME FullInv, IInv', [Next]_vars
      PROVE  FullInv'
  <2>1. IInv /\ PruneInv
    BY <1>2 DEF FullInv
  <2>2. CASE HashLevel
    <3>1. /\ UNCHANGED verifying /\ stage = "commit" /\ stage' = "commit"
          /\ rows' = rows /\ queries' = queries
      BY <2>2 DEF HashLevel, proving
    <3>2. PruneInv'
      BY <2>1, <3>1 DEF PruneInv
    <3>3. QED
      BY <1>2, <3>1, <3>2, ProverKeeps DEF FullInv
  <2>3. CASE StartPrune
    <3>1. UNCHANGED verifying /\ stage = "commit" /\ stage' = "prune"
      BY <2>3 DEF StartPrune
    <3>2. QED
      BY <1>2, <2>1, <2>3, <3>1, StartPruneKeeps, ProverKeeps DEF FullInv
  <2>4. CASE PruneLevel
    <3>1. UNCHANGED verifying /\ stage = "prune" /\ stage' = "prune"
      BY <2>1, <2>4 DEF PruneLevel
    <3>2. QED
      BY <1>2, <2>1, <2>4, <3>1, PruneLevelKeeps, ProverKeeps DEF FullInv
  <2>5. CASE EndPrune
    <3>1. /\ UNCHANGED verifying /\ stage = "prune" /\ stage' = "send" /\ level = Height
          /\ UNCHANGED <<rows, tree, queries, pruned>>
      BY <2>5 DEF EndPrune, commitment
    <3>2. PruneInv'
      BY <2>1, <3>1, PrunedKept
    <3>3. QED
      BY <1>2, <3>1, <3>2, ProverKeeps DEF FullInv
  <2>6. CASE Receive
    BY <1>2, <2>6, ReceiveKeeps DEF FullInv
  <2>7. CASE OpenLeaves \/ OpenLevel \/ EndOpen
    BY <1>2, <2>7, VerifierKeeps DEF FullInv
  <2>8. CASE UNCHANGED vars
    <3>1. /\ UNCHANGED <<rows, tree, queries, pruned, active, level, stage>>
          /\ UNCHANGED <<received, asked, nodes, known, supplied>>
      BY <2>8 DEF vars, commitment, proving, verifying
    <3>2. ASSUME NEW l, PrunedTo(l)
          PROVE  (PrunedTo(l))'
      <4>1. \A i : Row(Queried, i)' = Row(Queried, i)
        BY <3>1 DEF Row, Queried
      <4>2. \A k : SentSiblings(k, NodesAt(Queried, k))' = SentSiblings(k, NodesAt(Queried, k))
        BY <3>1 DEF SentSiblings, Queried
      <4>3. Queried' = Queried
        BY <3>1 DEF Queried
      <4>4. QED
        BY <3>1, <3>2, <4>1, <4>2, <4>3 DEF PrunedTo
    <3>3. PruneInv'
      <4>1. Queried' = Queried
        BY <3>1 DEF Queried
      <4>2. stage = "prune" => (PrunedTo(level))'
        <5>1. stage = "prune" => PrunedTo(level)
          BY <2>1 DEF PruneInv
        <5>2. stage = "prune" => (PrunedTo(level))'
          BY <3>1, <3>2, <5>1 DEF PrunedTo
        <5>3. QED
          BY <5>2
      <4>3. QED
        BY <2>1, <3>1, <3>2, <4>1, <4>2 DEF PruneInv
    <3>4. ReceivedInv' /\ HonestOpens'
      BY <1>2, <3>1 DEF FullInv, ReceivedInv, Readable, HonestOpens
    <3>5. WalkInv'
      <4>1. stage = "open" => (WalkTo(level))'
        <5>1. ASSUME stage = "open"
              PROVE  (WalkTo(level))'
          <6>1. WalkTo(level)
            BY <1>2, <5>1 DEF FullInv, WalkInv
          <6>2. QED
            BY <3>1, <6>1, WalkKept DEF WalkTo
        <5>2. QED
          BY <5>1
      <4>2. stage = "opened" => (WalkTo(Height))' /\ Authentic'
        BY <1>2, <3>1, WalkKept DEF FullInv, WalkInv, Authentic, Root
      <4>3. QED
        BY <3>1, <4>1, <4>2 DEF WalkInv
    <3>6. QED
      BY <1>2, <3>3, <3>4, <3>5 DEF FullInv
  <2>9. QED
    BY <1>2, <2>2, <2>3, <2>4, <2>5, <2>6, <2>7, <2>8 DEF Next
<1>3. QED
  BY <1>1, <1>2, MerkleInvariant, PTL DEF Spec

\* "prune and open walk the levels in lockstep": what the prover sends is accepted for
\* the positions it opened, in any order and however often, in a tree of any height.
THEOREM HonestPhasesOpen == Spec => []HonestOpens
<1>1. FullInv => HonestOpens
  BY DEF FullInv
<1>2. QED
  BY <1>1, WalkInvariant, PTL

\* Two rows of one width with the same image are the same.
LEMMA ImageInjective ==
    ASSUME NEW r \in Seq(Words), NEW s \in Seq(Words), Len(r) = RowWords, Len(s) = RowWords,
           Image(r) = Image(s)
    PROVE  r = s
<1>1. RowWords \in Nat /\ LeafWords \in Nat /\ RowWords <= LeafWords
  BY MerkleAssumption
<1>2. ASSUME NEW i \in 1 .. RowWords
      PROVE  r[i] = s[i]
  <2> DEFINE j == i + (LeafWords - RowWords)
  <2>1. j \in 1 .. LeafWords /\ ~(j <= LeafWords - RowWords) /\ j - (LeafWords - RowWords) = i
    BY <1>1
  <2> HIDE DEF j
  <2>2. Image(r)[j] = r[i]
    BY <2>1 DEF Image
  <2>3. Image(s)[j] = s[i]
    BY <2>1 DEF Image
  <2>4. QED
    BY <2>2, <2>3
<1>3. QED
  BY <1>1, <1>2

\* An accepted phase for the positions queried is the one pruned: the same rows, since
\* they are committed, and the same siblings, from the root down.
LEMMA OneForm ==
    ASSUME FullInv, stage = "opened", Asked = Queried
    PROVE  received = pruned
<1> USE MerkleAssumption
<1> DEFINE Q == Asked
           n == Cardinality(Q)
           data == received.leaf_data
           made == pruned.leaf_data
           hashes == received.sibling_hashes
           sent == pruned.sibling_hashes
           off == Offsets(Q)
<1>1. /\ rows \in Matrices /\ queries \in QueryLists /\ PrunedTo(Height)
      /\ TreeInv /\ Len(tree) = Height + 1 /\ asked \in QueryLists
      /\ WalkTo(Height) /\ Authentic /\ Readable(received)
      /\ \A q \in Q : Committed(q)
  BY DEF FullInv, PruneInv, IInv, TreeInv, WalkInv, ReceivedInv, Asked
<1>2. Q \in SUBSET Leaves /\ IsFiniteSet(Q) /\ Q # {}
  BY <1>1, Positions DEF Asked
<1>3. Q \in SUBSET Nat
  BY <1>2 DEF Leaves
<1>4. /\ n \in Nat /\ DOMAIN Ascending(Q) = 1 .. n
      /\ \A k \in 1 .. n : Ascending(Q)[k] \in Q
  BY <1>2, <1>3, Enumeration
<1>5. data = made
  <2>1. made = [i \in 1 .. n |-> Row(Q, i)]
    <3>1. made = [i \in DOMAIN Ascending(Queried) |-> Row(Queried, i)]
      BY <1>1 DEF PrunedTo
    <3>2. QED
      BY <1>4, <3>1
  <2>2. data \in Seq(Seq(Words)) /\ Len(data) = n /\ \A i \in DOMAIN data : Len(data[i]) = RowWords
    BY <1>1 DEF Readable, WalkTo, WidthMatches
  <2>3. rows \in [Leaves -> Rows] /\ Rows \in SUBSET Seq(Words)
        /\ \A row \in Rows : Len(row) = RowWords
    <3>1. Rows \in SUBSET Seq(Words) /\ \A row \in Rows : Len(row) = RowWords
      BY DEF Rows
    <3>2. QED
      BY <1>1, <3>1
  <2>4. ASSUME NEW j \in 1 .. n
        PROVE  data[j] = Row(Q, j)
    <3> DEFINE p == Ascending(Q)[j]
    <3>1. p \in Q /\ RowAt(p) = data[j]
      BY <1>2, RowIs
    <3>2. Row(Q, j) = rows[p]
      BY DEF Row
    <3> HIDE DEF p, n
    <3>3. Image(data[j]) = Image(rows[p])
      BY <1>1, <3>1 DEF Committed
    <3>4. data[j] \in Seq(Words) /\ Len(data[j]) = RowWords
      BY <2>2
    <3>5. rows[p] \in Seq(Words) /\ Len(rows[p]) = RowWords
      BY <1>2, <2>3, <3>1
    <3>6. data[j] = rows[p]
      BY <3>3, <3>4, <3>5, ImageInjective
    <3>7. QED
      BY <3>2, <3>6
  <2> HIDE DEF data, made, n, Q
  <2>5. data = [i \in 1 .. n |-> data[i]]
    BY <1>4, <2>2
  <2>6. QED
    BY <2>1, <2>4, <2>5
<1>6. hashes = sent
  <2>1. Len(hashes) = off[Height] /\ Len(sent) = off[Height]
    BY <1>1 DEF WalkTo, Authentic, PrunedTo
  <2>2. (\E S : hashes \in Seq(S)) /\ \E S : sent \in Seq(S)
    BY <1>1 DEF Readable, PrunedTo
  <2>3. ASSUME NEW k \in 0 .. Height - 1, NEW i \in 1 .. Cardinality(Lonely(NodesAt(Q, k)))
        PROVE  hashes[off[k] + i] = sent[off[k] + i]
    <3> DEFINE ps == Lonely(NodesAt(Q, k))
               p == Ascending(ps)[i]
               y == p \div 2
    <3>1. k \in 0 .. Height
      OBVIOUS
    <3>2. p \in NodesAt(Q, k) /\ p \in Level(k)
      BY <1>2, <3>1, LonelyNodes
    <3>3. hashes[off[k] + i] = known[k + 1][Sibling(p)]
      BY <1>1 DEF WalkTo
    <3>4. sent[off[k] + i] = tree[k + 1][Sibling(p)]
      <4>1. sent[off[k] + i] = SentSiblings(k, NodesAt(Q, k))[i]
        BY <1>1 DEF PrunedTo
      <4>2. SentSiblings(k, NodesAt(Q, k))[i] = tree[k + 1][Sibling(p)]
        BY <1>2, <3>1, SentIs
      <4>3. QED
        BY <4>1, <4>2
    <3> HIDE DEF p
    <3>5. y \in NodesAt(Q, k + 1)
      <4>1. NodesAt(Q, k + 1) = Parents(NodesAt(Q, k))
        BY <1>2, NodesUp
      <4>2. QED
        BY <3>2, <4>1 DEF Parents
    <3>6. Sibling(p) \in {2 * y, 2 * y + 1}
      BY <3>2, Sides
    <3> HIDE DEF y
    <3>7. known[k + 1][Sibling(p)] = tree[k + 1][Sibling(p)]
      BY <1>1, <3>5, <3>6, RootedDigests DEF Authentic
    <3>8. QED
      BY <3>3, <3>4, <3>7
  <2>4. \A j \in 1 .. off[Height] : hashes[j] = sent[j]
    <3>1. \A j \in 1 .. off[Height] : \E k \in 0 .. Height - 1 :
             \E i \in 1 .. Cardinality(Lonely(NodesAt(Q, k))) : j = off[k] + i
      BY <1>2, OffsetsGrow
    <3> HIDE DEF off, hashes, sent
    <3>2. QED
      BY <2>3, <3>1
  <2>5. PICK S, T : hashes \in Seq(S) /\ sent \in Seq(T)
    BY <2>2
  <2> HIDE DEF hashes, sent, off
  <2>6. hashes \in Seq(S \cup T) /\ sent \in Seq(S \cup T)
    BY <2>5
  <2>7. QED
    BY <2>1, <2>4, <2>6
<1>7. /\ received = [leaf_data |-> data, sibling_hashes |-> hashes]
      /\ pruned = [leaf_data |-> made, sibling_hashes |-> sent]
  BY <1>1 DEF Readable, PrunedTo
<1>8. QED
  <2> HIDE DEF data, made, hashes, sent
  <2>1. QED
    BY <1>5, <1>6, <1>7

\* "A phase has one form": a proof that verifies cannot be changed into another that does.
THEOREM PhasesHaveOneForm == Spec => []AcceptedIsPruned
<1>1. FullInv => AcceptedIsPruned
  BY OneForm DEF AcceptedIsPruned, Asked, Queried
<1>2. QED
  BY <1>1, WalkInvariant, PTL

\* The walk up the i-th path meets the digests that were rebuilt.
LEMMA PathWalk ==
    ASSUME asked \in QueryLists, WalkTo(Height), NEW i \in DOMAIN asked
    PROVE  RawRoot(Opening(i)) = nodes[0]
<1> USE MerkleAssumption
<1> DEFINE q == asked[i]
           path == [l \in 1 .. Height |-> known[l][Sibling(q \div 2 ^ (l - 1))]]
           leaf == HashWords(Image(RowAt(q)))
           op == Opening(i)
           Body(f) == [l \in 0 .. Height |->
                         IF l = 0 THEN HashWords(op.leaf_data)
                         ELSE IF (op.leaf_index \div 2 ^ (l - 1)) % 2 = 0
                              THEN HashPair(f[l - 1], op.path[l])
                              ELSE HashPair(op.path[l], f[l - 1])]
           w == [l \in 0 .. Height |-> Digest(l, q \div 2 ^ l)]
           walk == CHOOSE f : f = Body(f)
<1>1. Asked \in SUBSET Leaves /\ q \in Asked
  <2>1. q \in Asked
    BY DEF Asked, ToSet
  <2>2. QED
    BY <2>1, Positions DEF Asked
<1>2. RawRoot(op) = walk[Height]
  <2> HIDE DEF op
  <2>1. QED
    BY Zenon DEF RawRoot
<1>13. op.leaf_index = q /\ HashWords(op.leaf_data) = leaf /\ op.path = path
  BY DEF Opening
<1>3. q \in Nat
  BY <1>1 DEF Leaves
<1>4. \A l \in 0 .. Height : q \div 2 ^ l \in NodesAt(Asked, l)
  BY <1>1 DEF NodesAt
<1>5. Len(known) = Height
  BY DEF WalkTo
<1>6. w[0] = leaf
  <2>1. 0 \in Nat /\ 0 \in 0 .. Height
    OBVIOUS
  <2>20. q \div 2 ^ 0 = q
    <3>1. ASSUME NEW x \in Nat
          PROVE  x \div 2 ^ 0 = x
      BY <2>1, Halving
    <3>2. QED
      BY <1>3, <3>1
  <2>2. Digest(0, q) = leaf
    BY <1>1 DEF WalkTo
  <2>3. QED
    BY <2>1, <2>20, <2>2
<1>7. ASSUME NEW l \in 1 .. Height
      PROVE  w[l] = IF (q \div 2 ^ (l - 1)) % 2 = 0
                    THEN HashPair(w[l - 1], path[l]) ELSE HashPair(path[l], w[l - 1])
  <2> DEFINE k == l - 1
             p == q \div 2 ^ k
             y == p \div 2
  <2>1. k \in 0 .. Height - 1 /\ k \in 0 .. Height /\ k + 1 = l /\ k \in Nat
    OBVIOUS
  <2>2. y = q \div 2 ^ l
    <3>1. ASSUME NEW x \in Nat, NEW j \in Nat
          PROVE  (x \div 2 ^ j) \div 2 = x \div 2 ^ (j + 1)
      BY Halving
    <3> HIDE DEF q, k
    <3>2. (q \div 2 ^ k) \div 2 = q \div 2 ^ (k + 1)
      BY <1>3, <2>1, <3>1
    <3>3. QED
      BY <2>1, <3>2
  <2>3. p \in NodesAt(Asked, k) /\ y \in NodesAt(Asked, k + 1)
    BY <1>4, <2>1, <2>2
  <2>4. p \in Level(k)
    BY <1>1, <2>1, <2>3, NodesUp
  <2>5. Digest(l, y) = HashPair(known[l][2 * y], known[l][2 * y + 1])
    BY <2>1, <2>3, ZenonT(60) DEF WalkTo
  <2>6. Digest(k, p) = known[l][p]
    BY <1>5, <2>1 DEF Digest
  <2>7. path[l] = known[l][Sibling(p)]
    BY <2>1
  <2>8. w[l] = Digest(l, y) /\ w[l - 1] = Digest(k, p)
    <3>1. w[l] = Digest(l, q \div 2 ^ l) /\ w[k] = Digest(k, q \div 2 ^ k)
      BY <2>1
    <3>2. QED
      BY <2>2, <3>1
  <2>9. \/ p % 2 = 0 /\ p = 2 * y /\ Sibling(p) = 2 * y + 1
        \/ p % 2 # 0 /\ p = 2 * y + 1 /\ Sibling(p) = 2 * y
    BY <2>1, <2>4, Sides
  <2> HIDE DEF w, path, p, y
  <2>10. CASE p % 2 = 0 /\ p = 2 * y /\ Sibling(p) = 2 * y + 1
    <3>1. w[l] = HashPair(w[l - 1], path[l])
      BY <2>5, <2>6, <2>7, <2>8, <2>10
    <3>2. QED
      BY <2>10, <3>1 DEF p
  <2>11. CASE p % 2 # 0 /\ p = 2 * y + 1 /\ Sibling(p) = 2 * y
    <3>1. w[l] = HashPair(path[l], w[l - 1])
      BY <2>5, <2>6, <2>7, <2>8, <2>11
    <3>2. QED
      BY <2>11, <3>1 DEF p
  <2>12. QED
    BY <2>9, <2>10, <2>11
<1>8. w = Body(w)
  <2>1. w = [l \in 0 .. Height |-> w[l]]
    OBVIOUS
  <2> HIDE DEF w, path, leaf, op, q
  <2>2. \A l \in 0 .. Height : w[l] = Body(w)[l]
    <3>1. ASSUME NEW l \in 0 .. Height
          PROVE  w[l] = Body(w)[l]
      <4>1. CASE l = 0
        BY <1>6, <1>13, <4>1
      <4>2. CASE l # 0
        <5>1. l \in 1 .. Height
          BY <4>2
        <5>2. QED
          BY <1>7, <1>13, <4>2, <5>1
      <4>3. QED
        BY <4>1, <4>2
    <3>2. QED
      BY <3>1
  <2>3. Body(w) = [l \in 0 .. Height |-> Body(w)[l]]
    OBVIOUS
  <2> HIDE DEF Body
  <2>4. QED
    BY <2>1, <2>2, <2>3
<1>9. walk = Body(walk)
  <2> HIDE DEF Body, w
  <2>1. QED
    BY <1>8
<1>10. \A l \in 0 .. Height : walk[l] = w[l]
  <2> HIDE DEF w, walk, path, leaf, op, q
  <2> DEFINE S == {l \in 0 .. Height : walk[l] = w[l]}
  <2>1. 0 \in S
    <3>1. 0 \in 0 .. Height
      OBVIOUS
    <3>2. walk[0] = leaf
      BY <1>9, <1>13, <3>1
    <3>3. QED
      BY <1>6, <3>1, <3>2
  <2>2. ASSUME NEW l \in 0 .. Height - 1, l \in S
        PROVE  l + 1 \in S
    <3>1. l + 1 \in 1 .. Height /\ l + 1 \in 0 .. Height /\ (l + 1) - 1 = l /\ l + 1 # 0
      OBVIOUS
    <3>2. walk[l + 1] = IF (q \div 2 ^ l) % 2 = 0
                        THEN HashPair(walk[l], path[l + 1]) ELSE HashPair(path[l + 1], walk[l])
      BY <1>9, <1>13, <3>1
    <3>3. w[l + 1] = IF (q \div 2 ^ l) % 2 = 0
                     THEN HashPair(w[l], path[l + 1]) ELSE HashPair(path[l + 1], w[l])
      BY <1>7, <3>1
    <3>4. walk[l] = w[l]
      BY <2>2
    <3>5. QED
      BY <3>1, <3>2, <3>3, <3>4
  <2>3. \A l \in 0 .. Height : l \in S
    <3> HIDE DEF S
    <3>1. QED
      BY <2>1, <2>2, UpTo
  <2>4. QED
    BY <2>3
<1>11. w[Height] = nodes[0]
  <2>1. Height \in 0 .. Height
    OBVIOUS
  <2>2. q \div 2 ^ Height \in {0}
    BY <1>1, <1>4, <2>1, NodesUp
  <2>3. Digest(Height, 0) = nodes[0]
    BY <1>5 DEF Digest
  <2>4. QED
    BY <2>1, <2>2, <2>3
<1>12. QED
  <2>1. Height \in 0 .. Height
    OBVIOUS
  <2>2. QED
    BY <1>2, <1>10, <1>11, <2>1

\* "Each unpruned path must reach the root": the guest that walks the expanded paths of an
\* accepted phase, one by one, gets to the root each time.
THEOREM PathsLeadToTheRoot == Spec => []PathsReachTheRoot
<1>1. ASSUME FullInv
      PROVE  PathsReachTheRoot
  <2>1. ASSUME stage = "opened", NEW i \in DOMAIN asked
        PROVE  RawRoot(Opening(i)) = Root
    <3>1. asked \in QueryLists /\ WalkTo(Height) /\ nodes[0] = Root
      BY <1>1, <2>1 DEF FullInv, IInv, WalkInv, Authentic
    <3>2. QED
      BY <3>1, PathWalk
  <2>2. QED
    BY <2>1 DEF PathsReachTheRoot
<1>2. QED
  BY <1>1, WalkInvariant, PTL

=============================================================================
