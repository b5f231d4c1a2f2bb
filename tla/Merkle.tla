------------------------------- MODULE Merkle -------------------------------
(***************************************************************************)
(* One opening phase of a committed tree: crates/fiat_shamir merkle.rs,    *)
(* with the committer of crates/pcs merkle.rs. The committer hashes its    *)
(* rows and builds the tree level by level; the prover sends the rows at   *)
(* the distinct queried positions and one pruned set of siblings (an       *)
(* octopus) for all of them; the verifier rebuilds every queried path up   *)
(* to the root it knows. What it receives need not be what was sent, and   *)
(* the positions it asks for are its own.                                  *)
(*                                                                         *)
(* A digest is the term it was made from: BLAKE2s has no collisions. A     *)
(* definition commented "Variant" is a plausible fault of the one it       *)
(* precedes; it is used by nothing and is there to be swapped in.          *)
(***************************************************************************)
EXTENDS Naturals, FiniteSets, Sequences, SequencesExt

CONSTANTS
    Height,     \* the tree has 2^Height leaves
    Words,      \* what a row is made of
    RowWords,   \* the width of a stored row
    LeafWords,  \* the width of the image it hashes to
    Matrices,   \* what may be committed: a row for each leaf
    QueryLists  \* what may be asked, with duplicates and in any order

Leaves == 0 .. 2 ^ Height - 1
Rows == [1 .. RowWords -> Words]

ASSUME MerkleAssumption ==
    /\ Height \in Nat
    /\ RowWords \in Nat \ {0} /\ LeafWords \in Nat /\ RowWords <= LeafWords
    /\ 0 \in Words
    /\ Matrices \subseteq [Leaves -> Rows]
    /\ QueryLists \subseteq Seq(Leaves) \ {<<>>}

VARIABLES
    rows,       \* the committed matrix
    tree,       \* its levels, leaves first
    stage,
    level,      \* the level of the current walk
    queries,    \* the positions the prover opens
    pruned,     \* the PrunedMerklePaths it makes
    active,     \* the nodes of the level on a queried path
    received,   \* the phase the verifier reads
    asked,      \* the positions it asks for
    nodes,      \* the rebuilt digests of the level
    known,      \* the levels rebuilt so far, siblings included
    supplied    \* how many of the siblings are used

commitment == <<rows, tree>>
proving == <<queries, pruned, active>>
verifying == <<received, asked, nodes, known, supplied>>
vars == <<commitment, stage, level, proving, verifying>>

-----------------------------------------------------------------------------
\* The words a leaf hashes: the row after its omitted zero prefix.
Image(row) ==
    [i \in 1 .. LeafWords |->
        IF i <= LeafWords - Len(row) THEN 0 ELSE row[i - (LeafWords - Len(row))]]

HashWords(image) == [leaf |-> image]
HashPair(left, right) == [left |-> left, right |-> right]

Sibling(p) == IF p % 2 = 0 THEN p + 1 ELSE p - 1

Parents(ps) == {p \div 2 : p \in ps}

\* The nodes whose sibling is not on a queried path itself.
Lonely(ps) == {p \in ps : Sibling(p) \notin ps}

Ascending(ps) ==
    [k \in 1 .. Cardinality(ps) |-> CHOOSE p \in ps : Cardinality({q \in ps : q <= p}) = k]

SortedUnique(qs) == Ascending(ToSet(qs))

NoPaths == [leaf_data |-> <<>>, sibling_hashes |-> <<>>]

Init ==
    /\ rows \in Matrices
    /\ tree = <<[p \in Leaves |-> HashWords(Image(rows[p]))]>>
    /\ stage = "commit" /\ level = 0
    /\ queries \in QueryLists /\ pruned = NoPaths /\ active = {}
    /\ asked = queries /\ received = NoPaths
    /\ nodes = <<>> /\ known = <<>> /\ supplied = 0

\* Internal levels: parallel within a level, sequential across levels.
HashLevel ==
    /\ stage = "commit" /\ Len(tree) <= Height
    /\ LET below == tree[Len(tree)]
       IN  tree' = Append(tree, [p \in 0 .. 2 ^ (Height - Len(tree)) - 1 |->
                                    HashPair(below[2 * p], below[2 * p + 1])])
    /\ UNCHANGED <<rows, stage, level, proving, verifying>>

-----------------------------------------------------------------------------
(***************************************************************************)
(* PrunedMerklePaths::prune, by the prover.                                *)
(***************************************************************************)

StartPrune ==
    /\ stage = "commit" /\ Len(tree) = Height + 1
    /\ stage' = "prune"
    /\ active' = ToSet(queries)
    /\ pruned' = [leaf_data |-> [i \in DOMAIN SortedUnique(queries) |->
                                    rows[SortedUnique(queries)[i]]],
                  sibling_hashes |-> <<>>]
    /\ UNCHANGED <<commitment, level, queries, verifying>>

\* Variant: every active node has its sibling sent.
EverySibling(l, ps) ==
    LET order == Ascending(ps)
    IN  [i \in DOMAIN order |-> tree[l + 1][Sibling(order[i])]]

\* The siblings that a level sends, ascending.
SentSiblings(l, ps) ==
    LET order == Ascending(Lonely(ps))
    IN  [i \in DOMAIN order |-> tree[l + 1][Sibling(order[i])]]

PruneLevel ==
    /\ stage = "prune" /\ level < Height
    /\ pruned' = [pruned EXCEPT !.sibling_hashes = @ \o SentSiblings(level, active)]
    /\ active' = Parents(active)
    /\ level' = level + 1
    /\ UNCHANGED <<commitment, stage, queries, verifying>>

EndPrune ==
    /\ stage = "prune" /\ level = Height
    /\ stage' = "send" /\ level' = 0 /\ active' = {}
    /\ UNCHANGED <<commitment, queries, pruned, verifying>>

-----------------------------------------------------------------------------
(***************************************************************************)
(* PrunedMerklePaths::open, by the verifier.                               *)
(***************************************************************************)

\* What may arrive: the phase sent, or one with a sibling too many, too few or
\* changed, or with a row missing, changed or wider.
Damaged(paths) ==
    LET data == paths.leaf_data
        hashes == paths.sibling_hashes
        foreign == HashWords(Image(<<0>>))
    IN  {paths, [paths EXCEPT !.sibling_hashes = Append(@, foreign)],
         [paths EXCEPT !.leaf_data = Tail(@)]}
        \cup {[paths EXCEPT !.sibling_hashes = [@ EXCEPT ![i] = foreign]] :
                i \in DOMAIN hashes}
        \cup {[paths EXCEPT !.sibling_hashes = SubSeq(@, 1, i - 1)] : i \in DOMAIN hashes}
        \cup {[paths EXCEPT !.leaf_data[i] = row] : i \in DOMAIN data, row \in Rows}
        \cup {[paths EXCEPT !.leaf_data[i] = <<0>> \o @] : i \in DOMAIN data}

Receive ==
    /\ stage = "send"
    /\ \E paths \in Damaged(pruned), qs \in QueryLists :
        received' = paths /\ asked' = qs
    /\ stage' = "leaves"
    /\ UNCHANGED <<commitment, level, proving, nodes, known, supplied>>

Reject ==
    /\ stage' = "rejected"
    /\ UNCHANGED <<commitment, level, proving, verifying>>

\* Variant: any width that fits the image will do.
WidthFits == \A i \in DOMAIN received.leaf_data : Len(received.leaf_data[i]) <= LeafWords

\* Every row has the announced width.
WidthMatches == \A i \in DOMAIN received.leaf_data : Len(received.leaf_data[i]) = RowWords

\* The stored row of a position that is asked for.
RowAt(p) ==
    received.leaf_data[CHOOSE i \in DOMAIN SortedUnique(asked) : SortedUnique(asked)[i] = p]

OpenLeaves ==
    /\ stage = "leaves"
    /\ IF Cardinality(ToSet(asked)) = Len(received.leaf_data) /\ WidthMatches
       THEN /\ nodes' = [p \in ToSet(asked) |-> HashWords(Image(RowAt(p)))]
            /\ stage' = "open"
            /\ UNCHANGED <<commitment, level, proving, received, asked, known, supplied>>
       ELSE Reject

\* A level complete with its siblings: rebuilt, or the next ones supplied.
Completed ==
    LET order == Ascending(Lonely(DOMAIN nodes))
        Rank(p) == CHOOSE i \in DOMAIN order : order[i] = p
    IN  [p \in DOMAIN nodes \cup {Sibling(q) : q \in DOMAIN nodes} |->
            IF p \in DOMAIN nodes THEN nodes[p]
            ELSE received.sibling_hashes[supplied + Rank(Sibling(p))]]

OpenLevel ==
    /\ stage = "open" /\ level < Height
    /\ LET needed == Cardinality(Lonely(DOMAIN nodes))
       IN  IF supplied + needed > Len(received.sibling_hashes)
           THEN Reject
           ELSE /\ known' = Append(known, Completed)
                /\ nodes' = [p \in Parents(DOMAIN nodes) |->
                                HashPair(Completed[2 * p], Completed[2 * p + 1])]
                /\ supplied' = supplied + needed
                /\ level' = level + 1
                /\ UNCHANGED <<commitment, stage, proving, received, asked>>

Root == tree[Height + 1][0]

\* Variant: siblings may be left over.
RootReached == nodes[0] = Root

\* Variant: the root is not looked at.
SuppliedUp == supplied = Len(received.sibling_hashes)

\* The last fold leaves exactly the root, and nothing is left over.
Authentic == nodes[0] = Root /\ supplied = Len(received.sibling_hashes)

EndOpen ==
    /\ stage = "open" /\ level = Height
    /\ IF Authentic
       THEN stage' = "opened" /\ UNCHANGED <<commitment, level, proving, verifying>>
       ELSE Reject

\* Variant: rows in the order they are stored.
OpeningStored(i) ==
    LET q == asked[i]
    IN  [leaf_index |-> q,
         leaf_data |-> Image(received.leaf_data[IF i \in DOMAIN received.leaf_data
                                                THEN i ELSE 1]),
         path |-> [l \in 1 .. Height |-> known[l][Sibling(q \div 2 ^ (l - 1))]]]

\* The i-th RawMerklePath, in the order of the queries.
Opening(i) ==
    LET q == asked[i]
    IN  [leaf_index |-> q, leaf_data |-> Image(RowAt(q)),
         path |-> [l \in 1 .. Height |-> known[l][Sibling(q \div 2 ^ (l - 1))]]]

\* RawMerklePath::root: a walk up one path.
RawRoot(opening) ==
    LET walk[l \in 0 .. Height] ==
            IF l = 0 THEN HashWords(opening.leaf_data)
            ELSE IF (opening.leaf_index \div 2 ^ (l - 1)) % 2 = 0
                 THEN HashPair(walk[l - 1], opening.path[l])
                 ELSE HashPair(opening.path[l], walk[l - 1])
    IN  walk[Height]

Next ==
    \/ HashLevel \/ StartPrune \/ PruneLevel \/ EndPrune
    \/ Receive \/ OpenLeaves \/ OpenLevel \/ EndOpen

Spec == Init /\ [][Next]_vars

-----------------------------------------------------------------------------
(***************************************************************************)
(* Properties.                                                             *)
(***************************************************************************)

\* "Authenticate this phase against root": whatever arrives and whatever is
\* asked, an accepted opening holds the row that was committed at its query.
AcceptedRowsAreCommitted ==
    stage = "opened" =>
        \A i \in DOMAIN asked : Opening(i).leaf_data = Image(rows[asked[i]])

\* prune and open walk the levels in lockstep: what the prover sends is accepted
\* for the positions it opened, however the queries are ordered or repeated.
HonestOpens ==
    stage = "rejected" => received # pruned \/ ToSet(asked) # ToSet(queries)

\* A phase has one form: nothing but what prune sends is accepted, so a proof
\* cannot be changed into another that verifies.
AcceptedIsPruned ==
    stage = "opened" /\ ToSet(asked) = ToSet(queries) => received = pruned

\* "Each unpruned path must reach the root": the expansion that the recursion
\* guest consumes is as good as the pruned form.
PathsReachTheRoot ==
    stage = "opened" => \A i \in DOMAIN asked : RawRoot(Opening(i)) = Root

=============================================================================
