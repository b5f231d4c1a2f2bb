------------------------------ MODULE MCMerkle ------------------------------
(***************************************************************************)
(* Small instances of Merkle for TLC.                                      *)
(***************************************************************************)
EXTENDS Merkle

Bits == {0, 1}

\* A matrix of equal rows and one of mixed rows, of one word under an image of two.
SomeMatrices ==
    {[p \in Leaves |-> <<0>>], [p \in Leaves |-> <<IF p \in {1, 2, 7} THEN 1 ELSE 0>>]}

\* Every list of up to two queries, and longer ones: siblings, cousins, repeated,
\* unordered, all.
SomeLists ==
    UNION {[1 .. n -> Leaves] : n \in 1 .. 2}
    \cup {<<5, 1, 5, 3, 1>>, <<2, 5, 4>>, <<6, 0, 7, 3>>, <<0, 1, 2, 3, 4, 5, 6, 7>>}
=============================================================================
