------------------------------- MODULE MCPool -------------------------------
(***************************************************************************)
(* Small instances of Pool for TLC.                                        *)
(***************************************************************************)
EXTENDS Pool, TLC

\* Callers contend with Few items each. MaxTasks items, enough for claims of
\* more than one, are asked for by a caller while no other has called yet.
Few == 3

WithinBounds ==
    \A d \in Dispatchers :
        \/ tasks'[d] \in {0, Few}
        \/ /\ tasks'[d] = MaxTasks
           /\ \A e \in Dispatchers \ {d} : pc'[e] = "idle" /\ outcome'[e] = "none"

BoundedSpec == Init /\ [][Next /\ WithinBounds]_vars

\* The threads of a kind are interchangeable: no action and no invariant
\* orders them (safety runs only).
Symmetry == Permutations(Dispatchers) \cup Permutations(Workers)
=============================================================================
