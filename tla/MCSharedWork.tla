---------------------------- MODULE MCSharedWork ----------------------------
(***************************************************************************)
(* Small instances, for TLC, of what is built on the pool: the search for a *)
(* nonce (Grind) and the fold of items into slots (Reduce), a behaviour     *)
(* being of one of them.                                                   *)
(***************************************************************************)
EXTENDS Grind

CONSTANTS NumThreads, MaxItems

ASSUME SharedWorkAssumption == NumThreads \in Nat \ {0} /\ MaxItems \in Nat

VARIABLES scene, items, unclaimed, claim, partial, slot, result, done

Fold == INSTANCE Reduce WITH n <- items, next <- unclaimed

foldVars == <<items, unclaimed, claim, partial, slot, result, done>>
mcvars == <<vars, foldVars, scene>>

MCInit ==
    /\ scene \in {"search", "fold"}
    /\ Init /\ Fold!Init
    /\ IF scene = "search" THEN items = 0 ELSE hits = {}

MCNext ==
    /\ \/ scene = "search" /\ Next /\ UNCHANGED foldVars
       \/ scene = "fold" /\ Fold!Next /\ UNCHANGED vars
    /\ UNCHANGED scene

MCSpec == MCInit /\ [][MCNext]_mcvars /\ WF_mcvars(MCNext)

\* "map_reduce": however the claims fall, every item is in the result, once.
EachItemOnce == scene = "fold" => Fold!EachItemOnce
=============================================================================
