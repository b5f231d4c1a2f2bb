------------------------------- MODULE Reduce -------------------------------
(***************************************************************************)
(* map_reduce, fold_reduce and map_reduce_with_state of crates/parallel:   *)
(* every worker folds the ranges it claims into a slot of its own, and the *)
(* dispatcher combines the slots in worker order. The value of a partial   *)
(* is the sequence of the items folded into it, the free monoid: what the  *)
(* reduction of any associative operator is computed from.                 *)
(*                                                                         *)
(* The pool is taken at its word (module Pool): claims tile 0 .. n - 1 in  *)
(* any batches, and the dispatcher goes on when all claims have returned.  *)
(***************************************************************************)
EXTENDS Integers, SequencesExt

CONSTANTS
    NumThreads,     \* num_threads(), one or more: worker ids are 0 .. NumThreads - 1
    MaxItems        \* the largest n_tasks

WorkerIds == 0 .. NumThreads - 1

VARIABLES
    n,          \* n_tasks
    next,       \* the first item that is not claimed
    claim,      \* claim[w]: the range w is folding, from start up to end
    partial,    \* partial[w]: what w took out of its slot when it started
    slot,       \* the slots, << >> for None
    result,     \* the combined value, once computed
    done

vars == <<n, next, claim, partial, slot, result, done>>

NoRange == [start |-> 0, end |-> 0]

Init ==
    /\ n \in 0 .. MaxItems
    /\ next = 0
    /\ claim = [w \in WorkerIds |-> NoRange]
    /\ partial = [w \in WorkerIds |-> << >>]
    /\ slot = [w \in WorkerIds |-> << >>]
    /\ result = << >>
    /\ done = FALSE

\* Variant: a worker id that is not unique.
SharedSlot(w) == 0

\* WORKER_ID of the thread that drains as w.
SlotOf(w) == w

\* A claim of any length; the closure takes the partial out of the slot.
TakeSlot(w) ==
    /\ claim[w] = NoRange
    /\ \E end \in next + 1 .. n :
        /\ claim' = [claim EXCEPT ![w] = [start |-> next, end |-> end]]
        /\ next' = end
    /\ partial' = [partial EXCEPT ![w] = slot[SlotOf(w)]]
    /\ slot' = [slot EXCEPT ![SlotOf(w)] = << >>]
    /\ UNCHANGED <<n, result, done>>

\* The items of a range, in order.
ItemsOf(r) == [i \in 1 .. r.end - r.start |-> r.start + i - 1]

\* The fold of the range, seeded by the partial, goes back into the slot.
PutSlot(w) ==
    /\ claim[w] # NoRange
    /\ slot' = [slot EXCEPT ![SlotOf(w)] = partial[w] \o ItemsOf(claim[w])]
    /\ claim' = [claim EXCEPT ![w] = NoRange]
    /\ partial' = [partial EXCEPT ![w] = << >>]
    /\ UNCHANGED <<n, next, result, done>>

\* The slots in the order of the worker ids, None left out.
Combine ==
    /\ ~done /\ next = n
    /\ \A w \in WorkerIds : claim[w] = NoRange
    /\ done' = TRUE
    /\ result' = FlattenSeq([i \in 1 .. NumThreads |-> slot[i - 1]])
    /\ UNCHANGED <<n, next, claim, partial, slot>>

Next == Combine \/ \E w \in WorkerIds : TakeSlot(w) \/ PutSlot(w)

\* Every claimed range is folded and the dispatcher combines.
Spec == Init /\ [][Next]_vars

-----------------------------------------------------------------------------
\* "map_reduce": however the claims fall, every item is in the result, once.
EachItemOnce == done => Len(result) = n /\ ToSet(result) = 0 .. n - 1

\* The doc of map_reduce: "(0..n).map(map).reduce(identity, reduce)", where
\* reduce only has to be associative: the items are combined in their order.
ReducesInItemOrder == done => \A i \in 1 .. n : result[i] = i - 1

=============================================================================
