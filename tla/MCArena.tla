------------------------------ MODULE MCArena -------------------------------
(***************************************************************************)
(* Small instances of Arena for TLC.  Many buffers and many phases at once *)
(* are out of reach, so a behaviour picks one of two scenes when it starts *)
(* and stays within it.                                                    *)
(***************************************************************************)
EXTENDS Arena, FiniteSets, TLC

CONSTANTS
    Owner,      \* the thread that opens the first phase, and not the second
    Worker,     \* a thread that opens none
    Pair        \* the two handles of the second scene

VARIABLE scene

mcvars == <<vars, scene>>

Request(size, align) == [size |-> size, align |-> align]

\* Below the cache line; a line; a line and a half aligned to two lines, which leaves
\* a gap where it is bumped and a remainder where it is carved.
MixedRequests == {Request(1, 1), Request(2, 1), Request(3, 4)}

\* Half a slab; a whole one.
LargeRequests == {Request(4, 1), Request(8, 1)}

AllRequests == MixedRequests \cup LargeRequests

\* Four buffers in one phase on the slab of its opener, which another thread
\* releases into; the system serves none while it is open.
Buffers ==
    /\ Steps({Owner, Worker}, Vecs, MixedRequests)
    /\ generation = 1 => opener' = None
    /\ slab'[Worker] = slab[Worker]
    /\ active' => \A v \in Vecs : vec'[v] # SystemVec

\* Two buffers over two phases, with more threads than slabs.
Phases ==
    /\ Steps(Threads, Pair, LargeRequests)
    /\ generation = 1 => opener' # Owner

MCInit == Init /\ scene \in {"buffers", "phases"}

MCNext ==
    /\ \/ scene = "buffers" /\ Buffers
       \/ scene = "phases" /\ Phases
    /\ ~guard'[Worker] /\ opener' # Worker
    /\ generation = 0 => opener' \in {None, Owner}
    /\ UNCHANGED scene

MCSpec == MCInit /\ [][MCNext]_mcvars

\* Handles are interchangeable.
Symmetry == Permutations(Vecs)

=============================================================================
