-------------------------------- MODULE Arena --------------------------------
(***************************************************************************)
(* The phase arena of crates/zk_alloc: one slab per thread, bumped inside  *)
(* a phase, with a per-thread free list of released large blocks, and one  *)
(* generation counter whose bump abandons every slab at once.              *)
(*                                                                         *)
(* A buffer (an ArenaVec) is a handle any thread may release: parallel     *)
(* stages build buffers on the workers and drop them on the dispatcher.    *)
(* Growing a buffer is an allocation and then a release, by one thread.    *)
(* An allocation and a release touch only the thread-local slab and read   *)
(* the phase, so each is one action; opening a phase is two stores, hence  *)
(* two actions. Addresses are in units of the smallest request.            *)
(*                                                                         *)
(* A definition commented "Variant" is a plausible fault of the one it     *)
(* precedes; it is used by nothing and is there to be swapped in.          *)
(***************************************************************************)
EXTENDS Integers, Sequences

CONSTANTS
    Threads,
    Vecs,           \* the handles: as many buffers exist at once
    Requests,       \* the (size, align) pairs asked for
    MaxSlabs,       \* max_threads(): cores + SLACK
    SlabSize,       \* SLAB_SIZE
    CacheLine,      \* CACHE_LINE
    ReuseMin,       \* REUSE_MIN
    FreeListCap,    \* FREE_LIST_CAP
    MaxPhases,      \* bound on the phases of a behaviour
    KeepsStale,     \* whether callers keep a buffer into a later phase
    None

ASSUME ArenaAssumption ==
    /\ Requests \subseteq [size : Nat \ {0}, align : Nat \ {0}]
    \* A Layout's alignment is a power of two, and so is the cache line.
    /\ \A r \in Requests : r.align >= CacheLine => r.align % CacheLine = 0
    /\ MaxSlabs \in Nat /\ MaxPhases \in Nat /\ FreeListCap \in Nat
    /\ SlabSize \in Nat \ {0}
    /\ CacheLine \in Nat \ {0} /\ SlabSize % CacheLine = 0
    /\ ReuseMin \in Nat /\ ReuseMin >= CacheLine
    /\ KeepsStale \in BOOLEAN
    /\ None \notin Threads

\* The pointers outside the reservation, which the system allocator serves.
System == 0

\* The reservation starts above zero, the BASE of a thread without a slab.
SlabBase(i) == (i + 1) * SlabSize

Region == SlabSize .. SlabBase(MaxSlabs) - 1

NoVec == [addr |-> System, size |-> 0, phase |-> 0]

SystemVec == [addr |-> System, size |-> 1, phase |-> 0]

VARIABLES
    enabled,        \* ARENA_ENGAGED
    active,         \* ARENA_ACTIVE
    generation,     \* GENERATION
    opener,         \* the thread between the two stores of begin_phase, or None
    guard,          \* guard[t]: t holds a PhaseGuard
    nextSlab,       \* NEXT_SLAB
    overflow,       \* OVERFLOW_BYTES is not zero
    highWater,      \* HIGH_WATER
    slab,           \* slab[t]: BASE, GEN, PTR, HIGH, FREE and NO_SLAB of t
    vec             \* vec[v]: the block the handle v owns, or NoVec

phases == <<enabled, active, generation, opener, guard>>
stats  == <<overflow, highWater>>
vars   == <<phases, nextSlab, stats, slab, vec>>

Blocks == [addr : Nat, size : Nat]

Slabs == [base : Nat, gen : Nat, ptr : Nat, high : Nat, free : Seq(Blocks),
          noSlab : BOOLEAN]

Init ==
    /\ enabled = FALSE
    /\ active = FALSE
    /\ generation = 0
    /\ opener = None
    /\ guard = [t \in Threads |-> FALSE]
    /\ nextSlab = 0
    /\ overflow = FALSE
    /\ highWater = 0
    /\ slab = [t \in Threads |->
                [base |-> 0, gen |-> 0, ptr |-> 0, high |-> 0, free |-> << >>,
                 noSlab |-> FALSE]]
    /\ vec = [v \in Vecs |-> NoVec]

-----------------------------------------------------------------------------
(***************************************************************************)
(* Addresses and the free list.                                            *)
(***************************************************************************)

EffectiveAlign(size, align) ==
    IF size >= CacheLine /\ align < CacheLine THEN CacheLine ELSE align

AlignUp(addr, align) == ((addr + align - 1) \div align) * align

Larger(x, y) == IF x > y THEN x ELSE y

End(s) == IF s.base = 0 THEN 0 ELSE s.base + SlabSize

\* The last entry takes the place of the removed one.
RemoveAt(free, i) ==
    [j \in 1 .. Len(free) - 1 |-> IF j = i THEN free[Len(free)] ELSE free[j]]

Fits(free, size) == {i \in 1 .. Len(free) : free[i].size >= size}

FirstFit(free, size) == CHOOSE i \in Fits(free, size) : \A j \in Fits(free, size) : i <= j

\* Variant: the remainder starts where the served block starts.
CarveInPlace(free, i, size) ==
    LET b == free[i]
        rest == AlignUp(b.addr, CacheLine)
        left == b.addr + b.size - rest
    IN  IF left >= ReuseMin
        THEN [free EXCEPT ![i] = [addr |-> rest, size |-> left]]
        ELSE RemoveAt(free, i)

\* The entry i serves size units from its low end; the rest stays when it is
\* large enough, realigned.
Carve(free, i, size) ==
    LET b == free[i]
        rest == AlignUp(b.addr + size, CacheLine)
        left == b.addr + b.size - rest
    IN  IF left >= ReuseMin
        THEN [free EXCEPT ![i] = [addr |-> rest, size |-> left]]
        ELSE RemoveAt(free, i)

\* Variant: the swapped-in entry is not examined.
MergeSkipping(free, addr, size) ==
    LET pass[k \in 0 .. Len(free)] ==
            IF k = 0 THEN [free |-> free, at |-> 1, addr |-> addr, size |-> size]
            ELSE LET p == pass[k - 1]
                 IN  IF p.at > Len(p.free) THEN p
                     ELSE LET b == p.free[p.at]
                          IN  CASE b.addr + b.size = p.addr ->
                                     [free |-> RemoveAt(p.free, p.at), at |-> p.at + 1,
                                      addr |-> b.addr, size |-> p.size + b.size]
                                [] p.addr + p.size = b.addr ->
                                     [free |-> RemoveAt(p.free, p.at), at |-> p.at + 1,
                                      addr |-> p.addr, size |-> p.size + b.size]
                                [] OTHER -> [p EXCEPT !.at = @ + 1]
    IN  pass[Len(free)]

\* An iteration: an adjacent entry joins the union and the swapped-in one is
\* examined next.
MergeStep(p) ==
    IF p.at > Len(p.free) THEN p
    ELSE LET b == p.free[p.at]
         IN  CASE b.addr + b.size = p.addr ->
                    [free |-> RemoveAt(p.free, p.at), at |-> p.at,
                     addr |-> b.addr, size |-> p.size + b.size]
               [] p.addr + p.size = b.addr ->
                    [free |-> RemoveAt(p.free, p.at), at |-> p.at,
                     addr |-> p.addr, size |-> p.size + b.size]
               [] OTHER -> [p EXCEPT !.at = @ + 1]

\* The single pass of FreeList::merge: an iteration per entry it started with.
Merge(free, addr, size) ==
    LET pass[k \in 0 .. Len(free)] ==
            IF k = 0 THEN [free |-> free, at |-> 1, addr |-> addr, size |-> size]
            ELSE MergeStep(pass[k - 1])
    IN  pass[Len(free)]

Store(free, block) == IF Len(free) < FreeListCap THEN Append(free, block) ELSE free

-----------------------------------------------------------------------------
(***************************************************************************)
(* Phases.                                                                 *)
(***************************************************************************)

\* Once at startup, before any proving.
EnableArena ==
    /\ ~enabled
    /\ \A t \in Threads : ~guard[t]
    /\ enabled' = TRUE
    /\ UNCHANGED <<active, generation, opener, guard, nextSlab, stats, slab, vec>>

\* Until then the guard is inert.
EnterInert(t) ==
    /\ ~enabled /\ ~guard[t]
    /\ guard' = [guard EXCEPT ![t] = TRUE]
    /\ UNCHANGED <<enabled, active, generation, opener, nextSlab, stats, slab, vec>>

\* The contract of the callers: "values that outlive a phase must use Vec".
MayBegin == KeepsStale \/ \A v \in Vecs : vec[v].addr = System

\* Variant: a phase that is already open is not noticed.
BeginNested(t) ==
    /\ enabled /\ opener = None /\ ~guard[t]
    /\ generation < MaxPhases
    /\ MayBegin
    /\ active' = TRUE
    /\ opener' = t
    /\ UNCHANGED <<enabled, generation, guard, nextSlab, stats, slab, vec>>

\* The swap of ARENA_ACTIVE. Where a phase is open already the swap changes
\* nothing and the caller panics without a guard.
BeginPhase(t) ==
    /\ enabled /\ ~active
    /\ generation < MaxPhases
    /\ MayBegin
    /\ active' = TRUE
    /\ opener' = t
    /\ UNCHANGED <<enabled, generation, guard, nextSlab, stats, slab, vec>>

BumpGeneration(t) ==
    /\ opener = t
    /\ opener' = None
    /\ generation' = generation + 1
    /\ guard' = [guard EXCEPT ![t] = TRUE]
    /\ UNCHANGED <<enabled, active, nextSlab, stats, slab, vec>>

\* The guard is dropped, on return or on unwind.
EndPhase(t) ==
    /\ guard[t]
    /\ guard' = [guard EXCEPT ![t] = FALSE]
    /\ active' = IF enabled THEN FALSE ELSE active
    /\ UNCHANGED <<enabled, generation, opener, nextSlab, stats, slab, vec>>

-----------------------------------------------------------------------------
(***************************************************************************)
(* Allocation: raw_alloc and alloc_slow.                                   *)
(***************************************************************************)

\* The handle v is given the block at addr.
Serve(v, r, addr) ==
    /\ vec[v] = NoVec
    /\ vec' = [vec EXCEPT ![v] = [addr |-> addr, size |-> r.size, phase |-> generation]]

\* A block of the system allocator: nothing depends on its size or its phase.
ServeSystem(v) ==
    /\ vec[v] = NoVec
    /\ vec' = [vec EXCEPT ![v] = SystemVec]

\* begin_phase relies on this: no allocation runs while a phase is opening.
MayAllocate == opener = None

Current(s) == s.gen = generation

Reuses(s, r) ==
    /\ r.size >= ReuseMin
    /\ EffectiveAlign(r.size, r.align) <= CacheLine
    /\ Fits(s.free, r.size) # {}

\* The block the bump would serve from the cursor.
Bumped(s, r) == AlignUp(s.ptr, EffectiveAlign(r.size, r.align))

BumpFits(s, r) == Bumped(s, r) + r.size <= End(s)

\* Outside a phase.
AllocSystem(t, v, r) ==
    /\ MayAllocate /\ ~active
    /\ ServeSystem(v)
    /\ UNCHANGED <<phases, nextSlab, stats, slab>>

AllocReuse(t, v, r) ==
    /\ MayAllocate /\ active /\ Current(slab[t])
    /\ Reuses(slab[t], r)
    /\ LET i == FirstFit(slab[t].free, r.size)
       IN  /\ Serve(v, r, slab[t].free[i].addr)
           /\ slab' = [slab EXCEPT ![t].free = Carve(@, i, r.size)]
    /\ UNCHANGED <<phases, nextSlab, stats>>

AllocBump(t, v, r) ==
    /\ MayAllocate /\ active /\ Current(slab[t])
    /\ ~Reuses(slab[t], r)
    /\ BumpFits(slab[t], r)
    /\ Serve(v, r, Bumped(slab[t], r))
    /\ slab' = [slab EXCEPT ![t].ptr = Bumped(slab[t], r) + r.size]
    /\ UNCHANGED <<phases, nextSlab, stats>>

\* The slab is exhausted, or the thread has none.
AllocOverflow(t, v, r) ==
    /\ MayAllocate /\ active
    /\ \/ slab[t].noSlab /\ ~Current(slab[t])
       \/ Current(slab[t]) /\ ~Reuses(slab[t], r) /\ ~BumpFits(slab[t], r)
    /\ ServeSystem(v)
    /\ overflow' = TRUE
    /\ UNCHANGED <<phases, nextSlab, highWater, slab>>

\* More allocating threads than slabs: this one uses the system from now on.
AllocNoSlab(t, v, r) ==
    /\ MayAllocate /\ active /\ ~slab[t].noSlab /\ ~Current(slab[t])
    /\ slab[t].base = 0
    /\ nextSlab >= MaxSlabs
    /\ nextSlab' = nextSlab + 1
    /\ slab' = [slab EXCEPT ![t].noSlab = TRUE]
    /\ ServeSystem(v)
    /\ UNCHANGED <<phases, stats>>

\* Variant: the list survives the reset.
KeepList(s, base) ==
    [s EXCEPT !.base = base, !.gen = generation, !.ptr = base, !.high = base]

\* The slab at base, reset for the phase in flight.
Reset(s, base) ==
    [s EXCEPT !.base = base, !.gen = generation, !.ptr = base, !.high = base,
              !.free = << >>]

\* How much of its slab the thread has used, at its highest.
PeakUse(s) == Larger(s.high, s.ptr) - s.base

\* The first allocation of t, or its first of this phase: the slab is claimed or
\* its peak published, it is reset, and serves the request if it is large enough.
AllocReset(t, v, r) ==
    /\ MayAllocate /\ active /\ ~slab[t].noSlab /\ ~Current(slab[t])
    /\ IF slab[t].base = 0
       THEN /\ nextSlab < MaxSlabs
            /\ nextSlab' = nextSlab + 1
            /\ UNCHANGED highWater
       ELSE /\ highWater' = Larger(highWater, PeakUse(slab[t]))
            /\ UNCHANGED nextSlab
    /\ LET base == IF slab[t].base = 0 THEN SlabBase(nextSlab) ELSE slab[t].base
           s == Reset(slab[t], base)
       IN  IF BumpFits(s, r)
           THEN /\ Serve(v, r, Bumped(s, r))
                /\ slab' = [slab EXCEPT ![t] = [s EXCEPT !.ptr = Bumped(s, r) + r.size]]
                /\ UNCHANGED overflow
           ELSE /\ ServeSystem(v)
                /\ slab' = [slab EXCEPT ![t] = s]
                /\ overflow' = TRUE
    /\ UNCHANGED phases

Alloc(t, v, r) ==
    \/ AllocSystem(t, v, r) \/ AllocReuse(t, v, r) \/ AllocBump(t, v, r)
    \/ AllocOverflow(t, v, r) \/ AllocNoSlab(t, v, r) \/ AllocReset(t, v, r)

-----------------------------------------------------------------------------
(***************************************************************************)
(* Release: raw_dealloc and dealloc_large.                                 *)
(***************************************************************************)

Drop(v) == vec[v] # NoVec /\ vec' = [vec EXCEPT ![v] = NoVec]

\* Variant: the slab of the releasing thread is not looked at.
OwnOfAny(s, b) == b.addr \in Region /\ Current(s)

\* In this thread's own slab, and the slab is of this phase.
Own(s, b) == b.addr >= s.base /\ b.addr < End(s) /\ Current(s)

ReleaseSystem(t, v) ==
    /\ vec[v].addr = System
    /\ Drop(v)
    /\ UNCHANGED <<phases, nextSlab, stats, slab>>

\* Another thread's block, or a slab of an older phase: left to the reset.
ReleaseForeign(t, v) ==
    /\ vec[v].addr # System
    /\ ~Own(slab[t], vec[v])
    /\ Drop(v)
    /\ UNCHANGED <<phases, nextSlab, stats, slab>>

\* note_peak, then the cursor retreats.
Retreat(s, addr) == [s EXCEPT !.ptr = addr, !.high = Larger(@, s.ptr)]

\* Variant: the cursor always retreats.
PopAlways(t, v) ==
    LET s == slab[t]
        b == vec[v]
    IN  /\ b.addr # System /\ Own(s, b) /\ b.size < ReuseMin
        /\ Drop(v)
        /\ slab' = [slab EXCEPT ![t] = Retreat(s, b.addr)]
        /\ UNCHANGED <<phases, nextSlab, stats>>

ReleaseSmall(t, v) ==
    LET s == slab[t]
        b == vec[v]
    IN  /\ b.addr # System /\ Own(s, b) /\ b.size < ReuseMin
        /\ Drop(v)
        /\ slab' = [slab EXCEPT ![t] =
                      IF b.addr + b.size = s.ptr THEN Retreat(s, b.addr) ELSE s]
        /\ UNCHANGED <<phases, nextSlab, stats>>

ReleaseLarge(t, v) ==
    LET s == slab[t]
        b == vec[v]
        m == Merge(s.free, b.addr, b.size)
        merged == [s EXCEPT !.free = m.free]
    IN  /\ b.addr # System /\ Own(s, b) /\ b.size >= ReuseMin
        /\ Drop(v)
        /\ slab' = [slab EXCEPT ![t] =
                      IF m.addr + m.size = s.ptr THEN Retreat(merged, m.addr)
                      ELSE [merged EXCEPT !.free =
                              Store(@, [addr |-> m.addr, size |-> m.size])]]
        /\ UNCHANGED <<phases, nextSlab, stats>>

Release(t, v) ==
    \/ ReleaseSystem(t, v) \/ ReleaseForeign(t, v)
    \/ ReleaseSmall(t, v) \/ ReleaseLarge(t, v)

-----------------------------------------------------------------------------
\* The steps of some threads with some of the handles and requests.
Steps(threads, vecs, requests) ==
    \/ EnableArena
    \/ \E t \in threads :
        \/ EnterInert(t) \/ BeginPhase(t) \/ BumpGeneration(t) \/ EndPhase(t)
        \/ \E v \in vecs : Release(t, v) \/ \E r \in requests : Alloc(t, v, r)

Next == Steps(Threads, Vecs, Requests)

Spec == Init /\ [][Next]_vars

-----------------------------------------------------------------------------
(***************************************************************************)
(* Properties.                                                             *)
(***************************************************************************)

Units(b) == b.addr .. b.addr + b.size - 1

\* The buffers in the arena that are valid: of the phase in flight, or of the
\* last one until the next opens.
Valid == {v \in Vecs : vec[v].addr # System /\ vec[v].phase = generation}

\* The SAFETY contract of raw_alloc: a block is its owner's until the next
\* begin_phase, whatever is allocated, released, carved and merged meanwhile,
\* by whichever threads. No two valid blocks share a unit, and every one lies
\* below the cursor of a slab of the current generation, out of reach of the
\* next bump and of the poison of a reset.
BlocksAreExclusive ==
    \A v \in Valid :
        /\ \A u \in Valid \ {v} : Units(vec[v]) \cap Units(vec[u]) = {}
        /\ \E t \in Threads :
            /\ Current(slab[t])
            /\ Units(vec[v]) \subseteq slab[t].base .. slab[t].ptr - 1

\* "Recycling is safe NOT because of a cursor property but because a block
\* reaches the list only from a release": a held block is nobody's, and lies in
\* the thread's own slab below its cursor, aligned for whoever takes it.
HeldBlocksAreDead ==
    \A t \in Threads :
        LET s == slab[t]
        IN  \A i \in DOMAIN s.free :
                /\ Units(s.free[i]) \subseteq s.base .. s.ptr - 1
                /\ s.free[i].addr % CacheLine = 0
                /\ s.free[i].size >= ReuseMin
                /\ Current(s) =>
                    \A v \in Valid : Units(vec[v]) \cap Units(s.free[i]) = {}

\* The comment of FreeList: held blocks are "pairwise NON-ADJACENT", which is
\* what makes merge's single pass enough.
HeldBlocksAreApart ==
    \A t \in Threads :
        LET free == slab[t].free
        IN  \A i, j \in DOMAIN free :
                i # j => free[i].addr + free[i].size < free[j].addr
                         \/ free[j].addr + free[j].size < free[i].addr

\* "Phases must not nest, and only one proof may be in flight per process": at
\* most one guard closes the open phase, and it is open exactly as long.
OnePhaseInFlight ==
    enabled =>
        /\ \A t, u \in Threads : guard[t] /\ guard[u] => t = u
        /\ active <=> (opener # None \/ \E t \in Threads : guard[t])
        /\ opener # None => \A t \in Threads : ~guard[t]

\* The comment of raw_dealloc: "A stale-phase block also returns here".
StaleReleaseIsIgnored ==
    [][\A v \in Vecs :
        vec[v].addr # System /\ vec[v].phase < generation /\ vec'[v] = NoVec =>
            slab' = slab]_vars

=============================================================================
