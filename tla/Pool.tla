-------------------------------- MODULE Pool --------------------------------
(***************************************************************************)
(* The fixed-size thread pool of crates/parallel/src/lib.rs: the dispatch  *)
(* protocol (job slot, generation, claim counter, completion counter), the *)
(* spin-then-park protocol of its workers, and task panics.                *)
(*                                                                         *)
(* One action is one access to shared memory, so that every interleaving   *)
(* of the accesses of the dispatchers and of the workers is a behaviour.   *)
(* The accesses to `generation` and to `parked` are SeqCst where the park  *)
(* protocol needs it, hence interleaved; the Relaxed load of `counter` may *)
(* return any value at least as recent as the last one its thread saw.     *)
(*                                                                         *)
(* A definition commented "Variant" is a plausible fault of the one it     *)
(* precedes; it is used by nothing and is there to be swapped in.          *)
(***************************************************************************)
EXTENDS Integers, FiniteSets

CONSTANTS
    Dispatchers,    \* threads that call for_each_chunk from outside the pool
    Workers,        \* background workers, ids 1 .. num_threads() - 1
    ClaimDivisor,   \* CLAIM_DIVISOR
    MaxClaimBatch,  \* MAX_CLAIM_BATCH
    MaxTasks,       \* largest n_tasks of a dispatch
    GenModulus,     \* `generation` is a usize; only its inequality is used
    None

ASSUME PoolAssumption ==
    /\ IsFiniteSet(Workers) /\ Workers # {}
    /\ Dispatchers \cap Workers = {}
    /\ None \notin Dispatchers \cup Workers
    /\ ClaimDivisor \in Nat \ {0}
    /\ MaxClaimBatch \in Nat \ {0}
    /\ MaxTasks \in Nat
    /\ GenModulus \in Nat /\ GenModulus > 1

Threads == Dispatchers \cup Workers

\* num_threads(): the background workers and the dispatcher, worker 0.
WorkerCount == Cardinality(Workers) + 1

NoJob == -1

VARIABLES
    lock,           \* holder of the `dispatch` mutex, or None
    job,            \* n_tasks of the published job, or NoJob
    generation,     \* dispatch number, modulo GenModulus
    counter,        \* next item to claim
    working,        \* background workers still draining
    panic,          \* a task panic of the dispatch is stored
    parked,         \* parked[w]: the park flag of worker w
    handle,         \* handle[w]: the unpark handle of w is published
    token,          \* token[w]: the unpark token of std::thread::park
    last,           \* last[w]: last_generation of worker w
    pc,             \* where each thread is
    tasks,          \* tasks[t]: n_tasks as t passed it or read it from the job
    seen,           \* seen[t]: the latest value of counter that t has seen
    claim,          \* claim[t]: the items of the range t is running
    inTask,         \* inTask[t]: the thread-local IN_TASK
    unwinding,      \* unwinding[t]: the drain of t has caught a task panic
    toWake,         \* workers whose park flag the dispatcher has yet to load
    target,         \* the worker it found parked and is about to unpark
    outcome,        \* outcome[d]: how the last dispatch of d ended
    ran,            \* history: the items of this dispatch that were run
    broken          \* history: a task of this dispatch has panicked

sync   == <<lock, job, generation, working, panic>>
parks  == <<parked, handle, token, last>>
thread == <<tasks, seen, claim, inTask, unwinding>>
wakes  == <<toWake, target>>
ghost  == <<ran, broken>>
vars   == <<sync, counter, parks, pc, thread, wakes, outcome, ghost>>

DispatcherPc == {"idle", "lock", "job", "reset", "working", "bump", "wake",
                 "unpark", "join", "take", "release"}
WorkerPc     == {"start", "poll", "announce", "recheck", "parked",
                 "unannounce", "finish"}
DrainPc      == {"fetch", "load", "add", "run", "leave"}

TypeOK ==
    /\ lock \in Dispatchers \cup {None}
    /\ job \in NoJob .. MaxTasks
    /\ generation \in 0 .. GenModulus - 1
    /\ counter \in Nat
    /\ working \in 0 .. Cardinality(Workers)
    /\ panic \in BOOLEAN
    /\ parked \in [Workers -> BOOLEAN]
    /\ handle \in [Workers -> BOOLEAN]
    /\ token \in [Workers -> BOOLEAN]
    /\ last \in [Workers -> 0 .. GenModulus - 1]
    /\ pc \in [Threads -> DispatcherPc \cup WorkerPc \cup DrainPc]
    /\ \A d \in Dispatchers : pc[d] \in DispatcherPc \cup DrainPc
    /\ \A w \in Workers : pc[w] \in WorkerPc \cup DrainPc
    /\ tasks \in [Threads -> NoJob .. MaxTasks]
    /\ seen \in [Threads -> Nat]
    /\ claim \in [Threads -> SUBSET (0 .. MaxTasks - 1)]
    /\ inTask \in [Threads -> BOOLEAN]
    /\ unwinding \in [Threads -> BOOLEAN]
    /\ toWake \subseteq Workers
    /\ target \in Workers \cup {None}
    /\ outcome \in [Dispatchers -> {"none", "ok", "panicked"}]
    /\ ran \subseteq 0 .. MaxTasks - 1
    /\ broken \in BOOLEAN

\* The state after pool() has spawned the workers, before any of them runs.
Init ==
    /\ lock = None
    /\ job = NoJob
    /\ generation = 0
    /\ counter = 0
    /\ working = 0
    /\ panic = FALSE
    /\ parked = [w \in Workers |-> FALSE]
    /\ handle = [w \in Workers |-> FALSE]
    /\ token = [w \in Workers |-> FALSE]
    /\ last = [w \in Workers |-> 0]
    /\ pc = [t \in Threads |-> IF t \in Workers THEN "start" ELSE "idle"]
    /\ tasks = [t \in Threads |-> 0]
    /\ seen = [t \in Threads |-> 0]
    /\ claim = [t \in Threads |-> {}]
    /\ inTask = [t \in Threads |-> FALSE]
    /\ unwinding = [t \in Threads |-> FALSE]
    /\ toWake = {}
    /\ target = None
    /\ outcome = [d \in Dispatchers |-> "none"]
    /\ ran = {}
    /\ broken = FALSE

Goto(t, from, to) ==
    /\ pc[t] = from
    /\ pc' = [pc EXCEPT ![t] = to]

-----------------------------------------------------------------------------
(***************************************************************************)
(* The dispatcher: for_each_chunk.                                         *)
(***************************************************************************)

\* assert!(!IN_TASK.get()): a task may not dispatch.
MayDispatch(t) == ~inTask[t]

\* worker_count <= 1 || n_tasks <= 1: the caller runs the items itself.
RunsInline(n) == WorkerCount <= 1 \/ n <= 1

\* A caller outside the pool: the inline path runs to completion (or panics)
\* without touching the pool, the other one queues on the mutex.
Call(d, n) ==
    /\ pc[d] = "idle"
    /\ MayDispatch(d)
    /\ IF RunsInline(n)
       THEN /\ \E end \in {"ok", "panicked"} :
                  /\ n = 0 => end = "ok"
                  /\ outcome' = [outcome EXCEPT ![d] = end]
            /\ UNCHANGED <<pc, tasks>>
       ELSE /\ Goto(d, "idle", "lock")
            /\ tasks' = [tasks EXCEPT ![d] = n]
            /\ outcome' = [outcome EXCEPT ![d] = "none"]
    /\ UNCHANGED <<sync, counter, parks, seen, claim, inTask, unwinding, wakes, ghost>>

\* Variant: the dispatchers are not serialized.
AcquireShared(d) ==
    /\ Goto(d, "lock", "job")
    /\ lock' = d
    /\ UNCHANGED <<job, generation, working, panic, counter, parks, thread, wakes,
                   outcome, ghost>>

Acquire(d) ==
    /\ Goto(d, "lock", "job")
    /\ lock = None
    /\ lock' = d
    /\ UNCHANGED <<job, generation, working, panic, counter, parks, thread, wakes,
                   outcome, ghost>>

WriteJob(d) ==
    /\ Goto(d, "job", "reset")
    /\ job' = tasks[d]
    /\ ran' = {}
    /\ broken' = FALSE
    /\ UNCHANGED <<lock, generation, working, panic, counter, parks, thread, wakes,
                   outcome>>

\* Variant: the counter of the previous dispatch is kept.
KeepCounter(d) ==
    /\ Goto(d, "reset", "working")
    /\ UNCHANGED <<sync, counter, parks, thread, wakes, outcome, ghost>>

ResetCounter(d) ==
    /\ Goto(d, "reset", "working")
    /\ counter' = 0
    /\ UNCHANGED <<sync, parks, thread, wakes, outcome, ghost>>

\* Variant: the dispatcher counts itself.
CountDispatcher(d) ==
    /\ Goto(d, "working", "bump")
    /\ working' = WorkerCount
    /\ UNCHANGED <<lock, job, generation, panic, counter, parks, thread, wakes, outcome,
                   ghost>>

SetWorking(d) ==
    /\ Goto(d, "working", "bump")
    /\ working' = WorkerCount - 1
    /\ UNCHANGED <<lock, job, generation, panic, counter, parks, thread, wakes, outcome,
                   ghost>>

\* The fetch_add that publishes the job.
Bump(d) ==
    /\ Goto(d, "bump", "wake")
    /\ generation' = (generation + 1) % GenModulus
    /\ toWake' = Workers
    /\ UNCHANGED <<lock, job, working, panic, counter, parks, thread, target, outcome,
                   ghost>>

\* One iteration of the wake loop, up to the unpark. The code goes by worker
\* id; any order is allowed here.
LoadParked(d, w) ==
    /\ pc[d] = "wake"
    /\ w \in toWake
    /\ toWake' = toWake \ {w}
    /\ IF parked[w] /\ handle[w]
       THEN Goto(d, "wake", "unpark") /\ target' = w
       ELSE UNCHANGED <<pc, target>>
    /\ UNCHANGED <<sync, counter, parks, thread, outcome, ghost>>

Unpark(d) ==
    /\ Goto(d, "unpark", "wake")
    /\ token' = [token EXCEPT ![target] = TRUE]
    /\ target' = None
    /\ UNCHANGED <<sync, counter, parked, handle, last, thread, toWake, outcome, ghost>>

StartDrain(d) ==
    /\ toWake = {}
    /\ Goto(d, "wake", "fetch")
    /\ UNCHANGED <<sync, counter, parks, thread, wakes, outcome, ghost>>

\* Variant: the dispatcher leaves when the items are gone, not the workers.
JoinItems(d) ==
    /\ Goto(d, "join", "take")
    /\ counter >= tasks[d]
    /\ UNCHANGED <<sync, counter, parks, thread, wakes, outcome, ghost>>

\* The spin on `working`.
Join(d) ==
    /\ Goto(d, "join", "take")
    /\ working = 0
    /\ UNCHANGED <<sync, counter, parks, thread, wakes, outcome, ghost>>

TakePanic(d) ==
    /\ Goto(d, "take", "release")
    /\ unwinding' = [unwinding EXCEPT ![d] = panic]
    /\ panic' = FALSE
    /\ UNCHANGED <<lock, job, generation, working, counter, parks, tasks, seen, claim,
                   inTask, wakes, outcome, ghost>>

\* drop(guard), then resume_unwind or return.
Release(d) ==
    /\ Goto(d, "release", "idle")
    /\ lock' = None
    /\ outcome' = [outcome EXCEPT ![d] = IF unwinding[d] THEN "panicked" ELSE "ok"]
    /\ tasks' = [tasks EXCEPT ![d] = 0]
    /\ unwinding' = [unwinding EXCEPT ![d] = FALSE]
    /\ UNCHANGED <<job, generation, working, panic, counter, parks, seen, claim, inTask,
                   wakes, ghost>>

-----------------------------------------------------------------------------
(***************************************************************************)
(* drain, run by the dispatcher and by every worker.                       *)
(***************************************************************************)

FetchJob(t) ==
    /\ Goto(t, "fetch", "load")
    /\ tasks' = [tasks EXCEPT ![t] = job]
    /\ seen' = [seen EXCEPT ![t] = 0]
    /\ inTask' = [inTask EXCEPT ![t] = TRUE]
    /\ UNCHANGED <<sync, counter, parks, claim, unwinding, wakes, outcome, ghost>>

Clamp(x, lo, hi) == IF x < lo THEN lo ELSE IF x > hi THEN hi ELSE x

Batch(n, observed) ==
    Clamp((n - observed) \div (WorkerCount * ClaimDivisor), 1, MaxClaimBatch)

\* The Relaxed load: any value between the last one seen and the current one.
LoadCounter(t) ==
    /\ pc[t] = "load"
    /\ \E observed \in seen[t] .. counter :
        /\ seen' = [seen EXCEPT ![t] = observed]
        /\ Goto(t, "load", IF observed >= tasks[t] THEN "leave" ELSE "add")
    /\ UNCHANGED <<sync, counter, parks, tasks, claim, inTask, unwinding, wakes, outcome,
                   ghost>>

\* Variant: the counter advances by a size taken from its current value, while
\* the range keeps the size taken from the stale one.
ClaimTwoSizes(t) ==
    /\ pc[t] = "add"
    /\ counter' = counter + Batch(tasks[t], counter)
    /\ seen' = [seen EXCEPT ![t] = counter']
    /\ IF counter >= tasks[t]
       THEN Goto(t, "add", "leave") /\ UNCHANGED claim
       ELSE /\ Goto(t, "add", "run")
            /\ claim' = [claim EXCEPT ![t] = {i \in 0 .. tasks[t] - 1 :
                  counter <= i /\ i < counter + Batch(tasks[t], seen[t])}]
    /\ UNCHANGED <<sync, parks, tasks, inTask, unwinding, wakes, outcome, ghost>>

\* The fetch_add; what it returns decides whether there is anything to run.
Claim(t) ==
    LET batch == Batch(tasks[t], seen[t])
    IN  /\ pc[t] = "add"
        /\ counter' = counter + batch
        /\ seen' = [seen EXCEPT ![t] = counter + batch]
        /\ IF counter >= tasks[t]
           THEN Goto(t, "add", "leave") /\ UNCHANGED claim
           ELSE /\ Goto(t, "add", "run")
                /\ claim' = [claim EXCEPT ![t] =
                      {i \in 0 .. tasks[t] - 1 : counter <= i /\ i < counter + batch}]
        /\ UNCHANGED <<sync, parks, tasks, inTask, unwinding, wakes, outcome, ghost>>

\* f(start, end) returns.
FinishChunk(t) ==
    /\ Goto(t, "run", "load")
    /\ ran' = ran \cup claim[t]
    /\ claim' = [claim EXCEPT ![t] = {}]
    /\ UNCHANGED <<sync, counter, parks, tasks, seen, inTask, unwinding, wakes, outcome,
                   broken>>

\* f panics at item k, after the items of the range before it; the unwind is
\* caught and the thread stops draining.
PanicAt(t, k) ==
    /\ k \in claim[t]
    /\ Goto(t, "run", "leave")
    /\ ran' = ran \cup {i \in claim[t] : i < k}
    /\ broken' = TRUE
    /\ claim' = [claim EXCEPT ![t] = {}]
    /\ unwinding' = [unwinding EXCEPT ![t] = TRUE]
    /\ UNCHANGED <<sync, counter, parks, tasks, seen, inTask, wakes, outcome>>

TaskPanics(t) == pc[t] = "run" /\ \E k \in claim[t] : PanicAt(t, k)

\* A task that calls for_each_chunk itself: the assertion makes it panic.
TaskDispatches(t) ==
    /\ pc[t] = "run"
    /\ IF MayDispatch(t)
       THEN /\ Goto(t, "run", "lock")
            /\ UNCHANGED <<sync, counter, parks, thread, wakes, outcome, ghost>>
       ELSE \E k \in claim[t] : PanicAt(t, k)

\* Variant: the panic of a worker is swallowed.
LeaveQuietly(t) ==
    /\ Goto(t, "leave", IF t \in Workers THEN "finish" ELSE "join")
    /\ inTask' = [inTask EXCEPT ![t] = FALSE]
    /\ panic' = (panic \/ (t \in Dispatchers /\ unwinding[t]))
    /\ unwinding' = [unwinding EXCEPT ![t] = FALSE]
    /\ seen' = [seen EXCEPT ![t] = 0]
    /\ tasks' = [tasks EXCEPT ![t] = IF t \in Workers THEN 0 ELSE @]
    /\ UNCHANGED <<lock, job, generation, working, counter, parks, claim, wakes,
                   outcome, ghost>>

\* Variant: the panic unwinds past the decrement of `working`.
LeaveUncaught(t) ==
    /\ Goto(t, "leave", IF t \in Dispatchers THEN "join"
                        ELSE IF unwinding[t] THEN "poll" ELSE "finish")
    /\ inTask' = [inTask EXCEPT ![t] = FALSE]
    /\ panic' = (panic \/ unwinding[t])
    /\ unwinding' = [unwinding EXCEPT ![t] = FALSE]
    /\ seen' = [seen EXCEPT ![t] = 0]
    /\ tasks' = [tasks EXCEPT ![t] = IF t \in Workers THEN 0 ELSE @]
    /\ UNCHANGED <<lock, job, generation, working, counter, parks, claim, wakes,
                   outcome, ghost>>

\* IN_TASK.set(false), then the first panic is kept. The locals of drain die;
\* a dispatcher still has the n_tasks it was called with.
Leave(t) ==
    /\ Goto(t, "leave", IF t \in Workers THEN "finish" ELSE "join")
    /\ inTask' = [inTask EXCEPT ![t] = FALSE]
    /\ panic' = (panic \/ unwinding[t])
    /\ unwinding' = [unwinding EXCEPT ![t] = FALSE]
    /\ seen' = [seen EXCEPT ![t] = 0]
    /\ tasks' = [tasks EXCEPT ![t] = IF t \in Workers THEN 0 ELSE @]
    /\ UNCHANGED <<lock, job, generation, working, counter, parks, claim, wakes,
                   outcome, ghost>>

-----------------------------------------------------------------------------
(***************************************************************************)
(* The workers: worker_main and wait_for_dispatch.                         *)
(***************************************************************************)

\* handle.set(thread::current()).
StartWorker(w) ==
    /\ Goto(w, "start", "poll")
    /\ handle' = [handle EXCEPT ![w] = TRUE]
    /\ UNCHANGED <<sync, counter, parked, token, last, thread, wakes, outcome, ghost>>

\* A new generation was loaded.
Notice(w) ==
    /\ generation # last[w]
    /\ Goto(w, "poll", "fetch")
    /\ last' = [last EXCEPT ![w] = generation]
    /\ UNCHANGED <<sync, counter, parked, handle, token, thread, wakes, outcome, ghost>>

\* SPIN_LIMIT loads of the old generation; the spins before the last stutter.
SpinOut(w) ==
    /\ generation = last[w]
    /\ Goto(w, "poll", "announce")
    /\ UNCHANGED <<sync, counter, parks, thread, wakes, outcome, ghost>>

Announce(w) ==
    /\ Goto(w, "announce", "recheck")
    /\ parked' = [parked EXCEPT ![w] = TRUE]
    /\ UNCHANGED <<sync, counter, handle, token, last, thread, wakes, outcome, ghost>>

\* Variant: park without looking again.
RecheckNothing(w) ==
    /\ Goto(w, "recheck", "parked")
    /\ UNCHANGED <<sync, counter, parks, thread, wakes, outcome, ghost>>

Recheck(w) ==
    /\ Goto(w, "recheck", IF generation = last[w] THEN "parked" ELSE "unannounce")
    /\ UNCHANGED <<sync, counter, parks, thread, wakes, outcome, ghost>>

\* std::thread::park returns: it consumes the token.
Unblock(w) ==
    /\ token[w]
    /\ Goto(w, "parked", "unannounce")
    /\ token' = [token EXCEPT ![w] = FALSE]
    /\ UNCHANGED <<sync, counter, parked, handle, last, thread, wakes, outcome, ghost>>

\* park may also return for no reason.
SpuriousWakeup(w) ==
    /\ Goto(w, "parked", "unannounce")
    /\ UNCHANGED <<sync, counter, parks, thread, wakes, outcome, ghost>>

Unannounce(w) ==
    /\ Goto(w, "unannounce", "poll")
    /\ parked' = [parked EXCEPT ![w] = FALSE]
    /\ UNCHANGED <<sync, counter, handle, token, last, thread, wakes, outcome, ghost>>

\* working.fetch_sub(1).
FinishDrain(w) ==
    /\ Goto(w, "finish", "poll")
    /\ working' = working - 1
    /\ UNCHANGED <<lock, job, generation, panic, counter, parks, thread, wakes, outcome,
                   ghost>>

-----------------------------------------------------------------------------
Dispatch(d) ==
    \/ Acquire(d) \/ WriteJob(d) \/ ResetCounter(d) \/ SetWorking(d) \/ Bump(d)
    \/ \E w \in Workers : LoadParked(d, w)
    \/ Unpark(d) \/ StartDrain(d) \/ Join(d) \/ TakePanic(d) \/ Release(d)

Drain(t) == FetchJob(t) \/ LoadCounter(t) \/ Claim(t) \/ FinishChunk(t) \/ Leave(t)

Wait(w) ==
    \/ StartWorker(w) \/ Notice(w) \/ SpinOut(w) \/ Announce(w) \/ Recheck(w)
    \/ Unblock(w) \/ Unannounce(w) \/ FinishDrain(w)

Next ==
    \/ \E d \in Dispatchers : (\E n \in 0 .. MaxTasks : Call(d, n)) \/ Dispatch(d)
    \/ \E w \in Workers : Wait(w) \/ SpuriousWakeup(w)
    \/ \E t \in Threads : Drain(t) \/ TaskPanics(t) \/ TaskDispatches(t)

Spec == Init /\ [][Next]_vars

\* Every thread keeps being scheduled and every task returns or panics. Nothing
\* is assumed of the callers, of panics, of spurious wake-ups, or of the order
\* in which the mutex serves its waiters.
Fairness ==
    /\ \A d \in Dispatchers : WF_vars(Dispatch(d))
    /\ \A w \in Workers : WF_vars(Wait(w))
    /\ \A t \in Threads : WF_vars(Drain(t))

FairSpec == Spec /\ Fairness

-----------------------------------------------------------------------------
(***************************************************************************)
(* Properties.                                                             *)
(***************************************************************************)

Draining(t) == pc[t] \in DrainPc

\* The generation of the mutex holder is out and its workers are not joined yet.
Published == lock # None /\ pc[lock] \in {"wake", "unpark", "join"} \cup DrainPc

\* The comment of drain: "`fetch_add` tiles `0..n` into disjoint claims
\* regardless" of stale loads. No item is run by two threads, and none twice.
DisjointClaims ==
    \A t \in Threads :
        /\ claim[t] \cap ran = {}
        /\ \A u \in Threads \ {t} : claim[t] \cap claim[u] = {}

\* The SAFETY comments of drain and for_each_chunk: while a thread drains, the
\* job it reads is the published one, and the dispatcher that lent the closure
\* is still inside for_each_chunk, past the publication and before the return.
JobOutlivesDrain ==
    \A t \in Threads :
        Draining(t) =>
            /\ Published
            /\ job = tasks[lock]
            /\ pc[t] # "fetch" => tasks[t] = job

\* for_each_chunk returns normally only when every item was run, and panics
\* exactly when a task of this very dispatch has panicked.
OutcomeIsOfThisDispatch ==
    \A d \in Dispatchers :
        pc[d] = "release" =>
            /\ unwinding[d] = broken
            /\ ~broken => ran = 0 .. tasks[d] - 1

\* "A wakeup cannot be lost": a worker blocked in park while the generation
\* it waits for is already there holds a token, or is about to be given one.
NoLostWakeup ==
    \A w \in Workers :
        pc[w] = "parked" /\ generation # last[w] => token[w] \/ target = w \/ w \in toWake

\* Workers that have not taken the published generation yet, or have taken it
\* and not decremented `working`.
Owing == {w \in Workers : last[w] # generation \/ pc[w] \in DrainPc \cup {"finish"}}

\* The dispatcher's spin on `working` is exact: while the job is published the
\* counter is the number of workers that still owe a drain, so it can neither
\* reach zero early nor stay above it, and outside that window nobody owes one.
WorkingCountsOwing ==
    IF Published
    THEN working = Cardinality(Owing)
    ELSE Owing = {}

\* A slot of drain_into_slots is indexed by WORKER_ID, 0 for every dispatcher:
\* no two threads of the same id run tasks at the same time.
SlotsAreExclusive ==
    \A d, e \in Dispatchers : Draining(d) /\ Draining(e) => d = e

\* A dispatch that has the pool gives it back: no wake-up is lost, no worker is
\* waited for in vain, and a nested dispatch does not deadlock.
DispatchReturns == \A d \in Dispatchers : (lock = d) ~> (lock # d)

-----------------------------------------------------------------------------
(***************************************************************************)
(* Refinement: a dispatch is active from the moment its job is written to  *)
(* the moment the mutex is released.                                       *)
(***************************************************************************)

Active == IF \E d \in Dispatchers : lock = d /\ pc[d] # "job" THEN lock ELSE None

Abstract == INSTANCE ParallelFor WITH
    Callers <- Dispatchers,
    active  <- Active,
    size    <- IF Active = None THEN 0 ELSE tasks[Active],
    done    <- ran,
    failed  <- broken,
    result  <- outcome

\* The pool implements the abstract parallel for: for_each_chunk's doc, "run
\* f(start, end) over disjoint ranges tiling 0..n_tasks", as a refinement.
ImplementsParallelFor == Abstract!Spec

=============================================================================
