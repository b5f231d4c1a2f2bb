---------------------- MODULE PoolAndAggregationProofs ----------------------
(***************************************************************************)
(* Proofs about two components that share no name, the one everything runs *)
(* on and the one everything is for.                                       *)
(*                                                                         *)
(* The thread pool, for any set of dispatchers, any finite set of workers  *)
(* and any batch sizes.                                                    *)
(*                                                                         *)
(* The aggregation, for any numbers of keys, epochs, children and roots:   *)
(* a verified aggregate's claims all have their signatures, and its roots  *)
(* their codewords (ClaimsAreBacked).  A prover of its own hints what it   *)
(* likes, so the invariant says of a run only what the guest has asserted  *)
(* so far.  Every slot that is covered is of a claim with its signature,   *)
(* or of one of the child being verified; no slot is covered twice, so     *)
(* once as many are written as there are slots, all are covered.  A child  *)
(* is settled when its proof is taken: its statement then holds, unless    *)
(* what it defers does not, and then the claims that are folded into the   *)
(* parent's do not all hold either and the parent shows nothing.  For this *)
(* the tasks must come in order (TasksInOrder): the table is written before*)
(* anything is covered, a child ends with its proof, and it is all         *)
(* followed by publishing.                                                 *)
(***************************************************************************)
EXTENDS Pool, SignatureProofs

-----------------------------------------------------------------------------
(***************************************************************************)
(* The thread pool.                                                        *)
(***************************************************************************)

USE DEF NoJob

\* The generation bump changes the generation, also when it wraps.
LEMMA BumpChanges ==
    \A g \in 0 .. GenModulus - 1 :
        /\ (g + 1) % GenModulus \in 0 .. GenModulus - 1
        /\ (g + 1) % GenModulus # g
<1> SUFFICES ASSUME NEW g \in 0 .. GenModulus - 1
             PROVE  /\ (g + 1) % GenModulus \in 0 .. GenModulus - 1
                    /\ (g + 1) % GenModulus # g
    OBVIOUS
<1>0. GenModulus \in Nat /\ GenModulus > 1
    BY PoolAssumption
<1>1. CASE g + 1 < GenModulus
    BY <1>0, <1>1
<1>2. CASE g + 1 = GenModulus
    BY <1>0, <1>2
<1>3. QED
    BY <1>0, <1>1, <1>2

LEMMA WorkersFinite ==
    /\ Cardinality(Workers) \in Nat
    /\ WorkerCount \in Nat \ {0}
    /\ WorkerCount - 1 = Cardinality(Workers)
BY PoolAssumption, FS_CardinalityType DEF WorkerCount

\* A claim is of at least one item and of at most MaxClaimBatch.
LEMMA BatchBounds ==
    \A n \in Int, seenCount \in Nat : Batch(n, seenCount) \in 1 .. MaxClaimBatch
<1> SUFFICES ASSUME NEW n \in Int, NEW s \in Nat
             PROVE  Batch(n, s) \in 1 .. MaxClaimBatch
    OBVIOUS
<1> DEFINE q == (n - s) \div (WorkerCount * ClaimDivisor)
<1>1. WorkerCount * ClaimDivisor \in Nat \ {0}
    BY WorkersFinite, PoolAssumption
<1>2. q \in Int
    BY <1>1
<1>3. MaxClaimBatch \in Nat \ {0}
    BY PoolAssumption
<1> HIDE DEF q
<1>4. Clamp(q, 1, MaxClaimBatch) \in 1 .. MaxClaimBatch
    BY <1>2, <1>3 DEF Clamp
<1>5. QED
    BY <1>4 DEF Batch, q

-----------------------------------------------------------------------------
(***************************************************************************)
(* The inductive invariant.                                                *)
(***************************************************************************)

\* The holder of the mutex is the one dispatcher inside the critical section.
HolderInv == \A d \in Dispatchers : lock = d <=> pc[d] \notin {"idle", "lock"}

\* A worker that drains has taken the current generation, and `working`
\* counts the workers that owe a drain.
OwingInv ==
    /\ \A w \in Workers : pc[w] \in DrainPc \cup {"finish"} => last[w] = generation
    /\ WorkingCountsOwing
    /\ lock # None /\ pc[lock] = "bump" => working = Cardinality(Workers)

\* The job in the slot is that of the mutex holder, from the write on.
JobInv ==
    /\ \A d \in Dispatchers : tasks[d] \in 0 .. MaxTasks
    /\ lock # None /\ pc[lock] # "job" => job = tasks[lock]
    /\ \A t \in Threads : pc[t] \in DrainPc \ {"fetch"} => tasks[t] = job

\* Whoever runs a task is marked as being in one.
TaskInv == \A t \in Threads : pc[t] \in DrainPc \ {"fetch"} => inTask[t]

\* Claims lie below the counter and do not meet.
ClaimInv ==
    /\ \A t \in Threads : claim[t] # {} => pc[t] = "run"
    /\ \A t \in Threads : \A i \in claim[t] : i < counter
    /\ \A i \in ran : i < counter
    /\ lock # None /\ pc[lock] = "reset" => ran = {}
    /\ DisjointClaims

\* A worker past the announcement shows its park flag.
WakeInv ==
    /\ \A w \in Workers : pc[w] # "start" => handle[w]
    /\ \A w \in Workers : pc[w] \in {"recheck", "parked", "unannounce"} => parked[w]
    /\ target # None <=> lock # None /\ pc[lock] = "unpark"
    /\ NoLostWakeup

\* A task panic of the dispatch is on its way to the dispatcher.
Caught == panic \/ \E t \in Threads : unwinding[t]

\* From the write of the job on, a task of the dispatch has panicked exactly
\* when its panic is stored or still caught; nothing is left for the next one.
PanicInv ==
    /\ \A t \in Threads : unwinding[t] => pc[t] \in {"leave", "release"}
    /\ lock # None /\ pc[lock] # "job" => (broken <=> Caught)
    /\ lock = None \/ pc[lock] \in {"job", "release"} => ~panic

\* The item was run, or some thread is running its range.
Live(i) == i \in ran \/ \E t \in Threads : i \in claim[t]

\* Unless a task panicked, every item below the counter was run or is being
\* run, and whoever leaves the drain has seen the counter past the last item.
CoverInv ==
    /\ lock # None /\ pc[lock] # "job" => ran \subseteq 0 .. tasks[lock] - 1
    /\ \A t \in Threads : claim[t] \subseteq 0 .. tasks[t] - 1
    /\ lock # None /\ pc[lock] \notin {"job", "reset"} =>
          broken \/ \A i \in 0 .. tasks[lock] - 1 : i < counter => Live(i)
    /\ \A t \in Threads : pc[t] = "leave" => unwinding[t] \/ counter >= tasks[t]
    /\ lock # None /\ pc[lock] \in {"join", "take", "release"} =>
          broken \/ counter >= tasks[lock]

\* A call in progress has no outcome yet.
CallInv == \A d \in Dispatchers : pc[d] # "idle" => outcome[d] = "none"

IInv ==
    /\ TypeOK /\ HolderInv /\ OwingInv /\ JobInv /\ TaskInv /\ ClaimInv /\ WakeInv
    /\ PanicInv /\ CoverInv /\ CallInv

-----------------------------------------------------------------------------
(***************************************************************************)
(* Every step preserves it.                                                *)
(***************************************************************************)

\* Whoever drains does so while the job is published.
LEMMA DrainIsPublished ==
    ASSUME IInv
    PROVE  /\ \A t \in Threads : Draining(t) => Published
           /\ \A w \in Workers : pc[w] = "finish" => Published
<1>1. \A w \in Workers : pc[w] \in DrainPc \cup {"finish"} => Published
    BY DEF IInv, OwingInv, WorkingCountsOwing, Owing
<1>2. \A d \in Dispatchers : pc[d] \in DrainPc => Published
    BY PoolAssumption DEF IInv, HolderInv, Published, DrainPc
<1>3. QED
    BY <1>1, <1>2 DEF Threads, Draining

\* A step that touches neither side of the count keeps it.
LEMMA OwingFrame ==
    ASSUME OwingInv, Owing' = Owing, working' = working, Published' <=> Published,
           lock' # None /\ pc'[lock'] = "bump" => lock # None /\ pc[lock] = "bump",
           \A w \in Workers :
               pc'[w] \in DrainPc \cup {"finish"} => last'[w] = generation'
    PROVE  OwingInv'
BY DEF OwingInv, WorkingCountsOwing

LEMMA HolderStep == ASSUME IInv, Next PROVE HolderInv'
<1> USE PoolAssumption DEF Threads, Goto, sync, parks, thread, wakes, ghost
<1>0. TypeOK /\ HolderInv /\ TaskInv
    BY DEF IInv
<1>1. ASSUME NEW d \in Dispatchers, NEW n \in 0 .. MaxTasks, Call(d, n)
      PROVE  HolderInv'
    BY <1>0, <1>1 DEF TypeOK, HolderInv, Call, RunsInline
<1>2. ASSUME NEW d \in Dispatchers, Dispatch(d)
      PROVE  HolderInv'
    BY <1>0, <1>2 DEF TypeOK, HolderInv, Dispatch, Acquire, WriteJob, ResetCounter,
       SetWorking, Bump, LoadParked, Unpark, StartDrain, Join, TakePanic, Release
<1>3. ASSUME NEW t \in Threads, Drain(t)
      PROVE  HolderInv'
    BY <1>0, <1>3 DEF TypeOK, HolderInv, DrainPc, Drain, FetchJob, LoadCounter, Claim,
       FinishChunk, Leave
<1>4. ASSUME NEW t \in Threads, TaskPanics(t) \/ TaskDispatches(t)
      PROVE  HolderInv'
    BY <1>0, <1>4 DEF TypeOK, HolderInv, TaskInv, DrainPc, TaskPanics, TaskDispatches,
       PanicAt, MayDispatch
<1>5. ASSUME NEW w \in Workers, Wait(w) \/ SpuriousWakeup(w)
      PROVE  HolderInv'
    BY <1>0, <1>5 DEF TypeOK, HolderInv, Wait, StartWorker, Notice, SpinOut, Announce,
       Recheck, Unblock, Unannounce, FinishDrain, SpuriousWakeup
<1>6. QED
    BY <1>1, <1>2, <1>3, <1>4, <1>5 DEF Next

LEMMA TaskStep == ASSUME IInv, Next PROVE TaskInv'
<1> USE PoolAssumption DEF Threads, DrainPc, Goto, sync, parks, thread, wakes, ghost
<1>0. TypeOK /\ TaskInv
    BY DEF IInv
<1>1. ASSUME NEW d \in Dispatchers, NEW n \in 0 .. MaxTasks, Call(d, n)
      PROVE  TaskInv'
    BY <1>0, <1>1 DEF TypeOK, TaskInv, Call, RunsInline
<1>2. ASSUME NEW d \in Dispatchers, Dispatch(d)
      PROVE  TaskInv'
    <2>1. inTask' = inTask
        BY <1>2 DEF Dispatch, Acquire, WriteJob, ResetCounter, SetWorking, Bump,
           LoadParked, Unpark, StartDrain, Join, TakePanic, Release
    <2>2. \A t \in Threads : pc'[t] \in DrainPc \ {"fetch"} => pc[t] \in DrainPc \ {"fetch"}
        BY <1>0, <1>2 DEF TypeOK, Dispatch, Acquire, WriteJob, ResetCounter, SetWorking,
           Bump, LoadParked, Unpark, StartDrain, Join, TakePanic, Release
    <2>3. QED
        BY <1>0, <2>1, <2>2 DEF TaskInv
<1>3. ASSUME NEW t \in Threads, Drain(t)
      PROVE  TaskInv'
    BY <1>0, <1>3 DEF TypeOK, TaskInv, Drain, FetchJob, LoadCounter, Claim,
       FinishChunk, Leave
<1>4. ASSUME NEW t \in Threads, TaskPanics(t) \/ TaskDispatches(t)
      PROVE  TaskInv'
    BY <1>0, <1>4 DEF TypeOK, TaskInv, TaskPanics, TaskDispatches, PanicAt
<1>5. ASSUME NEW w \in Workers, Wait(w) \/ SpuriousWakeup(w)
      PROVE  TaskInv'
    BY <1>0, <1>5, SMTT(60) DEF TypeOK, TaskInv, Wait, StartWorker, Notice, SpinOut, Announce,
       Recheck, Unblock, Unannounce, FinishDrain, SpuriousWakeup
<1>6. QED
    BY <1>1, <1>2, <1>3, <1>4, <1>5 DEF Next

LEMMA JobStep == ASSUME IInv, Next PROVE JobInv'
<1> USE PoolAssumption DEF Threads, DrainPc, Goto, sync, parks, thread, wakes, ghost
<1>0. TypeOK /\ HolderInv /\ JobInv /\ TaskInv
      /\ \A t \in Threads : Draining(t) => Published
    BY DrainIsPublished DEF IInv
<1>1. ASSUME NEW d \in Dispatchers, NEW n \in 0 .. MaxTasks, Call(d, n)
      PROVE  JobInv'
    <2>1. lock # d /\ pc[d] \notin DrainPc /\ pc'[d] \notin DrainPc
        BY <1>0, <1>1 DEF TypeOK, HolderInv, Call
    <2>2. /\ lock' = lock /\ job' = job
          /\ \A t \in Threads \ {d} : pc'[t] = pc[t] /\ tasks'[t] = tasks[t]
          /\ tasks'[d] \in 0 .. MaxTasks
        BY <1>0, <1>1 DEF TypeOK, JobInv, Call
    <2>3. QED
        BY <1>0, <2>1, <2>2 DEF TypeOK, JobInv
<1>2. ASSUME NEW d \in Dispatchers, Dispatch(d)
      PROVE  JobInv'
    BY <1>0, <1>2, SMTT(60) DEF TypeOK, HolderInv, JobInv, Draining, Published, Dispatch, Acquire,
       WriteJob, ResetCounter, SetWorking, Bump, LoadParked, Unpark, StartDrain, Join,
       TakePanic, Release
<1>3. ASSUME NEW t \in Threads, Drain(t)
      PROVE  JobInv'
    BY <1>0, <1>3, SMTT(60) DEF TypeOK, HolderInv, JobInv, Draining, Published, Drain, FetchJob,
       LoadCounter, Claim, FinishChunk, Leave
<1>4. ASSUME NEW t \in Threads, TaskPanics(t) \/ TaskDispatches(t)
      PROVE  JobInv'
    BY <1>0, <1>4 DEF TypeOK, HolderInv, JobInv, TaskInv, TaskPanics, TaskDispatches,
       PanicAt, MayDispatch
<1>5. ASSUME NEW w \in Workers, Wait(w) \/ SpuriousWakeup(w)
      PROVE  JobInv'
    BY <1>0, <1>5 DEF TypeOK, HolderInv, JobInv, Draining, Wait, StartWorker, Notice,
       SpinOut, Announce, Recheck, Unblock, Unannounce, FinishDrain, SpuriousWakeup
<1>6. QED
    BY <1>1, <1>2, <1>3, <1>4, <1>5 DEF Next

LEMMA WakeStep == ASSUME IInv, Next PROVE WakeInv'
<1> USE PoolAssumption DEF Threads, Goto, sync, parks, thread, wakes, ghost
<1>0. TypeOK /\ HolderInv /\ TaskInv /\ WakeInv
    BY DEF IInv
<1>1. ASSUME NEW d \in Dispatchers, NEW n \in 0 .. MaxTasks, Call(d, n)
      PROVE  WakeInv'
    BY <1>0, <1>1 DEF TypeOK, HolderInv, WakeInv, NoLostWakeup, Call
<1>2. ASSUME NEW d \in Dispatchers, Acquire(d) \/ WriteJob(d) \/ ResetCounter(d)
                \/ SetWorking(d) \/ StartDrain(d) \/ Join(d) \/ TakePanic(d) \/ Release(d)
      PROVE  WakeInv'
    BY <1>0, <1>2 DEF TypeOK, HolderInv, WakeInv, NoLostWakeup, Acquire, WriteJob,
       ResetCounter, SetWorking, StartDrain, Join, TakePanic, Release
<1>3. ASSUME NEW d \in Dispatchers, Bump(d)
      PROVE  WakeInv'
    BY <1>0, <1>3 DEF TypeOK, HolderInv, WakeInv, NoLostWakeup, Bump
<1>4. ASSUME NEW d \in Dispatchers, NEW w \in Workers, LoadParked(d, w)
      PROVE  WakeInv'
    <2>2. target' # None <=> lock' # None /\ pc'[lock'] = "unpark"
        BY <1>0, <1>4 DEF TypeOK, HolderInv, WakeInv, LoadParked
    <2>3. \A v \in Workers : pc'[v] = pc[v]
        BY <1>0, <1>4 DEF TypeOK, LoadParked
    <2>4. ASSUME NEW v \in Workers, pc[v] = "parked", generation # last[v]
          PROVE  token[v] \/ target' = v \/ v \in toWake'
        <3>1. parked[v] /\ handle[v]
            BY <1>0, <2>4 DEF WakeInv
        <3>2. token[v] \/ target = v \/ v \in toWake
            BY <1>0, <2>4 DEF WakeInv, NoLostWakeup
        <3>3. target = None
            BY <1>0, <1>4 DEF WakeInv, LoadParked, HolderInv
        <3>4. QED
            BY <1>4, <3>1, <3>2, <3>3 DEF LoadParked
    <2>5. QED
        BY <1>0, <1>4, <2>2, <2>3, <2>4 DEF WakeInv, NoLostWakeup, LoadParked
<1>5. ASSUME NEW d \in Dispatchers, Unpark(d)
      PROVE  WakeInv'
    BY <1>0, <1>5 DEF TypeOK, HolderInv, WakeInv, NoLostWakeup, Unpark
<1>6. ASSUME NEW t \in Threads, Drain(t)
      PROVE  WakeInv'
    <2>1. /\ UNCHANGED <<lock, generation, parks, wakes>>
          /\ \A v \in Threads : pc'[v] \in {"recheck", "parked", "unannounce", "start",
                                           "unpark"} => pc'[v] = pc[v]
          /\ pc[t] \notin {"start", "unpark"} /\ \A v \in Threads \ {t} : pc'[v] = pc[v]
        BY <1>0, <1>6 DEF TypeOK, Drain, FetchJob, LoadCounter, Claim, FinishChunk, Leave
    <2>2. QED
        BY <1>0, <2>1 DEF TypeOK, WakeInv, NoLostWakeup
<1>7. ASSUME NEW t \in Threads, TaskPanics(t) \/ TaskDispatches(t)
      PROVE  WakeInv'
    BY <1>0, <1>7 DEF TypeOK, TaskInv, WakeInv, NoLostWakeup, DrainPc, TaskPanics,
       TaskDispatches, PanicAt, MayDispatch
<1>8. ASSUME NEW w \in Workers, Wait(w) \/ SpuriousWakeup(w)
      PROVE  WakeInv'
    <2>1. \A d \in Dispatchers : pc'[d] = pc[d]
        BY <1>0, <1>8 DEF TypeOK, Wait, StartWorker, Notice, SpinOut, Announce, Recheck,
           Unblock, Unannounce, FinishDrain, SpuriousWakeup
    <2>2. target' = target /\ lock' = lock
        BY <1>8 DEF Wait, StartWorker, Notice, SpinOut, Announce, Recheck, Unblock,
           Unannounce, FinishDrain, SpuriousWakeup
    <2>3. \A v \in Workers :
              /\ pc'[v] # "start" => handle'[v]
              /\ pc'[v] \in {"recheck", "parked", "unannounce"} => parked'[v]
        BY <1>0, <1>8 DEF TypeOK, WakeInv, Wait, StartWorker, Notice, SpinOut, Announce,
           Recheck, Unblock, Unannounce, FinishDrain, SpuriousWakeup
    <2>4. NoLostWakeup'
        BY <1>0, <1>8 DEF TypeOK, WakeInv, NoLostWakeup, Wait, StartWorker, Notice,
           SpinOut, Announce, Recheck, Unblock, Unannounce, FinishDrain, SpuriousWakeup
    <2>5. QED
        BY <1>0, <2>1, <2>2, <2>3, <2>4 DEF TypeOK, WakeInv
<1>9. QED
    BY <1>1, <1>2, <1>3, <1>4, <1>5, <1>6, <1>7, <1>8 DEF Next, Dispatch

LEMMA ClaimStep == ASSUME IInv, Next PROVE ClaimInv'
<1> USE PoolAssumption DEF Threads, Goto, sync, parks, thread, wakes, ghost
<1>0. TypeOK /\ HolderInv /\ TaskInv /\ ClaimInv
      /\ \A t \in Threads : Draining(t) => Published
    BY DrainIsPublished DEF IInv
<1>1. ASSUME UNCHANGED <<claim, ran>>, counter' >= counter,
             counter' \in Nat, \A t \in Threads : pc[t] = "run" => pc'[t] = "run",
             lock' # None /\ pc'[lock'] = "reset" => lock # None /\ pc[lock] = "reset"
      PROVE  ClaimInv'
    <2>1. \A t \in Threads : \A i \in claim[t] : i < counter'
        BY <1>0, <1>1 DEF TypeOK, ClaimInv
    <2>2. \A i \in ran : i < counter'
        BY <1>0, <1>1 DEF TypeOK, ClaimInv
    <2>3. QED
        BY <1>0, <1>1, <2>1, <2>2 DEF ClaimInv, DisjointClaims
<1>2. ASSUME NEW d \in Dispatchers, NEW n \in 0 .. MaxTasks, Call(d, n)
      PROVE  ClaimInv'
    BY <1>0, <1>1, <1>2 DEF TypeOK, HolderInv, Call
<1>3. ASSUME NEW d \in Dispatchers, Acquire(d) \/ SetWorking(d) \/ Bump(d)
                \/ (\E w \in Workers : LoadParked(d, w)) \/ Unpark(d) \/ StartDrain(d)
                \/ Join(d) \/ TakePanic(d) \/ Release(d)
      PROVE  ClaimInv'
    BY <1>0, <1>1, <1>3 DEF TypeOK, HolderInv, Acquire, SetWorking, Bump, LoadParked,
       Unpark, StartDrain, Join, TakePanic, Release
<1>4. ASSUME NEW d \in Dispatchers, WriteJob(d) \/ ResetCounter(d)
      PROVE  ClaimInv'
    <2>1. lock = d /\ ~Published
        BY <1>0, <1>4 DEF HolderInv, Published, DrainPc, WriteJob, ResetCounter
    <2>2. \A t \in Threads : claim[t] = {}
        BY <1>0, <2>1 DEF ClaimInv, Draining, DrainPc
    <2>3. claim' = claim /\ ran' = {}
        BY <1>0, <1>4, <2>1 DEF ClaimInv, WriteJob, ResetCounter
    <2>4. QED
        BY <2>2, <2>3 DEF ClaimInv, DisjointClaims
<1>5. ASSUME NEW t \in Threads, FetchJob(t) \/ LoadCounter(t) \/ Leave(t)
      PROVE  ClaimInv'
    BY <1>0, <1>1, <1>5 DEF TypeOK, FetchJob, LoadCounter, Leave
<1>6. ASSUME NEW t \in Threads, Claim(t)
      PROVE  ClaimInv'
    <2> DEFINE batch == Batch(tasks[t], seen[t])
    <2>1. batch \in Nat \ {0}
        <3>1. tasks[t] \in Int /\ seen[t] \in Nat /\ MaxClaimBatch \in Nat
            BY <1>0 DEF TypeOK
        <3>2. batch \in 1 .. MaxClaimBatch
            BY <3>1, BatchBounds, Zenon
        <3>3. QED
            BY <3>1, <3>2
    <2>2. ran' = ran /\ lock' = lock /\ counter' = counter + batch
        BY <1>6 DEF Claim
    <2>3. \A u \in Threads \ {t} : pc'[u] = pc[u] /\ claim'[u] = claim[u]
        BY <1>0, <1>6 DEF TypeOK, Claim
    <2>4. claim[t] = {}
        BY <1>0, <1>6 DEF ClaimInv, Claim
    <2>5. /\ claim'[t] # {} => pc'[t] = "run"
          /\ \A i \in claim'[t] : i \in Int /\ counter <= i /\ i < counter + batch
        BY <1>0, <1>6, <2>1, <2>4 DEF TypeOK, Claim
    <2>6. lock' # None /\ pc'[lock'] = "reset" => lock # None /\ pc[lock] = "reset"
        BY <1>0, <1>6 DEF TypeOK, Claim
    <2> HIDE DEF batch
    <2>7. \A u \in Threads : \A i \in claim'[u] : i < counter + batch
        BY <1>0, <2>1, <2>3, <2>5 DEF TypeOK, ClaimInv
    <2>8. \A i \in ran : i < counter + batch
        BY <1>0, <2>1 DEF TypeOK, ClaimInv
    <2>9. /\ claim'[t] \cap ran = {}
          /\ \A u \in Threads \ {t} : claim'[t] \cap claim[u] = {}
        BY <1>0, <2>5 DEF TypeOK, ClaimInv
    <2>10. DisjointClaims'
        BY <1>0, <2>2, <2>3, <2>9 DEF ClaimInv, DisjointClaims
    <2>11. \A u \in Threads : claim'[u] # {} => pc'[u] = "run"
        BY <1>0, <2>3, <2>5 DEF ClaimInv
    <2>12. QED
        BY <1>0, <2>2, <2>6, <2>7, <2>8, <2>10, <2>11 DEF ClaimInv
<1>7. ASSUME NEW t \in Threads, pc[t] = "run", pc'[t] # "reset",
             claim' = [claim EXCEPT ![t] = {}], UNCHANGED <<lock, counter>>,
             \A u \in Threads \ {t} : pc'[u] = pc[u],
             ran \subseteq ran', ran' \subseteq ran \cup claim[t]
      PROVE  ClaimInv'
    <2>1. claim'[t] = {} /\ \A u \in Threads \ {t} : claim'[u] = claim[u]
        BY <1>0, <1>7 DEF TypeOK
    <2>2. \A i \in ran' : i < counter
        BY <1>0, <1>7 DEF ClaimInv
    <2>3. DisjointClaims'
        BY <1>0, <1>7, <2>1 DEF ClaimInv, DisjointClaims
    <2>4. lock' # None /\ pc'[lock'] = "reset" => lock # t /\ ran = {}
        BY <1>0, <1>7 DEF TypeOK, ClaimInv
    <2>5. lock' # None /\ pc'[lock'] = "reset" => ran' = {}
        <3>1. SUFFICES ASSUME lock # None, pc'[lock] = "reset" PROVE FALSE
            BY <1>7
        <3>2. Published
            BY <1>0, <1>7 DEF Draining, DrainPc
        <3>3. lock # t /\ pc[lock] = "reset"
            BY <1>0, <1>7, <3>1 DEF TypeOK
        <3>4. QED
            BY <3>2, <3>3 DEF Published, DrainPc
    <2>6. QED
        BY <1>0, <1>7, <2>1, <2>2, <2>3, <2>5 DEF ClaimInv
<1>8. ASSUME NEW t \in Threads, FinishChunk(t)
      PROVE  ClaimInv'
    BY <1>0, <1>7, <1>8 DEF TypeOK, FinishChunk
<1>9. ASSUME NEW t \in Threads, TaskPanics(t) \/ TaskDispatches(t)
      PROVE  ClaimInv'
    <2>1. PICK k \in claim[t] : PanicAt(t, k)
        BY <1>0, <1>9 DEF TaskInv, DrainPc, TaskPanics, TaskDispatches, MayDispatch
    <2>2. QED
        BY <1>0, <1>7, <2>1 DEF TypeOK, PanicAt
<1>10. ASSUME NEW w \in Workers, Wait(w) \/ SpuriousWakeup(w)
      PROVE  ClaimInv'
    BY <1>0, <1>1, <1>10 DEF TypeOK, Wait, StartWorker, Notice, SpinOut, Announce,
       Recheck, Unblock, Unannounce, FinishDrain, SpuriousWakeup
<1>11. QED
    BY <1>2, <1>3, <1>4, <1>5, <1>6, <1>8, <1>9, <1>10 DEF Next, Dispatch, Drain

LEMMA OwingFinite == IsFiniteSet(Owing) /\ Cardinality(Owing) \in Nat
BY PoolAssumption, FS_Subset, FS_CardinalityType DEF Owing

LEMMA OwingStep == ASSUME IInv, Next PROVE OwingInv'
<1> USE PoolAssumption DEF Threads, Goto, sync, parks, thread, wakes, ghost
<1>0. TypeOK /\ HolderInv /\ OwingInv /\ TaskInv
      /\ (\A t \in Threads : Draining(t) => Published)
      /\ (\A w \in Workers : pc[w] = "finish" => Published)
    BY DrainIsPublished DEF IInv
<1>a. ASSUME UNCHANGED <<generation, last, working>>,
             \A w \in Workers : pc'[w] = pc[w]
                 \/ (pc[w] \in DrainPc /\ pc'[w] \in DrainPc \cup {"finish"})
                 \/ (pc[w] \notin DrainPc \cup {"finish"}
                       /\ pc'[w] \notin DrainPc \cup {"finish"}),
             Published' <=> Published,
             lock' # None /\ pc'[lock'] = "bump" => lock # None /\ pc[lock] = "bump"
      PROVE  OwingInv'
    <2>1. Owing' = Owing
        BY <1>a DEF Owing
    <2>2. \A w \in Workers : pc'[w] \in DrainPc \cup {"finish"} => last'[w] = generation'
        BY <1>0, <1>a DEF OwingInv
    <2>3. QED
        BY <1>0, <1>a, <2>1, <2>2, OwingFrame
<1>1. ASSUME NEW d \in Dispatchers, NEW n \in 0 .. MaxTasks, Call(d, n)
      PROVE  OwingInv'
    <2>1. lock # d /\ lock' = lock /\ UNCHANGED <<generation, last, working>>
        BY <1>0, <1>1 DEF HolderInv, Call
    <2>2. \A t \in Threads \ {d} : pc'[t] = pc[t]
        BY <1>0, <1>1 DEF TypeOK, Call
    <2>3. QED
        BY <1>0, <1>a, <2>1, <2>2 DEF TypeOK, Published
<1>2. ASSUME NEW d \in Dispatchers,
             Acquire(d) \/ WriteJob(d) \/ ResetCounter(d) \/ TakePanic(d) \/ Release(d)
      PROVE  OwingInv'
    <2>1. UNCHANGED <<generation, last, working>> /\ \A w \in Workers : pc'[w] = pc[w]
        BY <1>0, <1>2 DEF TypeOK, Acquire, WriteJob, ResetCounter, TakePanic, Release
    <2>2. ~Published
        BY <1>0, <1>2 DEF HolderInv, Published, DrainPc, Acquire, WriteJob, ResetCounter,
           TakePanic, Release
    <2>3. ~Published' /\ ~(lock' # None /\ pc'[lock'] = "bump")
        BY <1>0, <1>2 DEF TypeOK, HolderInv, Published, DrainPc, Acquire, WriteJob,
           ResetCounter, TakePanic, Release
    <2>4. QED
        BY <1>a, <2>1, <2>2, <2>3
<1>3. ASSUME NEW d \in Dispatchers, SetWorking(d)
      PROVE  OwingInv'
    <2>1. lock = d /\ lock' = d /\ pc[d] = "working" /\ pc'[d] = "bump"
        BY <1>0, <1>3 DEF TypeOK, HolderInv, SetWorking
    <2>2. Owing = {} /\ ~Published'
        BY <1>0, <2>1 DEF OwingInv, WorkingCountsOwing, Published, DrainPc
    <2>3. UNCHANGED <<generation, last>> /\ \A w \in Workers : pc'[w] = pc[w]
        BY <1>0, <1>3 DEF TypeOK, SetWorking
    <2>4. Owing' = {}
        BY <2>2, <2>3 DEF Owing
    <2>5. working' = Cardinality(Workers)
        BY <1>3, WorkersFinite DEF SetWorking
    <2>6. QED
        BY <1>0, <2>2, <2>3, <2>4, <2>5 DEF OwingInv, WorkingCountsOwing
<1>4. ASSUME NEW d \in Dispatchers, Bump(d)
      PROVE  OwingInv'
    <2>1. lock = d /\ lock' = d /\ pc[d] = "bump" /\ pc'[d] = "wake"
        BY <1>0, <1>4 DEF TypeOK, HolderInv, Bump
    <2>2. Owing = {} /\ working' = Cardinality(Workers) /\ Published'
        BY <1>0, <1>4, <2>1 DEF OwingInv, WorkingCountsOwing, Published, DrainPc, Bump
    <2>3. last' = last /\ generation' # generation /\ \A w \in Workers : pc'[w] = pc[w]
        BY <1>0, <1>4, BumpChanges DEF TypeOK, Bump
    <2>4. Owing' = Workers /\ \A w \in Workers : pc'[w] \notin DrainPc \cup {"finish"}
        BY <2>2, <2>3 DEF Owing
    <2>5. QED
        BY <2>1, <2>2, <2>4 DEF OwingInv, WorkingCountsOwing
<1>5. ASSUME NEW d \in Dispatchers,
             (\E w \in Workers : LoadParked(d, w)) \/ Unpark(d) \/ StartDrain(d)
      PROVE  OwingInv'
    <2>1. lock = d /\ lock' = d /\ pc[d] \in {"wake", "unpark"}
        BY <1>0, <1>5 DEF HolderInv, LoadParked, Unpark, StartDrain
    <2>2. pc'[d] \in {"wake", "unpark", "fetch"}
        BY <1>0, <1>5 DEF TypeOK, LoadParked, Unpark, StartDrain
    <2>3. UNCHANGED <<generation, last, working>> /\ \A w \in Workers : pc'[w] = pc[w]
        BY <1>0, <1>5 DEF TypeOK, LoadParked, Unpark, StartDrain
    <2>4. QED
        BY <1>a, <2>1, <2>2, <2>3 DEF Published, DrainPc
<1>6. ASSUME NEW d \in Dispatchers, Join(d)
      PROVE  OwingInv'
    <2>1. lock = d /\ lock' = d /\ pc[d] = "join" /\ pc'[d] = "take"
        BY <1>0, <1>6 DEF TypeOK, HolderInv, Join
    <2>2. Cardinality(Owing) = 0
        BY <1>0, <1>6, <2>1 DEF OwingInv, WorkingCountsOwing, Published, Join
    <2>3. Owing = {}
        BY <2>2, OwingFinite, FS_EmptySet
    <2>4. Owing' = {} /\ \A w \in Workers : pc'[w] \notin DrainPc \cup {"finish"}
        BY <1>0, <1>6, <2>3 DEF TypeOK, Owing, Join
    <2>5. QED
        BY <2>1, <2>4 DEF OwingInv, WorkingCountsOwing, Published, DrainPc
<1>7. ASSUME NEW t \in Threads, Drain(t) \/ TaskPanics(t) \/ TaskDispatches(t)
      PROVE  OwingInv'
    <2>1. pc[t] \in DrainPc /\ UNCHANGED <<lock, generation, last, working>>
        BY <1>7 DEF DrainPc, Drain, FetchJob, LoadCounter, Claim, FinishChunk, Leave,
           TaskPanics, TaskDispatches, PanicAt
    <2>2. \A u \in Threads \ {t} : pc'[u] = pc[u]
        BY <1>0, <1>7 DEF TypeOK, Drain, FetchJob, LoadCounter, Claim, FinishChunk, Leave,
           TaskPanics, TaskDispatches, PanicAt
    <2>3. pc'[t] \in DrainPc \cup (IF t \in Workers THEN {"finish"} ELSE {"join"})
        BY <1>0, <1>7 DEF TypeOK, TaskInv, DrainPc, Drain, FetchJob, LoadCounter, Claim,
           FinishChunk, Leave, TaskPanics, TaskDispatches, PanicAt, MayDispatch
    <2>4. Published' /\ lock # None /\ pc'[lock] # "bump" /\ Published
        BY <1>0, <2>1, <2>2, <2>3 DEF TypeOK, Draining, Published, DrainPc
    <2>5. QED
        BY <1>a, <2>1, <2>2, <2>3, <2>4
<1>8. ASSUME NEW w \in Workers, StartWorker(w) \/ SpinOut(w) \/ Announce(w) \/ Recheck(w)
                 \/ Unblock(w) \/ SpuriousWakeup(w) \/ Unannounce(w)
      PROVE  OwingInv'
    <2>1. UNCHANGED <<lock, generation, last, working>>
        BY <1>8 DEF StartWorker, SpinOut, Announce, Recheck, Unblock, SpuriousWakeup,
           Unannounce
    <2>2. \A u \in Threads \ {w} : pc'[u] = pc[u]
        BY <1>0, <1>8 DEF TypeOK, StartWorker, SpinOut, Announce, Recheck, Unblock,
           SpuriousWakeup, Unannounce
    <2>3. pc[w] \notin DrainPc \cup {"finish"} /\ pc'[w] \notin DrainPc \cup {"finish"}
        BY <1>0, <1>8 DEF TypeOK, DrainPc, StartWorker, SpinOut, Announce, Recheck,
           Unblock, SpuriousWakeup, Unannounce
    <2>4. QED
        BY <1>0, <1>a, <2>1, <2>2, <2>3 DEF TypeOK, Published
<1>9. ASSUME NEW w \in Workers, Notice(w)
      PROVE  OwingInv'
    <2>1. /\ UNCHANGED <<lock, generation, working>>
          /\ last[w] # generation /\ last'[w] = generation /\ pc'[w] = "fetch"
          /\ \A v \in Workers \ {w} : last'[v] = last[v]
          /\ \A u \in Threads \ {w} : pc'[u] = pc[u]
        BY <1>0, <1>9 DEF TypeOK, Notice
    <2>2. Owing' = Owing
        BY <2>1 DEF Owing, DrainPc
    <2>3. QED
        BY <1>0, <2>1, <2>2, OwingFrame DEF TypeOK, OwingInv, Published, DrainPc
<1>10. ASSUME NEW w \in Workers, FinishDrain(w)
      PROVE  OwingInv'
    <2>1. /\ UNCHANGED <<lock, generation, last>>
          /\ pc[w] = "finish" /\ pc'[w] = "poll" /\ working' = working - 1
          /\ \A u \in Threads \ {w} : pc'[u] = pc[u]
        BY <1>0, <1>10 DEF TypeOK, FinishDrain
    <2>2. Published /\ Published' /\ lock \in Dispatchers
        BY <1>0, <2>1 DEF TypeOK, Published
    <2>3. working = Cardinality(Owing) /\ w \in Owing
        BY <1>0, <2>1, <2>2 DEF OwingInv, WorkingCountsOwing, Owing
    <2>4. Owing' = Owing \ {w}
        BY <1>0, <2>1 DEF OwingInv, Owing, DrainPc
    <2>5. working' = Cardinality(Owing')
        BY <2>1, <2>3, <2>4, OwingFinite, FS_RemoveElement
    <2>6. \A v \in Workers : pc'[v] \in DrainPc \cup {"finish"} => last'[v] = generation'
        BY <1>0, <2>1 DEF OwingInv, DrainPc
    <2>7. pc'[lock'] # "bump"
        BY <2>2 DEF Published, DrainPc
    <2>8. QED
        BY <2>2, <2>5, <2>6, <2>7 DEF OwingInv, WorkingCountsOwing
<1>11. QED
    BY <1>1, <1>2, <1>3, <1>4, <1>5, <1>6, <1>7, <1>8, <1>9, <1>10
       DEF Next, Dispatch, Wait

LEMMA TypeStep == ASSUME IInv, Next PROVE TypeOK'
<1> USE PoolAssumption DEF Threads, DispatcherPc, WorkerPc, DrainPc, Goto, sync, parks,
        thread, wakes, ghost
<1>0. TypeOK /\ HolderInv /\ OwingInv /\ JobInv /\ TaskInv
      /\ (\A w \in Workers : pc[w] = "finish" => Published)
    BY DrainIsPublished DEF IInv
<1>1. ASSUME NEW d \in Dispatchers, NEW n \in 0 .. MaxTasks, Call(d, n)
      PROVE  TypeOK'
    <2>1. outcome' \in [Dispatchers -> {"none", "ok", "panicked"}]
        BY <1>0, <1>1 DEF TypeOK, Call
    <2>2. tasks' \in [Threads -> NoJob .. MaxTasks]
        BY <1>0, <1>1 DEF TypeOK, Call
    <2>3. /\ pc' \in [Threads -> DispatcherPc \cup WorkerPc \cup DrainPc]
          /\ \A e \in Dispatchers : pc'[e] \in DispatcherPc \cup DrainPc
          /\ \A w \in Workers : pc'[w] \in WorkerPc \cup DrainPc
        BY <1>0, <1>1, SMTT(60) DEF TypeOK, Call
    <2>4. QED
        BY <1>0, <1>1, <2>1, <2>2, <2>3 DEF TypeOK, Call
<1>2. ASSUME NEW d \in Dispatchers, Acquire(d) \/ StartDrain(d) \/ Join(d)
      PROVE  TypeOK'
    BY <1>0, <1>2, ZenonT(60) DEF TypeOK, Acquire, StartDrain, Join
<1>3. ASSUME NEW d \in Dispatchers, WriteJob(d)
      PROVE  TypeOK'
    <2>1. job' \in NoJob .. MaxTasks
        BY <1>0, <1>3 DEF TypeOK, WriteJob
    <2>2. QED
        BY <1>0, <1>3, <2>1 DEF TypeOK, WriteJob
<1>4. ASSUME NEW d \in Dispatchers, ResetCounter(d)
      PROVE  TypeOK'
    BY <1>0, <1>4 DEF TypeOK, ResetCounter
<1>5. ASSUME NEW d \in Dispatchers, SetWorking(d)
      PROVE  TypeOK'
    <2>1. working' \in 0 .. Cardinality(Workers)
        BY <1>5, WorkersFinite DEF SetWorking
    <2>2. QED
        BY <1>0, <1>5, <2>1 DEF TypeOK, SetWorking
<1>6. ASSUME NEW d \in Dispatchers, Bump(d)
      PROVE  TypeOK'
    <2>1. generation' \in 0 .. GenModulus - 1
        BY <1>0, <1>6, BumpChanges DEF TypeOK, Bump
    <2>2. QED
        BY <1>0, <1>6, <2>1 DEF TypeOK, Bump
<1>7. ASSUME NEW d \in Dispatchers, NEW w \in Workers, LoadParked(d, w)
      PROVE  TypeOK'
    BY <1>0, <1>7, ZenonT(60) DEF TypeOK, LoadParked
<1>8. ASSUME NEW d \in Dispatchers, Unpark(d)
      PROVE  TypeOK'
    <2>1. token' \in [Workers -> BOOLEAN]
        BY <1>0, <1>8 DEF TypeOK, Unpark
    <2>2. QED
        BY <1>0, <1>8, <2>1 DEF TypeOK, Unpark
<1>9. ASSUME NEW d \in Dispatchers, TakePanic(d)
      PROVE  TypeOK'
    <2>1. unwinding' \in [Threads -> BOOLEAN]
        BY <1>0, <1>9 DEF TypeOK, TakePanic
    <2>2. QED
        BY <1>0, <1>9, <2>1 DEF TypeOK, TakePanic
<1>10. ASSUME NEW d \in Dispatchers, Release(d)
      PROVE  TypeOK'
    BY <1>0, <1>10 DEF TypeOK, Release
<1>11. ASSUME NEW t \in Threads, FetchJob(t)
      PROVE  TypeOK'
    BY <1>0, <1>11 DEF TypeOK, FetchJob
<1>12. ASSUME NEW t \in Threads, LoadCounter(t)
      PROVE  TypeOK'
    BY <1>0, <1>12 DEF TypeOK, LoadCounter
<1>13. ASSUME NEW t \in Threads, Claim(t)
      PROVE  TypeOK'
    <2> DEFINE batch == Batch(tasks[t], seen[t])
    <2>1. tasks[t] \in NoJob .. MaxTasks /\ seen[t] \in Nat /\ MaxClaimBatch \in Nat
        BY <1>0 DEF TypeOK
    <2>2. batch \in 1 .. MaxClaimBatch
        <3>1. tasks[t] \in Int
            BY <2>1
        <3>2. QED
            BY <2>1, <3>1, BatchBounds, Zenon
    <2>3. counter' = counter + batch /\ seen' = [seen EXCEPT ![t] = counter + batch]
        BY <1>13 DEF Claim
    <2>4. claim' \in [Threads -> SUBSET (0 .. MaxTasks - 1)]
        <3>1. claim' = claim \/ claim' = [claim EXCEPT ![t] =
                {i \in 0 .. tasks[t] - 1 : counter <= i /\ i < counter + batch}]
            BY <1>13 DEF Claim
        <3> HIDE DEF batch
        <3>2. {i \in 0 .. tasks[t] - 1 : counter <= i /\ i < counter + batch}
                  \in SUBSET (0 .. MaxTasks - 1)
            BY <2>1
        <3>3. QED
            BY <1>0, <3>1, <3>2 DEF TypeOK
    <2>5. /\ pc' \in [Threads -> DispatcherPc \cup WorkerPc \cup DrainPc]
          /\ \A e \in Dispatchers : pc'[e] \in DispatcherPc \cup DrainPc
          /\ \A w \in Workers : pc'[w] \in WorkerPc \cup DrainPc
        BY <1>0, <1>13, SMTT(60) DEF TypeOK, Claim
    <2> HIDE DEF batch
    <2>6. counter' \in Nat /\ seen' \in [Threads -> Nat]
        BY <1>0, <2>1, <2>2, <2>3 DEF TypeOK
    <2>7. UNCHANGED <<sync, parks, tasks, inTask, unwinding, wakes, outcome, ghost>>
        BY <1>13 DEF Claim
    <2>8. QED
        BY <1>0, <2>4, <2>5, <2>6, <2>7 DEF TypeOK
<1>14. ASSUME NEW t \in Threads, FinishChunk(t)
      PROVE  TypeOK'
    <2>1. claim' \in [Threads -> SUBSET (0 .. MaxTasks - 1)] /\ ran' \subseteq 0 .. MaxTasks - 1
        BY <1>0, <1>14 DEF TypeOK, FinishChunk
    <2>2. QED
        BY <1>0, <1>14, <2>1 DEF TypeOK, FinishChunk
<1>15. ASSUME NEW t \in Threads, TaskPanics(t) \/ TaskDispatches(t)
      PROVE  TypeOK'
    <2>1. PICK k \in claim[t] : PanicAt(t, k)
        BY <1>0, <1>15 DEF TaskInv, TaskPanics, TaskDispatches, MayDispatch
    <2>2. claim' \in [Threads -> SUBSET (0 .. MaxTasks - 1)] /\ ran' \subseteq 0 .. MaxTasks - 1
        BY <1>0, <2>1 DEF TypeOK, PanicAt
    <2>3. QED
        BY <1>0, <2>1, <2>2 DEF TypeOK, PanicAt
<1>16. ASSUME NEW t \in Threads, Leave(t)
      PROVE  TypeOK'
    BY <1>0, <1>16 DEF TypeOK, Leave
<1>17. ASSUME NEW w \in Workers, StartWorker(w) \/ Notice(w)
      PROVE  TypeOK'
    <2>1. CASE StartWorker(w)
        BY <1>0, <2>1 DEF TypeOK, StartWorker
    <2>2. CASE Notice(w)
        <3>1. last' \in [Workers -> 0 .. GenModulus - 1]
            BY <1>0, <2>2 DEF TypeOK, Notice
        <3>2. QED
            BY <1>0, <2>2, <3>1 DEF TypeOK, Notice
    <2>3. QED
        BY <1>17, <2>1, <2>2
<1>18. ASSUME NEW w \in Workers, SpinOut(w) \/ Announce(w) \/ Recheck(w)
      PROVE  TypeOK'
    BY <1>0, <1>18, ZenonT(60) DEF TypeOK, SpinOut, Announce, Recheck
<1>19. ASSUME NEW w \in Workers, Unblock(w) \/ SpuriousWakeup(w) \/ Unannounce(w)
      PROVE  TypeOK'
    BY <1>0, <1>19, ZenonT(60) DEF TypeOK, Unblock, SpuriousWakeup, Unannounce
<1>20. ASSUME NEW w \in Workers, FinishDrain(w)
      PROVE  TypeOK'
    <2>1. working = Cardinality(Owing) /\ w \in Owing
        BY <1>0, <1>20 DEF OwingInv, WorkingCountsOwing, Owing, FinishDrain
    <2>2. working # 0
        BY <2>1, OwingFinite, FS_EmptySet
    <2>3. working' \in 0 .. Cardinality(Workers)
        BY <1>0, <1>20, <2>2, WorkersFinite DEF TypeOK, FinishDrain
    <2>4. QED
        BY <1>0, <1>20, <2>3 DEF TypeOK, FinishDrain
<1>21. QED
    BY <1>1, <1>2, <1>3, <1>4, <1>5, <1>6, <1>7, <1>8, <1>9, <1>10, <1>11, <1>12, <1>13,
       <1>14, <1>15, <1>16, <1>17, <1>18, <1>19, <1>20 DEF Next, Dispatch, Drain, Wait

LEMMA PanicStep == ASSUME IInv, Next PROVE PanicInv'
<1> USE PoolAssumption DEF Threads, Goto, sync, parks, thread, wakes, ghost
<1>0. TypeOK /\ HolderInv /\ TaskInv /\ PanicInv
      /\ \A t \in Threads : Draining(t) => Published
    BY DrainIsPublished DEF IInv
<1>1. ASSUME UNCHANGED <<panic, unwinding, broken, lock>>,
             \A t \in Threads : pc[t] \in {"leave", "release"} => pc'[t] = pc[t],
             lock # None => (pc'[lock] = "job" <=> pc[lock] = "job")
                          /\ (pc'[lock] = "release" => pc[lock] = "release")
      PROVE  PanicInv'
    BY <1>0, <1>1 DEF PanicInv, Caught
<1>2. ASSUME NEW d \in Dispatchers, NEW n \in 0 .. MaxTasks, Call(d, n)
      PROVE  PanicInv'
    BY <1>0, <1>1, <1>2 DEF TypeOK, HolderInv, Call
<1>3. ASSUME NEW d \in Dispatchers, Acquire(d)
      PROVE  PanicInv'
    BY <1>0, <1>3 DEF TypeOK, HolderInv, PanicInv, Caught, Acquire
<1>4. ASSUME NEW d \in Dispatchers, WriteJob(d) \/ TakePanic(d)
      PROVE  \A t \in Threads : ~unwinding[t]
    BY <1>0, <1>4 DEF TypeOK, HolderInv, PanicInv, Draining, Published, DispatcherPc,
       WorkerPc, DrainPc, WriteJob, TakePanic
<1>5. ASSUME NEW d \in Dispatchers, WriteJob(d)
      PROVE  PanicInv'
    BY <1>0, <1>4, <1>5 DEF TypeOK, HolderInv, PanicInv, Caught, WriteJob
<1>6. ASSUME NEW d \in Dispatchers, ResetCounter(d) \/ SetWorking(d) \/ Bump(d)
                \/ (\E w \in Workers : LoadParked(d, w)) \/ Unpark(d) \/ StartDrain(d)
                \/ Join(d)
      PROVE  PanicInv'
    BY <1>0, <1>1, <1>6 DEF TypeOK, HolderInv, ResetCounter, SetWorking, Bump, LoadParked,
       Unpark, StartDrain, Join
<1>7. ASSUME NEW d \in Dispatchers, TakePanic(d)
      PROVE  PanicInv'
    <2>1. /\ lock = d /\ lock' = d /\ pc[d] = "take" /\ pc'[d] = "release"
          /\ panic' = FALSE /\ broken' = broken
          /\ unwinding'[d] = panic
          /\ \A t \in Threads \ {d} : unwinding'[t] = unwinding[t] /\ pc'[t] = pc[t]
        BY <1>0, <1>7 DEF TypeOK, HolderInv, TakePanic
    <2>2. broken <=> panic
        BY <1>0, <1>4, <1>7, <2>1 DEF PanicInv, Caught
    <2>3. \A t \in Threads \ {d} : ~unwinding'[t]
        BY <1>4, <1>7, <2>1
    <2>4. QED
        BY <2>1, <2>2, <2>3 DEF PanicInv, Caught
<1>8. ASSUME NEW d \in Dispatchers, Release(d)
      PROVE  PanicInv'
    BY <1>0, <1>8 DEF TypeOK, HolderInv, PanicInv, Caught, Release
<1>9. ASSUME NEW t \in Threads, FetchJob(t) \/ LoadCounter(t) \/ Claim(t) \/ FinishChunk(t)
      PROVE  PanicInv'
    BY <1>0, <1>1, <1>9 DEF TypeOK, FetchJob, LoadCounter, Claim, FinishChunk
<1>10. ASSUME NEW t \in Threads, Leave(t)
      PROVE  PanicInv'
    <2>1. /\ pc[t] = "leave" /\ pc'[t] \in {"finish", "join"}
          /\ panic' = (panic \/ unwinding[t]) /\ UNCHANGED <<lock, broken>>
          /\ unwinding'[t] = FALSE
          /\ \A u \in Threads \ {t} : unwinding'[u] = unwinding[u] /\ pc'[u] = pc[u]
        BY <1>0, <1>10 DEF TypeOK, Leave
    <2>2. Caught' <=> Caught
        BY <2>1 DEF Caught
    <2>3. Published
        BY <1>0, <2>1 DEF Draining, DrainPc
    <2>4. pc[lock] \notin {"job", "release"} /\ lock # None /\ pc'[lock] \notin {"job", "release"}
        BY <1>0, <2>1, <2>3 DEF TypeOK, Published, DrainPc
    <2>5. QED
        BY <1>0, <2>1, <2>2, <2>4 DEF PanicInv
<1>11. ASSUME NEW t \in Threads, TaskPanics(t) \/ TaskDispatches(t)
      PROVE  PanicInv'
    <2>1. PICK k \in claim[t] : PanicAt(t, k)
        BY <1>0, <1>11 DEF TaskInv, DrainPc, TaskPanics, TaskDispatches, MayDispatch
    <2>2. /\ pc[t] = "run" /\ pc'[t] = "leave" /\ broken' = TRUE
          /\ UNCHANGED <<lock, panic>> /\ unwinding'[t] = TRUE
          /\ \A u \in Threads \ {t} : unwinding'[u] = unwinding[u] /\ pc'[u] = pc[u]
        BY <1>0, <2>1 DEF TypeOK, PanicAt
    <2>3. Published
        BY <1>0, <2>2 DEF Draining, DrainPc
    <2>4. pc[lock] \notin {"job", "release"} /\ lock # None /\ pc'[lock] \notin {"job", "release"}
        BY <1>0, <2>2, <2>3 DEF TypeOK, Published, DrainPc
    <2>5. QED
        BY <1>0, <2>2, <2>4 DEF PanicInv, Caught
<1>12. ASSUME NEW w \in Workers, Wait(w) \/ SpuriousWakeup(w)
      PROVE  PanicInv'
    BY <1>0, <1>1, <1>12 DEF TypeOK, Wait, StartWorker, Notice, SpinOut, Announce,
       Recheck, Unblock, Unannounce, FinishDrain, SpuriousWakeup
<1>13. QED
    BY <1>2, <1>3, <1>5, <1>6, <1>7, <1>8, <1>9, <1>10, <1>11, <1>12
       DEF Next, Dispatch, Drain

LEMMA CallStep == ASSUME IInv, Next PROVE CallInv'
<1> USE PoolAssumption DEF Threads, Goto, sync, parks, thread, wakes, ghost
<1>0. TypeOK /\ TaskInv /\ CallInv
    BY DEF IInv
<1>1. ASSUME NEW d \in Dispatchers, NEW n \in 0 .. MaxTasks, Call(d, n)
      PROVE  CallInv'
    BY <1>0, <1>1 DEF TypeOK, CallInv, Call
<1>2. ASSUME NEW d \in Dispatchers, Dispatch(d)
      PROVE  CallInv'
    BY <1>0, <1>2 DEF TypeOK, CallInv, Dispatch, Acquire, WriteJob, ResetCounter,
       SetWorking, Bump, LoadParked, Unpark, StartDrain, Join, TakePanic, Release
<1>3. ASSUME NEW t \in Threads, Drain(t)
      PROVE  CallInv'
    BY <1>0, <1>3 DEF TypeOK, CallInv, Drain, FetchJob, LoadCounter, Claim,
       FinishChunk, Leave
<1>4. ASSUME NEW t \in Threads, TaskPanics(t) \/ TaskDispatches(t)
      PROVE  CallInv'
    BY <1>0, <1>4 DEF TypeOK, CallInv, TaskInv, DrainPc, TaskPanics, TaskDispatches,
       PanicAt, MayDispatch
<1>5. ASSUME NEW w \in Workers, Wait(w) \/ SpuriousWakeup(w)
      PROVE  CallInv'
    BY <1>0, <1>5 DEF TypeOK, CallInv, Wait, StartWorker, Notice, SpinOut, Announce,
       Recheck, Unblock, Unannounce, FinishDrain, SpuriousWakeup
<1>6. QED
    BY <1>1, <1>2, <1>3, <1>4, <1>5 DEF Next

LEMMA CoverStep == ASSUME IInv, Next PROVE CoverInv'
<1> USE PoolAssumption DEF Threads, Goto, sync, parks, thread, wakes, ghost
<1>0. TypeOK /\ HolderInv /\ JobInv /\ TaskInv /\ ClaimInv /\ PanicInv /\ CoverInv
      /\ \A t \in Threads : Draining(t) => Published
    BY DrainIsPublished DEF IInv
<1>1. ASSUME UNCHANGED <<claim, ran, broken, lock, counter, unwinding>>,
             \A t \in Threads : tasks'[t] = tasks[t] \/ (claim[t] = {} /\ lock # t),
             \A t \in Threads : pc'[t] = "leave" => pc[t] = "leave" /\ tasks'[t] = tasks[t],
             lock # None /\ pc'[lock] # "job" => pc[lock] # "job",
             lock # None /\ pc'[lock] \notin {"job", "reset"} =>
                 pc[lock] \notin {"job", "reset"},
             lock # None /\ pc'[lock] \in {"join", "take", "release"} =>
                 pc[lock] \in {"join", "take", "release"}
      PROVE  CoverInv'
    <2>1. lock # None => tasks'[lock] = tasks[lock]
        BY <1>0, <1>1 DEF TypeOK
    <2>2. \A i : Live(i)' <=> Live(i)
        BY <1>1 DEF Live
    <2>3. \A t \in Threads : claim'[t] \subseteq 0 .. tasks'[t] - 1
        BY <1>0, <1>1 DEF CoverInv
    <2>4. QED
        BY <1>0, <1>1, <2>1, <2>2, <2>3 DEF CoverInv
<1>2. ASSUME NEW d \in Dispatchers, NEW n \in 0 .. MaxTasks, Call(d, n)
      PROVE  CoverInv'
    BY <1>0, <1>1, <1>2 DEF TypeOK, HolderInv, ClaimInv, Call
<1>3. ASSUME NEW d \in Dispatchers, Acquire(d)
      PROVE  CoverInv'
    BY <1>0, <1>3 DEF TypeOK, HolderInv, CoverInv, Acquire
<1>4. ASSUME NEW d \in Dispatchers, WriteJob(d)
      PROVE  CoverInv'
    BY <1>0, <1>4 DEF TypeOK, HolderInv, CoverInv, WriteJob
<1>5. ASSUME NEW d \in Dispatchers, ResetCounter(d)
      PROVE  CoverInv'
    <2>1. ~Published
        BY <1>0, <1>5 DEF TypeOK, HolderInv, Published, DrainPc, ResetCounter
    <2>2. \A t \in Threads : pc[t] # "leave"
        BY <1>0, <2>1 DEF Draining, DrainPc
    <2>3. QED
        BY <1>0, <1>5, <2>2 DEF TypeOK, HolderInv, CoverInv, ResetCounter
<1>6. ASSUME NEW d \in Dispatchers, SetWorking(d) \/ Bump(d)
                \/ (\E w \in Workers : LoadParked(d, w)) \/ Unpark(d) \/ StartDrain(d)
                \/ Join(d)
      PROVE  CoverInv'
    BY <1>0, <1>1, <1>6 DEF TypeOK, HolderInv, SetWorking, Bump, LoadParked,
       Unpark, StartDrain, Join
<1>7. ASSUME NEW d \in Dispatchers, TakePanic(d)
      PROVE  CoverInv'
    <2>1. /\ lock = d /\ lock' = d /\ pc[d] = "take" /\ pc'[d] = "release"
          /\ UNCHANGED <<claim, ran, broken, counter, tasks>>
          /\ \A t \in Threads \ {d} : unwinding'[t] = unwinding[t] /\ pc'[t] = pc[t]
        BY <1>0, <1>7 DEF TypeOK, HolderInv, TakePanic
    <2>2. \A i : Live(i)' <=> Live(i)
        BY <2>1 DEF Live
    <2>3. QED
        BY <1>0, <2>1, <2>2 DEF CoverInv
<1>8. ASSUME NEW d \in Dispatchers, Release(d)
      PROVE  CoverInv'
    BY <1>0, <1>8 DEF TypeOK, HolderInv, ClaimInv, CoverInv, Release
<1>9. ASSUME NEW t \in Threads, FetchJob(t)
      PROVE  CoverInv'
    <2>1. lock # None /\ job = tasks[lock] /\ claim[t] = {}
        BY <1>0, <1>9 DEF JobInv, ClaimInv, Draining, DrainPc, Published, FetchJob
    <2>2. /\ UNCHANGED <<claim, ran, broken, lock, counter, unwinding>>
          /\ pc[t] = "fetch" /\ pc'[t] = "load" /\ tasks'[t] = job
          /\ \A u \in Threads \ {t} : tasks'[u] = tasks[u] /\ pc'[u] = pc[u]
        BY <1>0, <1>9 DEF TypeOK, FetchJob
    <2>3. lock \in Threads
        BY <1>0, <2>1 DEF TypeOK
    <2>4. tasks'[lock] = tasks[lock]
        BY <2>1, <2>2, <2>3
    <2>5. \A u \in Threads : tasks'[u] = tasks[u] \/ (claim[u] = {} /\ lock # u)
        BY <2>1, <2>2, <2>4
    <2>6. QED
        BY <1>1, <2>2, <2>3, <2>5
<1>10. ASSUME NEW t \in Threads, LoadCounter(t)
      PROVE  CoverInv'
    <2>1. PICK observed \in seen[t] .. counter :
              pc' = [pc EXCEPT ![t] = IF observed >= tasks[t] THEN "leave" ELSE "add"]
        BY <1>10 DEF LoadCounter
    <2>2. /\ UNCHANGED <<claim, ran, broken, lock, counter, unwinding, tasks>>
          /\ pc[t] = "load"
        BY <1>10 DEF LoadCounter
    <2>3. pc'[t] = "leave" => counter >= tasks[t]
        BY <1>0, <2>1 DEF TypeOK
    <2>4. pc'[t] \in {"leave", "add"} /\ \A u \in Threads \ {t} : pc'[u] = pc[u]
        BY <1>0, <2>1 DEF TypeOK
    <2>5. \A i : Live(i)' <=> Live(i)
        BY <2>2 DEF Live
    <2>6. \A u \in Threads : pc'[u] = "leave" => unwinding'[u] \/ counter' >= tasks'[u]
        BY <1>0, <2>2, <2>3, <2>4 DEF CoverInv
    <2>7. lock # None => lock \in Threads
        BY <1>0 DEF TypeOK
    <2>8. QED
        BY <1>0, <2>2, <2>4, <2>5, <2>6, <2>7 DEF CoverInv
<1>11. ASSUME NEW t \in Threads, Claim(t)
      PROVE  CoverInv'
    <2> DEFINE batch == Batch(tasks[t], seen[t])
    <2>1. batch \in Nat \ {0}
        <3>1. tasks[t] \in Int /\ seen[t] \in Nat /\ MaxClaimBatch \in Nat
            BY <1>0 DEF TypeOK
        <3>2. batch \in 1 .. MaxClaimBatch
            BY <3>1, BatchBounds, Zenon
        <3>3. QED
            BY <3>1, <3>2
    <2>2. /\ UNCHANGED <<ran, broken, lock, unwinding, tasks>>
          /\ counter' = counter + batch /\ pc[t] = "add"
        BY <1>11 DEF Claim
    <2>3. /\ claim[t] = {} /\ lock # None /\ lock \in Threads
          /\ tasks[t] = tasks[lock] /\ tasks[lock] \in Int
        BY <1>0, <2>2 DEF TypeOK, JobInv, ClaimInv, Draining, DrainPc, Published
    <2>4. \A u \in Threads \ {t} : pc'[u] = pc[u] /\ claim'[u] = claim[u]
        BY <1>0, <1>11 DEF TypeOK, Claim
    <2>5. \/ counter >= tasks[t] /\ pc'[t] = "leave" /\ claim' = claim
          \/ /\ ~(counter >= tasks[t]) /\ pc'[t] = "run"
             /\ claim'[t] = {i \in 0 .. tasks[t] - 1 : counter <= i /\ i < counter + batch}
        BY <1>0, <1>11 DEF TypeOK, Claim
    <2> HIDE DEF batch
    <2>6. counter' \in Nat /\ counter \in Nat /\ counter <= counter'
        BY <1>0, <2>1, <2>2 DEF TypeOK
    <2>7. \A u \in Threads : claim'[u] \subseteq 0 .. tasks'[u] - 1
        BY <1>0, <2>2, <2>4, <2>5 DEF CoverInv
    <2>8. \A i : Live(i) => Live(i)'
        BY <2>2, <2>3, <2>4 DEF Live
    <2>9. ASSUME NEW i \in 0 .. tasks[lock] - 1, i < counter', ~broken
          PROVE  Live(i)'
        <3>1. CASE i < counter
            BY <1>0, <2>2, <2>3, <2>4, <2>8, <2>9, <3>1 DEF CoverInv, JobInv, Published, Draining, DrainPc
        <3>2. CASE ~(i < counter)
            <4>1. i \in claim'[t]
                BY <2>2, <2>3, <2>5, <2>6, <2>9, <3>2
            <4>2. QED
                BY <4>1 DEF Live
        <3>3. QED
            BY <3>1, <3>2
    <2>10. \A u \in Threads : pc'[u] = "leave" => unwinding'[u] \/ counter' >= tasks'[u]
        <3>1. \A u \in Threads : tasks[u] \in Int
            BY <1>0 DEF TypeOK
        <3>2. QED
            BY <1>0, <2>2, <2>4, <2>5, <2>6, <3>1 DEF CoverInv
    <2>11. lock # None /\ pc'[lock] \in {"join", "take", "release"} =>
              broken \/ counter' >= tasks[lock]
        BY <1>0, <2>2, <2>3, <2>4, <2>5, <2>6 DEF CoverInv
    <2>12. pc[lock] # "job"
        BY <1>0, <2>2 DEF Draining, DrainPc, Published
    <2>13. QED
        BY <1>0, <2>2, <2>7, <2>9, <2>10, <2>11, <2>12 DEF CoverInv
<1>12. ASSUME NEW t \in Threads, FinishChunk(t)
      PROVE  CoverInv'
    <2>1. /\ UNCHANGED <<broken, lock, unwinding, tasks, counter>>
          /\ ran' = ran \cup claim[t] /\ claim'[t] = {}
          /\ pc[t] = "run" /\ pc'[t] = "load"
          /\ \A u \in Threads \ {t} : pc'[u] = pc[u] /\ claim'[u] = claim[u]
        BY <1>0, <1>12 DEF TypeOK, FinishChunk
    <2>2. /\ lock # None /\ lock \in Threads /\ pc[lock] # "job"
          /\ tasks[t] = tasks[lock]
        BY <1>0, <2>1 DEF TypeOK, JobInv, Draining, DrainPc, Published
    <2>3. \A i : Live(i) => Live(i)'
        BY <2>1 DEF Live
    <2>4. ran' \subseteq 0 .. tasks[lock] - 1
        BY <1>0, <2>1, <2>2 DEF CoverInv
    <2>5. QED
        BY <1>0, <2>1, <2>2, <2>3, <2>4 DEF CoverInv
<1>13. ASSUME NEW t \in Threads, TaskPanics(t) \/ TaskDispatches(t)
      PROVE  CoverInv'
    <2>1. PICK k \in claim[t] : PanicAt(t, k)
        BY <1>0, <1>13 DEF TaskInv, DrainPc, TaskPanics, TaskDispatches, MayDispatch
    <2>2. /\ UNCHANGED <<lock, tasks, counter>> /\ broken' = TRUE
          /\ ran' \subseteq ran \cup claim[t] /\ claim'[t] = {}
          /\ pc[t] = "run" /\ pc'[t] = "leave" /\ unwinding'[t]
          /\ \A u \in Threads \ {t} : /\ pc'[u] = pc[u] /\ claim'[u] = claim[u]
                                      /\ unwinding'[u] = unwinding[u]
        BY <1>0, <2>1 DEF TypeOK, PanicAt
    <2>3. /\ lock # None /\ lock \in Threads /\ pc[lock] # "job"
          /\ tasks[t] = tasks[lock]
        BY <1>0, <2>2 DEF TypeOK, JobInv, Draining, DrainPc, Published
    <2>4. ran' \subseteq 0 .. tasks[lock] - 1
        BY <1>0, <2>2, <2>3 DEF CoverInv
    <2>5. QED
        BY <1>0, <2>2, <2>4 DEF CoverInv
<1>14. ASSUME NEW t \in Threads, Leave(t)
      PROVE  CoverInv'
    <2>1. /\ UNCHANGED <<lock, counter, claim, ran, broken>>
          /\ pc[t] = "leave" /\ pc'[t] = IF t \in Workers THEN "finish" ELSE "join"
          /\ t \notin Workers => tasks' = tasks
          /\ \A u \in Threads \ {t} : /\ pc'[u] = pc[u] /\ tasks'[u] = tasks[u]
                                      /\ unwinding'[u] = unwinding[u]
        BY <1>0, <1>14 DEF TypeOK, Leave
    <2>2. claim[t] = {} /\ lock # None /\ lock \in Dispatchers /\ pc[lock] # "job"
        BY <1>0, <2>1 DEF TypeOK, ClaimInv, Draining, DrainPc, Published
    <2>3. tasks'[lock] = tasks[lock]
        BY <2>1, <2>2
    <2>4. \A i : Live(i)' <=> Live(i)
        BY <2>1 DEF Live
    <2>5. \A u \in Threads : claim'[u] \subseteq 0 .. tasks'[u] - 1
        BY <1>0, <2>1, <2>2 DEF CoverInv
    <2>6. \A u \in Threads : pc'[u] = "leave" => unwinding'[u] \/ counter' >= tasks'[u]
        BY <1>0, <2>1 DEF CoverInv
    <2>7. pc'[lock] \in {"join", "take", "release"} => broken \/ counter >= tasks[lock]
        <3>1. CASE lock = t
            BY <1>0, <2>1, <2>2, <3>1 DEF CoverInv, PanicInv, Caught
        <3>2. CASE lock # t
            BY <1>0, <2>1, <2>2, <3>2 DEF CoverInv
        <3>3. QED
            BY <3>1, <3>2
    <2>8. pc[lock] \notin {"job", "reset"}
        BY <1>0, <2>1 DEF Draining, DrainPc, Published
    <2>9. QED
        BY <1>0, <2>1, <2>2, <2>3, <2>4, <2>5, <2>6, <2>7, <2>8 DEF CoverInv
<1>15. ASSUME NEW w \in Workers, Wait(w) \/ SpuriousWakeup(w)
      PROVE  CoverInv'
    BY <1>0, <1>1, <1>15 DEF TypeOK, Wait, StartWorker, Notice, SpinOut, Announce,
       Recheck, Unblock, Unannounce, FinishDrain, SpuriousWakeup
<1>16. QED
    BY <1>2, <1>3, <1>4, <1>5, <1>6, <1>7, <1>8, <1>9, <1>10, <1>11, <1>12, <1>13, <1>14,
       <1>15 DEF Next, Dispatch, Drain

-----------------------------------------------------------------------------
(***************************************************************************)
(* Theorems.                                                               *)
(***************************************************************************)

LEMMA InitInv == Init => IInv
<1> SUFFICES ASSUME Init PROVE IInv
    OBVIOUS
<1> USE PoolAssumption DEF Init, Threads
<1>1. TypeOK
    <2>1. 0 \in 0 .. GenModulus - 1 /\ working \in 0 .. Cardinality(Workers)
        BY WorkersFinite
    <2>2. job \in NoJob .. MaxTasks /\ tasks \in [Threads -> NoJob .. MaxTasks]
        OBVIOUS
    <2>3. /\ pc \in [Threads -> DispatcherPc \cup WorkerPc \cup DrainPc]
          /\ \A d \in Dispatchers : pc[d] \in DispatcherPc \cup DrainPc
          /\ \A w \in Workers : pc[w] \in WorkerPc \cup DrainPc
        BY DEF DispatcherPc, WorkerPc
    <2>4. QED
        BY <2>1, <2>2, <2>3 DEF TypeOK
<1>2. HolderInv /\ JobInv /\ TaskInv /\ WakeInv
    BY DEF HolderInv, JobInv, TaskInv, WakeInv, NoLostWakeup, DrainPc
<1>3. OwingInv
    BY DEF OwingInv, WorkingCountsOwing, Owing, Published, DrainPc
<1>4. ClaimInv
    BY DEF ClaimInv, DisjointClaims
<1>5. PanicInv /\ CallInv
    BY DEF PanicInv, CallInv
<1>6. CoverInv
    BY DEF CoverInv
<1>7. QED
    BY <1>1, <1>2, <1>3, <1>4, <1>5, <1>6 DEF IInv

LEMMA StutterInv == ASSUME IInv, UNCHANGED vars PROVE IInv'
BY DEF vars, sync, parks, thread, wakes, ghost, IInv, TypeOK, HolderInv, OwingInv,
       WorkingCountsOwing, Owing, Published, JobInv, TaskInv, ClaimInv, DisjointClaims,
       WakeInv, NoLostWakeup, PanicInv, Caught, CoverInv, Live, CallInv

\* The invariant of the dispatch protocol: whatever the interleaving.
THEOREM PoolInvariant == Spec => []IInv
<1>1. ASSUME IInv, [Next]_vars PROVE IInv'
    <2>1. CASE Next
        BY <1>1, <2>1, TypeStep, HolderStep, OwingStep, JobStep, TaskStep, ClaimStep,
           WakeStep, PanicStep, CoverStep, CallStep DEF IInv
    <2>2. CASE UNCHANGED vars
        BY <1>1, <2>2, StutterInv
    <2>3. QED
        BY <1>1, <2>1, <2>2
<1>2. QED
    BY InitInv, <1>1, PTL DEF Spec

\* Every variable keeps its type; in particular the fetch_sub on `working`
\* never wraps below zero.
THEOREM TypeCorrect == Spec => []TypeOK
BY PoolInvariant, PTL DEF IInv

\* fetch_add tiles the items: no item is claimed by two threads or twice.
THEOREM ClaimsAreDisjoint == Spec => []DisjointClaims
<1>1. IInv => DisjointClaims
    BY DEF IInv, ClaimInv
<1>2. QED
    BY <1>1, PoolInvariant, PTL

\* The SAFETY comments on the job slot: no thread drains a job that is not the
\* published one or whose dispatcher has returned.
THEOREM JobIsStable == Spec => []JobOutlivesDrain
<1>1. IInv => JobOutlivesDrain
    BY DrainIsPublished DEF IInv, JobInv, JobOutlivesDrain, Draining, Published, DrainPc
<1>2. QED
    BY <1>1, PoolInvariant, PTL

\* The completion counter is exact.
THEOREM CompletionIsExact == Spec => []WorkingCountsOwing
<1>1. IInv => WorkingCountsOwing
    BY DEF IInv, OwingInv
<1>2. QED
    BY <1>1, PoolInvariant, PTL

\* The park protocol loses no wake-up.
THEOREM WakeupsAreKept == Spec => []NoLostWakeup
<1>1. IInv => NoLostWakeup
    BY DEF IInv, WakeInv
<1>2. QED
    BY <1>1, PoolInvariant, PTL

\* The slots of a reduction are used by one thread each.
THEOREM SlotsHaveOneUser == Spec => []SlotsAreExclusive
<1>1. IInv => SlotsAreExclusive
    BY DEF IInv, HolderInv, SlotsAreExclusive, Draining, DrainPc
<1>2. QED
    BY <1>1, PoolInvariant, PTL

\* What a call that ends knows, from the invariant.
LEMMA EndOfDispatch == IInv => OutcomeIsOfThisDispatch
<1> SUFFICES ASSUME IInv, NEW d \in Dispatchers, pc[d] = "release"
             PROVE  /\ unwinding[d] = broken
                    /\ ~broken => ran = 0 .. tasks[d] - 1
    BY DEF OutcomeIsOfThisDispatch
<1>0. TypeOK /\ HolderInv /\ JobInv /\ ClaimInv /\ PanicInv /\ CoverInv
      /\ \A t \in Threads : Draining(t) => Published
    BY DrainIsPublished DEF IInv
<1>1. lock = d /\ lock # None /\ ~Published
    BY <1>0, PoolAssumption DEF HolderInv, Published, DrainPc
<1>2. \A t \in Threads : ~Draining(t)
    BY <1>0, <1>1
<1>3. \A t \in Threads \ {d} : ~unwinding[t]
    BY <1>0, <1>1, <1>2 DEF Threads, TypeOK, HolderInv, PanicInv, Draining, DispatcherPc,
       WorkerPc, DrainPc
<1>4. broken <=> unwinding[d]
    BY <1>0, <1>1, <1>3 DEF PanicInv, Caught, Threads
<1>5. \A t \in Threads : claim[t] = {}
    BY <1>0, <1>2 DEF ClaimInv, Draining, DrainPc
<1>6. ASSUME ~broken
      PROVE  ran = 0 .. tasks[d] - 1
    <2>1. ran \subseteq 0 .. tasks[d] - 1 /\ counter >= tasks[d]
        BY <1>0, <1>1, <1>6 DEF CoverInv
    <2>2. tasks[d] \in Int /\ counter \in Nat
        BY <1>0 DEF TypeOK, Threads
    <2>3. \A i \in 0 .. tasks[d] - 1 : i < counter
        BY <2>1, <2>2
    <2>4. \A i \in 0 .. tasks[d] - 1 : Live(i)
        BY <1>0, <1>1, <1>6, <2>3 DEF CoverInv
    <2>5. QED
        BY <1>5, <2>1, <2>4 DEF Live
<1>7. unwinding[d] \in BOOLEAN /\ broken \in BOOLEAN
    BY <1>0 DEF TypeOK, Threads
<1>8. QED
    BY <1>4, <1>6, <1>7, Zenon

\* for_each_chunk returns normally only when every item of this dispatch was
\* run, and panics exactly when one of its own tasks did: a stale panic, or a
\* worker that leaves early, never changes what a caller is told.
THEOREM OutcomesAreTrue == Spec => []OutcomeIsOfThisDispatch
BY PoolInvariant, EndOfDispatch, PTL

-----------------------------------------------------------------------------
(***************************************************************************)
(* The pool implements ParallelFor: every step of a thread is a step of    *)
(* the abstract parallel for, or changes nothing it can see.               *)
(***************************************************************************)

\* The dispatcher past the write of its job is the active caller.
LEMMA ActiveIs ==
    ASSUME IInv
    PROVE  /\ \A d \in Dispatchers : lock = d /\ pc[d] # "job" => Active = d
           /\ lock = None => Active = None
           /\ lock # None /\ pc[lock] = "job" => Active = None
           /\ Active # None => lock = Active /\ Active \in Dispatchers /\ pc[Active] # "job"
BY PoolAssumption DEF IInv, TypeOK, Active

LEMMA AbstractInit == Init => Abstract!Init
<1> SUFFICES ASSUME Init PROVE Abstract!Init
    OBVIOUS
<1>1. Active = None
    BY PoolAssumption DEF Init, Active
<1>2. QED
    BY <1>1 DEF Init, Abstract!Init

\* A step that keeps the active caller, its number of items and what was run
\* is a stuttering step of the abstract specification.
LEMMA AbstractStutter ==
    ASSUME Active' = Active, Active # None => tasks'[Active] = tasks[Active],
           UNCHANGED <<ran, broken, outcome>>
    PROVE  UNCHANGED Abstract!vars
BY DEF Abstract!vars

\* One case per action of the pool.
LEMMA AbstractStep == ASSUME IInv, IInv', Next PROVE [Abstract!Next]_(Abstract!vars)
<1> USE PoolAssumption DEF Threads, Goto, sync, parks, thread, wakes, ghost
<1>0. TypeOK /\ HolderInv /\ JobInv /\ TaskInv /\ ClaimInv /\ CoverInv /\ PanicInv /\ CallInv
      /\ \A t \in Threads : Draining(t) => Published
    BY DrainIsPublished DEF IInv
<1>a. ASSUME UNCHANGED lock,
             lock # None => (pc'[lock] = "job" <=> pc[lock] = "job")
      PROVE  Active' = Active
    BY <1>0, <1>a DEF TypeOK, Active
<1>1. ASSUME NEW d \in Dispatchers, NEW n \in 0 .. MaxTasks, Call(d, n)
      PROVE  Abstract!Next
    <2>1. lock # d /\ lock' = lock /\ Active # d
        BY <1>0, <1>1, ActiveIs DEF HolderInv, Call
    <2>2. lock # None => pc'[lock] = pc[lock] /\ tasks'[lock] = tasks[lock]
        BY <1>0, <1>1, <2>1 DEF TypeOK, Call
    <2>3. Active' = Active /\ (Active # None => tasks'[Active] = tasks[Active])
        BY <1>a, <2>1, <2>2, ActiveIs
    <2>4. UNCHANGED <<ran, broken>>
        BY <1>1 DEF Call
    <2>5. CASE RunsInline(n)
        <3>1. \E end \in {"ok", "panicked"} : outcome' = [outcome EXCEPT ![d] = end]
            BY <1>1, <2>5 DEF Call
        <3>2. Abstract!Inline(d)
            BY <2>1, <2>3, <2>4, <3>1 DEF Abstract!Inline
        <3>3. QED
            BY <3>2 DEF Abstract!Next
    <2>6. CASE ~RunsInline(n)
        <3>1. outcome' = [outcome EXCEPT ![d] = "none"]
            BY <1>1, <2>6 DEF Call
        <3>2. Abstract!Request(d)
            BY <2>1, <2>3, <2>4, <3>1 DEF Abstract!Request
        <3>3. QED
            BY <3>2 DEF Abstract!Next
    <2>7. QED
        BY <2>5, <2>6
<1>2. ASSUME NEW d \in Dispatchers, Acquire(d)
      PROVE  UNCHANGED Abstract!vars
    <2>1. Active = None
        BY <1>2, ActiveIs DEF Acquire
    <2>2. lock' = d /\ pc'[d] = "job" /\ UNCHANGED <<ran, broken, outcome>>
        BY <1>0, <1>2 DEF TypeOK, Acquire
    <2>3. Active' = None
        BY <2>2 DEF Active
    <2>4. QED
        BY <2>1, <2>2, <2>3, AbstractStutter
<1>3. ASSUME NEW d \in Dispatchers, WriteJob(d)
      PROVE  Abstract!Next
    <2>1. lock = d /\ pc[d] = "job" /\ pc'[d] = "reset" /\ lock' = d
        BY <1>0, <1>3 DEF TypeOK, HolderInv, WriteJob
    <2>2. Active = None
        BY <2>1, ActiveIs
    <2>3. Active' = d /\ Active' # None
        BY <2>1 DEF Active
    <2>4. tasks' = tasks /\ tasks[d] \in 0 .. MaxTasks
        BY <1>0, <1>3 DEF JobInv, WriteJob
    <2>5. ran' = {} /\ broken' = FALSE /\ outcome' = outcome /\ outcome[d] = "none"
        BY <1>0, <1>3, <2>1 DEF CallInv, WriteJob
    <2>6. Abstract!Begin(d, tasks[d])
        BY <2>2, <2>3, <2>4, <2>5 DEF Abstract!Begin
    <2>7. QED
        BY <2>4, <2>6 DEF Abstract!Next
<1>4. ASSUME NEW d \in Dispatchers, ResetCounter(d) \/ SetWorking(d) \/ Bump(d)
                \/ (\E w \in Workers : LoadParked(d, w)) \/ Unpark(d) \/ StartDrain(d)
                \/ Join(d) \/ TakePanic(d)
      PROVE  UNCHANGED Abstract!vars
    <2>1. /\ UNCHANGED <<lock, tasks, ran, broken, outcome>>
          /\ pc[d] # "job" /\ pc'[d] # "job" /\ lock = d
        BY <1>0, <1>4 DEF TypeOK, HolderInv, ResetCounter, SetWorking, Bump, LoadParked,
           Unpark, StartDrain, Join, TakePanic
    <2>2. QED
        BY <1>a, <2>1, AbstractStutter
<1>5. ASSUME NEW d \in Dispatchers, Release(d)
      PROVE  Abstract!Next
    <2>1. /\ lock = d /\ lock' = None /\ pc[d] = "release"
          /\ outcome' = [outcome EXCEPT ![d] = IF unwinding[d] THEN "panicked" ELSE "ok"]
          /\ UNCHANGED <<ran, broken>>
        BY <1>0, <1>5 DEF HolderInv, Release
    <2>2. Active = d /\ Active # None /\ Active' = None
        BY <2>1, ActiveIs DEF Active
    <2>3. unwinding[d] = broken /\ (~broken => ran = 0 .. tasks[d] - 1)
        BY <2>1, EndOfDispatch DEF OutcomeIsOfThisDispatch
    <2>4. Abstract!Return(d)
        BY <2>1, <2>2, <2>3 DEF Abstract!Return
    <2>5. QED
        BY <2>4 DEF Abstract!Next
<1>6. ASSUME NEW t \in Threads, FetchJob(t) \/ LoadCounter(t) \/ Claim(t) \/ Leave(t)
      PROVE  UNCHANGED Abstract!vars
    <2>1. UNCHANGED <<lock, ran, broken, outcome>> /\ pc[t] \in DrainPc
        BY <1>6 DEF FetchJob, LoadCounter, Claim, Leave, DrainPc
    <2>2. lock \in Dispatchers /\ pc[lock] # "job" /\ job = tasks[lock]
        BY <1>0, <2>1 DEF TypeOK, JobInv, Draining, Published, DrainPc
    <2>3. pc'[lock] # "job" /\ tasks'[lock] = tasks[lock]
        BY <1>0, <1>6, <2>2 DEF TypeOK, FetchJob, LoadCounter, Claim, Leave
    <2>4. QED
        BY <1>a, <2>1, <2>2, <2>3, ActiveIs, AbstractStutter
<1>7. ASSUME NEW t \in Threads, pc[t] = "run"
      PROVE  /\ lock \in Dispatchers /\ pc[lock] # "job" /\ Active = lock /\ Active # None
             /\ claim[t] \cap ran = {} /\ claim[t] \subseteq 0 .. tasks[Active] - 1
    <2>1. lock \in Dispatchers /\ pc[lock] # "job" /\ tasks[t] = tasks[lock]
        BY <1>0, <1>7 DEF TypeOK, JobInv, Draining, Published, DrainPc
    <2>2. QED
        BY <1>0, <2>1, ActiveIs DEF ClaimInv, DisjointClaims, CoverInv
<1>8. ASSUME NEW t \in Threads, FinishChunk(t)
      PROVE  Abstract!Next
    <2>1. /\ pc[t] = "run" /\ pc'[t] = "load" /\ ran' = ran \cup claim[t]
          /\ UNCHANGED <<lock, tasks, broken, outcome>>
          /\ \A u \in Threads \ {t} : pc'[u] = pc[u]
        BY <1>0, <1>8 DEF TypeOK, FinishChunk
    <2>2. Active' = Active
        BY <1>a, <1>7, <2>1
    <2>3. Abstract!RunItems(claim[t])
        BY <1>7, <2>1, <2>2 DEF Abstract!RunItems
    <2>4. QED
        BY <1>7, <2>1, <2>3 DEF Abstract!Next
<1>9. ASSUME NEW t \in Threads, TaskPanics(t) \/ TaskDispatches(t)
      PROVE  Abstract!Next
    <2>1. PICK k \in claim[t] : PanicAt(t, k)
        BY <1>0, <1>9 DEF TaskInv, DrainPc, TaskPanics, TaskDispatches, MayDispatch
    <2> DEFINE items == {i \in claim[t] : i < k}
    <2>2. /\ pc[t] = "run" /\ pc'[t] = "leave" /\ ran' = ran \cup items /\ broken' = TRUE
          /\ UNCHANGED <<lock, tasks, outcome>>
          /\ \A u \in Threads \ {t} : pc'[u] = pc[u]
        BY <1>0, <2>1 DEF TypeOK, PanicAt
    <2>3. Active' = Active
        BY <1>a, <1>7, <2>2
    <2>4. items \cap ran = {} /\ items \subseteq 0 .. tasks[Active] - 1
        BY <1>7, <2>2
    <2> HIDE DEF items
    <2>5. Abstract!Fail(items)
        BY <1>7, <2>2, <2>3, <2>4 DEF Abstract!Fail
    <2>6. QED
        BY <1>7, <2>2, <2>4, <2>5 DEF Abstract!Next
<1>10. ASSUME NEW w \in Workers, Wait(w) \/ SpuriousWakeup(w)
      PROVE  UNCHANGED Abstract!vars
    <2>1. /\ UNCHANGED <<lock, tasks, ran, broken, outcome>>
          /\ \A u \in Dispatchers : pc'[u] = pc[u]
        BY <1>0, <1>10 DEF TypeOK, Wait, StartWorker, Notice, SpinOut, Announce,
           Recheck, Unblock, Unannounce, FinishDrain, SpuriousWakeup
    <2>2. lock # None => lock \in Dispatchers
        BY <1>0 DEF TypeOK
    <2>3. QED
        BY <1>a, <2>1, <2>2, AbstractStutter
<1>11. QED
    BY <1>1, <1>2, <1>3, <1>4, <1>5, <1>6, <1>8, <1>9, <1>10 DEF Next, Dispatch, Drain

\* for_each_chunk is a parallel for: dispatches are served one at a time, each
\* item is run at most once, a normal return means all of them were, and a
\* panicking return means that one of them panicked. This is the property the
\* runs check as a refinement, here for any number of threads and any batches.
THEOREM Implementation == Spec => ImplementsParallelFor
<1>1. UNCHANGED vars => UNCHANGED Abstract!vars
    BY DEF vars, sync, thread, ghost, Active, Abstract!vars
<1>2. IInv /\ IInv' /\ [Next]_vars => [Abstract!Next]_(Abstract!vars)
    BY <1>1, AbstractStep
<1>3. QED
    BY <1>2, PoolInvariant, AbstractInit, PTL
       DEF Spec, ImplementsParallelFor, Abstract!Spec

-----------------------------------------------------------------------------
(***************************************************************************)
(* The aggregation: its inductive invariant.                               *)
(***************************************************************************)

\* A list of whatever its elements are.
Listing(s) == s \in Seq({s[i] : i \in DOMAIN s})

(* What a task is for, in the order the guest does them: the cells of the   *)
(* table, the keys of a group of a child, the rest of a child, the covering.*)
Writes == {"da_roots", "sphincs_signers", "dup_sphincs", "pubkeys", "dup_pubkeys"}
Subtasks == {"child_group", "child_sphincs_index", "child_defer", "proof"}
Stage(task) ==
    IF task.do \in Writes THEN 1
    ELSE IF task.do = "child_index" THEN 2
    ELSE IF task.do \in Subtasks \/ (task.do = "da_index" /\ ~task.direct) THEN 3
    ELSE 4

\* The tasks there are with so many groups.
TaskSet(groups) ==
    {[do |-> d] : d \in {"da_roots", "sphincs_signers", "dup_sphincs", "sp_raw_index", "child_meta", "publish"} \cup Subtasks}
      \cup {[do |-> "da_index", direct |-> b] : b \in BOOLEAN}
      \cup {[do |-> t[1], group |-> t[2]] : t \in {"pubkeys", "dup_pubkeys", "raw_index", "child_index"} \X (1 .. groups)}

\* What is left to do is in that order, a child ends with its proof, and a run with publishing.
TasksInOrder(todo) ==
    /\ \A i, k \in 1 .. Len(todo) : i <= k => Stage(todo[i]) <= Stage(todo[k])
    /\ \A i \in 1 .. Len(todo) : Stage(todo[i]) < 4 /\ Stage(todo[i]) > 1 =>
         \E k \in i .. Len(todo) : todo[k].do = "proof"
    /\ \A i, k \in 1 .. Len(todo) : i < k /\ todo[i].do = "proof" => Stage(todo[k]) = 4
    /\ \A i \in 1 .. Len(todo) : (todo[i].do = "publish") = (i = Len(todo))

Todo(todo, groups) == todo \in Seq(TaskSet(groups)) /\ Len(todo) > 0 /\ TasksInOrder(todo)

\* A child is being verified.
Within(todo) == Stage(todo[1]) \in {2, 3}

\* The claims and the roots of a statement.
StatesXmss(s, stated) ==
    \E i \in DOMAIN s.xmss : \E k \in DOMAIN s.xmss[i].keys : stated = s.xmss[i].at \o <<s.xmss[i].keys[k]>>
StatesSphincs(s, stated) == \E i \in DOMAIN s.sphincs : stated = s.sphincs[i]
StatesRoot(s, stated) == \E i \in DOMAIN s.roots : stated = s.roots[i]

\* There are signatures of its claims, and codewords of its roots.
Backed(s) ==
    /\ \A i \in DOMAIN s.xmss : \A k \in DOMAIN s.xmss[i].keys : s.xmss[i].at \o <<s.xmss[i].keys[k]>> \in XmssSigned
    /\ \A i \in DOMAIN s.sphincs : s.sphincs[i] \in SphincsSigned
    /\ \A i \in DOMAIN s.roots : DaVerify(s.roots[i])

\* Its lists are lists.
Listed(s) == Listing(s.xmss) /\ \A i \in DOMAIN s.xmss : Listing(s.xmss[i].keys)

\* What a proof shows.
Shows(s) == Listed(s) /\ (s.defer.holds => Backed(s))

AggregateFields == {"xmss", "sphincs", "roots", "defer", "proof"}
ProofsShow == \A a \in aggregates : DOMAIN a = AggregateFields /\ (a.proof.ran => Shows(a.proof.of))

NodeFields == {"at", "honest", "hints", "announced", "todo", "meta", "groups", "table", "sphincs",
               "roots", "cover", "written", "child", "claims"}

\* The proofs an honest node is hinted are those of its children.
HintsFit ==
    node.honest => /\ "proof" \in DOMAIN node.hints /\ Listing(node.hints["proof"])
                   /\ \A i \in DOMAIN node.hints["proof"] : \E a \in aggregates : node.hints["proof"][i] = a.proof

MetaFits ==
    {node.meta.declared, node.meta.dropped, node.meta.sphincs, node.meta.sphincsDups, node.meta.rawSphincs,
     node.meta.roots, node.meta.rootDups, node.meta.direct, node.meta.children} \subseteq Nat
GroupsFit ==
    /\ Listing(node.groups)
    /\ \A j \in DOMAIN node.groups : {node.groups[j].n, node.groups[j].dups, node.groups[j].raw} \subseteq Nat

\* Before the counts are known.
SettingUp ==
    /\ node.cover = {} /\ node.written = 0 /\ node.table = << >> /\ node.sphincs = << >> /\ node.roots = << >>
    /\ node.claims = << >> /\ GroupsFit
    /\ \/ node.todo = <<[do |-> "meta"]>> /\ node.groups = << >>
       \/ /\ MetaFits /\ Listing(node.todo) /\ Len(node.todo) > 0
          /\ \A i \in 1 .. Len(node.todo) : node.todo[i] = [do |-> IF i < Len(node.todo) THEN "group" ELSE "geometry"]
          /\ Len(node.groups) + Len(node.todo) - 1 = node.meta.declared + node.meta.dropped

\* A slot that is covered is one of a claim with its signature, or of one of the
\* child that is being verified.
XmssSettled(slot) ==
    \E j \in DOMAIN node.groups :
      LET stated == node.groups[j].at \o <<node.table[slot]>>
      IN  /\ slot \in Base(j) .. Base(j) + GroupSlots(j) - 1
          /\ stated \in XmssSigned \/ (Within(node.todo) /\ StatesXmss(node.child, stated))
SphincsSettled(slot) ==
    \E r \in 0 .. SphincsSlots - 1 :
      LET stated == node.sphincs[r + 1]
      IN  /\ slot = XmssSlots + r
          /\ stated \in SphincsSigned \/ (Within(node.todo) /\ StatesSphincs(node.child, stated))
RootSettled(slot) ==
    \E r \in 0 .. RootSlots - 1 :
      LET stated == node.roots[r + 1]
      IN  /\ slot = DaBase + r
          /\ DaVerify(stated) \/ (Within(node.todo) /\ StatesRoot(node.child, stated))
Settled(slot) == XmssSettled(slot) \/ SphincsSettled(slot) \/ RootSettled(slot)

AllHold(claims) == \A i \in DOMAIN claims : claims[i].holds

ChildFits ==
    /\ DOMAIN node.child = {"xmss", "sphincs", "roots", "defer"}
    /\ Listing(node.child.xmss) /\ Listing(node.child.sphincs) /\ Listing(node.child.roots)
    /\ \A i \in DOMAIN node.child.xmss : DOMAIN node.child.xmss[i] = {"at", "keys"} /\ Listing(node.child.xmss[i].keys)
    /\ \A i \in 1 .. Len(node.todo) : node.todo[i].do = "child_index" =>
         /\ Len(node.child.xmss) > 0
         /\ node.child.xmss[Len(node.child.xmss)].at = node.groups[node.todo[i].group].at

Working ==
    /\ MetaFits /\ GroupsFit /\ Len(node.groups) = node.meta.declared + node.meta.dropped
    /\ Todo(node.todo, Len(node.groups))
    /\ Listing(node.claims) /\ Listing(node.sphincs) /\ Listing(node.roots)
    /\ Stage(node.todo[1]) = 1 =>
         node.cover = {} /\ node.written = 0 /\ \A i \in 1 .. Len(node.todo) : Stage(node.todo[i]) \in {1, 4}
    /\ IsFiniteSet(node.cover) /\ Cardinality(node.cover) = node.written
    /\ node.cover \subseteq 0 .. TotalSlots - 1
    /\ node.meta.children = 0 =>
         node.claims = << >> /\ \A i \in 1 .. Len(node.todo) : node.todo[i].do # "child_meta" /\ Stage(node.todo[i]) \in {1, 4}
    /\ Within(node.todo) => ChildFits
    /\ AllHold(node.claims) => \A slot \in node.cover : Settled(slot)

NodeOk ==
    \/ node = NoRun
    \/ node.at = "run" /\ DOMAIN node = NodeFields /\ node.honest \in BOOLEAN /\ HintsFit /\ (SettingUp \/ Working)

AggregationInv == ProofsShow /\ NodeOk

-----------------------------------------------------------------------------
(***************************************************************************)
(* Lists.                                                                  *)
(***************************************************************************)

\* The elements of a sequence make it one.
LEMMA ListingIs ==
    ASSUME NEW C, NEW s \in Seq(C)
    PROVE  Listing(s)
<1> DEFINE D == {s[i] : i \in DOMAIN s}
<1>1. Len(s) \in Nat /\ DOMAIN s = 1 .. Len(s) /\ s = [i \in 1 .. Len(s) |-> s[i]]
  OBVIOUS
<1>2. \A i \in 1 .. Len(s) : s[i] \in D
  BY <1>1
<1> HIDE DEF D
<1>3. s \in Seq(D)
  BY <1>1, <1>2, IsASeq
<1>4. QED
  BY <1>3 DEF Listing, D

\* A list is a function of the numbers up to its length.
LEMMA ListingHas ==
    ASSUME NEW s, Listing(s)
    PROVE  Len(s) \in Nat /\ DOMAIN s = 1 .. Len(s) /\ s = [i \in 1 .. Len(s) |-> s[i]]
<1> DEFINE D == {s[i] : i \in DOMAIN s}
<1>1. s \in Seq(D)
  BY DEF Listing
<1> HIDE DEF D
<1>2. QED
  BY <1>1

\* Such a function is a list.
LEMMA ListingOf ==
    ASSUME NEW n \in Nat, NEW s, DOMAIN s = 1 .. n, s = [i \in 1 .. n |-> s[i]]
    PROVE  Listing(s) /\ Len(s) = n
<1> DEFINE D == {s[i] : i \in 1 .. n}
<1>1. \A i \in 1 .. n : s[i] \in D
  OBVIOUS
<1> HIDE DEF D
<1>2. s \in [1 .. n -> D]
  BY <1>1
<1>3. s \in Seq(D) /\ Len(s) = n
  BY <1>2
<1>4. QED
  BY <1>3, ListingIs

\* t is s and then x.
Extends(t, s, x) ==
    /\ Listing(t) /\ Len(t) = Len(s) + 1 /\ t[Len(t)] = x /\ DOMAIN t = 1 .. Len(s) + 1
    /\ \A i \in 1 .. Len(s) : t[i] = s[i]

\* A list can be extended.
LEMMA ListingAppend ==
    ASSUME NEW s, Listing(s), NEW x
    PROVE  Extends(Append(s, x), s, x)
<1> DEFINE D == {s[i] : i \in DOMAIN s} \cup {x}
           E == {s[i] : i \in DOMAIN s}
<1>1. s \in Seq(D)
  <2>1. s \in Seq(E) /\ E \subseteq D
    BY DEF Listing
  <2> HIDE DEF D, E
  <2>2. QED
    BY <2>1
<1>2. x \in D
  OBVIOUS
<1> HIDE DEF D, E
<1>3. Append(s, x) \in Seq(D)
  BY <1>1, <1>2
<1>4. Len(Append(s, x)) = Len(s) + 1 /\ Append(s, x)[Len(s) + 1] = x /\ DOMAIN Append(s, x) = 1 .. Len(s) + 1
  BY <1>1, <1>2
<1>5. \A i \in 1 .. Len(s) : Append(s, x)[i] = s[i]
  BY <1>1, <1>2
<1>6. QED
  BY <1>3, <1>4, <1>5, ListingIs DEF Extends

\* t is what follows the first of s.
Follows(t, s) ==
    /\ Listing(t) /\ Len(t) = Len(s) - 1 /\ DOMAIN t = 1 .. Len(t)
    /\ \A i \in 1 .. Len(t) : t[i] = s[i + 1]

\* What follows the first of a list is a list.
LEMMA ListingTail ==
    ASSUME NEW s, Listing(s), Len(s) > 0
    PROVE  Follows(Tail(s), s)
<1> DEFINE D == {s[i] : i \in DOMAIN s}
<1>1. s \in Seq(D)
  BY DEF Listing
<1> HIDE DEF D
<1>2. s # << >>
  BY <1>1
<1>3. Tail(s) \in Seq(D) /\ Len(Tail(s)) = Len(s) - 1
  BY <1>1, <1>2, HeadTailProperties
<1>4. \A i \in 1 .. Len(Tail(s)) : Tail(s)[i] = s[i + 1]
  BY <1>1, <1>2, HeadTailProperties
<1> DEFINE t == Tail(s)
<1> HIDE DEF t
<1>5. Listing(t) /\ DOMAIN t = 1 .. Len(t)
  <2>1. t \in Seq(D)
    BY <1>3 DEF t
  <2>2. QED
    BY <2>1, ListingIs
<1>6. QED
  BY <1>3, <1>4, <1>5 DEF Follows, t

\* t is u and then s.
Precedes(t, u, s) ==
    /\ Listing(t) /\ Len(t) = Len(u) + Len(s) /\ DOMAIN t = 1 .. Len(t)
    /\ \A i \in 1 .. Len(u) : t[i] = u[i]
    /\ \A i \in 1 .. Len(s) : t[Len(u) + i] = s[i]

\* Two lists make one.
LEMMA ListingConcat ==
    ASSUME NEW u, NEW s, Listing(u), Listing(s)
    PROVE  Precedes(u \o s, u, s)
<1> DEFINE D == {u[i] : i \in DOMAIN u}
           E == {s[i] : i \in DOMAIN s}
<1>1. u \in Seq(D) /\ s \in Seq(E)
  BY DEF Listing
<1> HIDE DEF D, E
<1>2. u \in Seq(D \cup E) /\ s \in Seq(D \cup E)
  BY <1>1
<1>3. u \o s \in Seq(D \cup E) /\ Len(u \o s) = Len(u) + Len(s)
  BY <1>2
<1>4. \A i \in 1 .. Len(u) + Len(s) : (u \o s)[i] = IF i <= Len(u) THEN u[i] ELSE s[i - Len(u)]
  BY <1>2, ConcatProperties
<1>5. \A i \in 1 .. Len(u) : (u \o s)[i] = u[i]
  BY <1>2, <1>4
<1>6. \A i \in 1 .. Len(s) : (u \o s)[Len(u) + i] = s[i]
  <2>1. Len(u) \in Nat /\ Len(s) \in Nat
    BY <1>2
  <2>2. QED
    BY <1>4, <2>1
<1> DEFINE t == u \o s
<1> HIDE DEF t
<1>7. Listing(t) /\ DOMAIN t = 1 .. Len(t)
  <2>1. t \in Seq(D \cup E)
    BY <1>3, Zenon DEF t
  <2> DEFINE F == D \cup E
  <2> HIDE DEF F
  <2>2. t \in Seq(F)
    BY <2>1, Zenon DEF F
  <2>3. QED
    BY <2>2, ListingIs
<1>8. QED
  BY <1>3, <1>5, <1>6, <1>7 DEF Precedes, t

\* What is of each of the sequences is of what they are flattened to.
LEMMA FlatIn ==
    ASSUME NEW S, NEW n \in Nat, NEW seqs \in [1 .. n -> Seq(S)]
    PROVE  FlattenSeq(seqs) \in Seq(S)
<1>1. CASE n = 0
  <2>1. seqs = << >> /\ Len(seqs) = 0
    BY <1>1
  <2>2. FlattenSeq(seqs) = seqs
    BY <2>1, Zenon DEF FlattenSeq
  <2>3. << >> \in Seq(S)
    OBVIOUS
  <2>4. QED
    BY <2>1, <2>2, <2>3, Zenon
<1>2. CASE n # 0
  <2>1. PICK f : IsJoin(f, n, S, seqs) /\ FlattenSeq(seqs) = f[n]
    BY <1>2, Flattened
  <2>2. QED
    BY <2>1 DEF IsJoin
<1>3. QED
  BY <1>1, <1>2

-----------------------------------------------------------------------------
(***************************************************************************)
(* What the guest has left to do.                                          *)
(***************************************************************************)

\* A task has one of four stages.
LEMMA StageIs ==
    ASSUME NEW task
    PROVE  /\ Stage(task) \in {1, 2, 3, 4}
           /\ task.do = "publish" => Stage(task) = 4
           /\ task.do = "proof" => Stage(task) = 3
<1>1. QED
  BY DEF Stage, Writes, Subtasks

\* t is what is left of s after its first task.
Goes(t, s, groups) ==
    /\ Todo(t, groups) /\ Follows(t, s) /\ Stage(s[1]) <= Stage(t[1])
    /\ Within(s) /\ s[1].do # "proof" => Within(t)
    /\ s[1].do = "proof" => Stage(t[1]) = 4

\* A task done leaves the others, in their order.
LEMMA TodoTail ==
    ASSUME NEW groups, NEW s, Todo(s, groups), s[1].do # "publish"
    PROVE  Goes(Tail(s), s, groups)
<1> DEFINE T == TaskSet(groups)
           t == Tail(s)
<1>1. s \in Seq(T) /\ Len(s) > 0 /\ Len(s) \in Nat /\ TasksInOrder(s)
  BY DEF Todo
<1>2. Listing(s)
  <2> HIDE DEF T
  <2>1. QED
    BY <1>1, ListingIs
<1>3. Follows(t, s)
  BY <1>1, <1>2, ListingTail
<1>4. t \in Seq(T)
  <2>1. s # << >>
    BY <1>1
  <2> HIDE DEF T
  <2>2. QED
    BY <1>1, <2>1, HeadTailProperties
<1> DEFINE n == Len(t)
<1>5. n \in Nat /\ Len(s) = n + 1 /\ n > 0
  <2>1. Len(s) # 1
    BY <1>1 DEF TasksInOrder
  <2>2. n = Len(s) - 1
    BY <1>3 DEF Follows
  <2> HIDE DEF n
  <2>3. QED
    BY <1>1, <2>1, <2>2
<1>6. \A i \in 1 .. n : t[i] = s[i + 1] /\ i + 1 \in 1 .. Len(s)
  <2>1. \A i \in 1 .. n : t[i] = s[i + 1]
    BY <1>3 DEF Follows
  <2> HIDE DEF n, t
  <2>2. QED
    BY <1>5, <2>1
<1> HIDE DEF t, T
<1>7. TasksInOrder(t)
  <2>1. ASSUME NEW i \in 1 .. n, NEW k \in 1 .. n, i <= k
        PROVE  Stage(t[i]) <= Stage(t[k])
    <3>1. i + 1 \in 1 .. Len(s) /\ k + 1 \in 1 .. Len(s) /\ i + 1 <= k + 1
      BY <1>6, <2>1
    <3>2. Stage(s[i + 1]) <= Stage(s[k + 1])
      BY <1>1, <3>1 DEF TasksInOrder
    <3>3. QED
      BY <1>6, <3>2
  <2>2. ASSUME NEW i \in 1 .. n, Stage(t[i]) < 4 /\ Stage(t[i]) > 1
        PROVE  \E k \in i .. n : t[k].do = "proof"
    <3>1. t[i] = s[i + 1] /\ i + 1 \in 1 .. Len(s)
      BY <1>6
    <3>2. PICK k \in i + 1 .. Len(s) : s[k].do = "proof"
      BY <1>1, <2>2, <3>1 DEF TasksInOrder
    <3>3. k - 1 \in i .. n /\ (k - 1) + 1 = k /\ k - 1 \in 1 .. n
      BY <1>5, <3>2
    <3>4. t[k - 1] = s[k]
      BY <1>6, <3>3
    <3>5. QED
      BY <3>2, <3>3, <3>4
  <2>3. ASSUME NEW i \in 1 .. n, NEW k \in 1 .. n, i < k, t[i].do = "proof"
        PROVE  Stage(t[k]) = 4
    <3>1. i + 1 \in 1 .. Len(s) /\ k + 1 \in 1 .. Len(s) /\ i + 1 < k + 1 /\ t[i] = s[i + 1] /\ t[k] = s[k + 1]
      BY <1>6, <2>3
    <3>2. QED
      BY <1>1, <2>3, <3>1 DEF TasksInOrder
  <2>4. ASSUME NEW i \in 1 .. n
        PROVE  (t[i].do = "publish") = (i = n)
    <3>1. i + 1 \in 1 .. Len(s) /\ t[i] = s[i + 1]
      BY <1>6
    <3>2. (s[i + 1].do = "publish") = (i + 1 = Len(s))
      BY <1>1, <3>1 DEF TasksInOrder
    <3>3. QED
      BY <1>5, <3>1, <3>2
  <2>5. QED
    BY <2>1, <2>2, <2>3, <2>4 DEF TasksInOrder
<1>8. Todo(t, groups)
  BY <1>4, <1>5, <1>7 DEF Todo, T
<1>9. t[1] = s[2] /\ 1 \in 1 .. Len(s) /\ 2 \in 1 .. Len(s)
  BY <1>5, <1>6
<1>10. Stage(s[1]) <= Stage(t[1])
  BY <1>1, <1>9 DEF TasksInOrder
<1>11. ASSUME Within(s), s[1].do # "proof"
       PROVE  Within(t)
  <2>1. Stage(s[1]) < 4 /\ Stage(s[1]) > 1
    BY <1>11 DEF Within
  <2>2. PICK k \in 1 .. Len(s) : s[k].do = "proof"
    BY <1>1, <1>9, <2>1 DEF TasksInOrder
  <2>3. k # 1 /\ 2 <= k
    BY <1>11, <2>2
  <2>4. Stage(s[2]) <= Stage(s[k])
    BY <1>1, <1>9, <2>2, <2>3 DEF TasksInOrder
  <2>5. Stage(s[k]) = 3
    BY <2>2, StageIs
  <2>6. Stage(t[1]) \in {1, 2, 3, 4} /\ Stage(t[1]) <= 3 /\ Stage(t[1]) > 1
    BY <1>9, <1>10, <2>1, <2>4, <2>5, StageIs
  <2>7. QED
    BY <2>6 DEF Within
<1>12. s[1].do = "proof" => Stage(t[1]) = 4
  BY <1>1, <1>9 DEF TasksInOrder
<1>13. QED
  BY <1>3, <1>8, <1>10, <1>11, <1>12 DEF Goes, t

\* Tasks that may come before those of t.
Before4(u, t, groups) ==
    /\ u \in Seq(TaskSet(groups))
    /\ \A i, k \in 1 .. Len(u) : i <= k => Stage(u[i]) <= Stage(u[k])
    /\ \A i \in 1 .. Len(u) : /\ Stage(u[i]) <= Stage(t[1]) /\ u[i].do \notin {"proof", "publish"}
                              /\ Stage(u[i]) \in {2, 3} => Within(t)

\* With them, what is to be done is in order again.
LEMMA TodoMore ==
    ASSUME NEW groups, NEW t, Todo(t, groups), NEW u, Before4(u, t, groups)
    PROVE  Todo(u \o t, groups) /\ Precedes(u \o t, u, t)
<1> DEFINE T == TaskSet(groups)
           s == u \o t
           m == Len(u)
           n == Len(t)
<1>1. t \in Seq(T) /\ n > 0 /\ TasksInOrder(t) /\ u \in Seq(T)
  BY DEF Todo, Before4
<1>2. Listing(u) /\ Listing(t)
  <2> HIDE DEF T
  <2>1. QED
    BY <1>1, ListingIs
<1>3. Precedes(s, u, t)
  BY <1>2, ListingConcat
<1>4. s \in Seq(T) /\ m \in Nat /\ n \in Nat
  <2> HIDE DEF T
  <2>1. QED
    BY <1>1
<1>5. Len(s) = m + n /\ (\A i \in 1 .. m : s[i] = u[i]) /\ \A i \in 1 .. n : s[m + i] = t[i]
  BY <1>3 DEF Precedes
<1> HIDE DEF s, T, m, n
<1>6. \A i \in 1 .. m + n : IF i <= m THEN i \in 1 .. m /\ s[i] = u[i]
                                      ELSE i - m \in 1 .. n /\ s[i] = t[i - m]
  <2>1. ASSUME NEW i \in 1 .. m + n, ~(i <= m)
        PROVE  i - m \in 1 .. n /\ s[i] = t[i - m]
    <3>1. i - m \in 1 .. n /\ m + (i - m) = i
      BY <1>4, <2>1
    <3>2. s[m + (i - m)] = t[i - m]
      BY <1>5, <3>1
    <3>3. QED
      BY <3>1, <3>2
  <2>2. QED
    BY <1>4, <1>5, <2>1
<1>7. \A i \in 1 .. n : Stage(t[1]) <= Stage(t[i])
  BY <1>1, <1>4 DEF TasksInOrder, n
<1>8. \A i \in 1 .. m : Stage(u[i]) <= Stage(t[1]) /\ u[i].do \notin {"proof", "publish"}
                       /\ (Stage(u[i]) \in {2, 3} => Within(t))
  BY DEF Before4, m
<1>9. TasksInOrder(s)
  <2>1. ASSUME NEW i \in 1 .. m + n, NEW k \in 1 .. m + n, i <= k
        PROVE  Stage(s[i]) <= Stage(s[k])
    <3>1. CASE k <= m
      <4>1. i \in 1 .. m /\ k \in 1 .. m /\ s[i] = u[i] /\ s[k] = u[k]
        BY <1>4, <1>6, <2>1, <3>1
      <4>2. QED
        BY <2>1, <4>1 DEF Before4, m
    <3>2. CASE ~(k <= m) /\ i <= m
      <4>1. i \in 1 .. m /\ k - m \in 1 .. n /\ s[i] = u[i] /\ s[k] = t[k - m]
        BY <1>6, <3>2
      <4> DEFINE a == Stage(u[i])
                 b == Stage(t[1])
                 c == Stage(t[k - m])
      <4>2. a <= b /\ b <= c
        BY <1>7, <1>8, <4>1
      <4>3. a \in {1, 2, 3, 4} /\ b \in {1, 2, 3, 4} /\ c \in {1, 2, 3, 4}
        BY StageIs
      <4>4. s[i] = u[i] /\ s[k] = t[k - m]
        BY <4>1
      <4>5. Stage(s[i]) = a /\ Stage(s[k]) = c
        BY <4>4, Zenon
      <4> HIDE DEF a, b, c
      <4>6. QED
        BY <4>2, <4>3, <4>5
    <3>3. CASE ~(i <= m)
      <4>1. ~(k <= m)
        BY <1>4, <2>1, <3>3
      <4>2. i - m \in 1 .. n /\ k - m \in 1 .. n /\ s[i] = t[i - m] /\ s[k] = t[k - m]
        BY <1>6, <3>3, <4>1
      <4>3. i - m <= k - m
        BY <1>4, <2>1
      <4>4. Stage(t[i - m]) <= Stage(t[k - m])
        BY <1>1, <4>2, <4>3 DEF TasksInOrder, n
      <4>5. QED
        BY <4>2, <4>4
    <3>4. QED
      BY <3>1, <3>2, <3>3
  <2>2. ASSUME NEW i \in 1 .. m + n, Stage(s[i]) < 4 /\ Stage(s[i]) > 1
        PROVE  \E k \in i .. m + n : s[k].do = "proof"
    <3>1. PICK j \in 1 .. n : m + j >= i /\ t[j].do = "proof"
      <4>1. CASE i <= m
        <5>1. s[i] = u[i] /\ i \in 1 .. m
          BY <1>6, <4>1
        <5>2. Stage(u[i]) \in {2, 3}
          <6>1. Stage(u[i]) \in {1, 2, 3, 4} /\ Stage(u[i]) < 4 /\ Stage(u[i]) > 1
            BY <2>2, <5>1, StageIs
          <6>2. QED
            BY <6>1
        <5>3. Within(t)
          BY <1>8, <5>1, <5>2
        <5>4. Stage(t[1]) < 4 /\ Stage(t[1]) > 1 /\ 1 \in 1 .. n
          BY <1>1, <1>4, <5>3 DEF Within
        <5>5. PICK j \in 1 .. n : t[j].do = "proof"
          BY <1>1, <5>4 DEF TasksInOrder, n
        <5>6. QED
          BY <1>4, <4>1, <5>5
      <4>2. CASE ~(i <= m)
        <5>1. i - m \in 1 .. n /\ s[i] = t[i - m]
          BY <1>6, <4>2
        <5>2. PICK j \in i - m .. n : t[j].do = "proof"
          BY <1>1, <2>2, <5>1 DEF TasksInOrder, n
        <5>3. j \in 1 .. n /\ m + j >= i
          BY <1>4, <5>1, <5>2
        <5>4. QED
          BY <5>2, <5>3
      <4>3. QED
        BY <4>1, <4>2
    <3>2. m + j \in i .. m + n /\ s[m + j] = t[j]
      BY <1>4, <1>5, <3>1
    <3>3. QED
      BY <3>1, <3>2
  <2>3. ASSUME NEW i \in 1 .. m + n, NEW k \in 1 .. m + n, i < k, s[i].do = "proof"
        PROVE  Stage(s[k]) = 4
    <3>1. ~(i <= m)
      BY <1>6, <1>8, <2>3
    <3>2. ~(k <= m)
      BY <1>4, <2>3, <3>1
    <3>3. i - m \in 1 .. n /\ k - m \in 1 .. n /\ s[i] = t[i - m] /\ s[k] = t[k - m] /\ i - m < k - m
      BY <1>4, <1>6, <2>3, <3>1, <3>2
    <3>4. QED
      BY <1>1, <2>3, <3>3 DEF TasksInOrder, n
  <2>4. ASSUME NEW i \in 1 .. m + n
        PROVE  (s[i].do = "publish") = (i = m + n)
    <3>1. CASE i <= m
      <4>1. s[i].do # "publish" /\ i # m + n
        BY <1>1, <1>4, <1>6, <1>8, <3>1
      <4>2. QED
        BY <4>1
    <3>2. CASE ~(i <= m)
      <4>1. i - m \in 1 .. n /\ s[i] = t[i - m]
        BY <1>6, <3>2
      <4>2. (t[i - m].do = "publish") = (i - m = n)
        BY <1>1, <4>1 DEF TasksInOrder, n
      <4>3. (i - m = n) = (i = m + n)
        BY <1>4
      <4>4. QED
        BY <4>1, <4>2, <4>3
    <3>3. QED
      BY <3>1, <3>2
  <2>5. Len(s) = m + n
    BY <1>5
  <2>6. QED
    BY <2>1, <2>2, <2>3, <2>4, <2>5 DEF TasksInOrder
<1>10. Todo(s, groups)
  <2>1. Len(s) > 0
    BY <1>1, <1>4, <1>5
  <2>2. QED
    BY <1>4, <1>9, <2>1 DEF Todo, T
<1>11. QED
  BY <1>3, <1>10 DEF s

\* Tasks of one stage, none of which ends a child or a run.
Piece(p, c, groups, kids) ==
    /\ p \in Seq(TaskSet(groups))
    /\ \A i \in 1 .. Len(p) : /\ Stage(p[i]) = c /\ p[i].do \notin {"proof", "publish"}
                              /\ p[i].do = "child_meta" => kids

\* Such tasks, of stages from D and in their order.
Pieces(u, D, groups, kids) ==
    /\ u \in Seq(TaskSet(groups))
    /\ \A i, k \in 1 .. Len(u) : i <= k => Stage(u[i]) <= Stage(u[k])
    /\ \A i \in 1 .. Len(u) : /\ Stage(u[i]) \in D /\ u[i].do \notin {"proof", "publish"}
                              /\ u[i].do = "child_meta" => kids

\* One task, several times.
LEMMA PieceTimes ==
    ASSUME NEW groups, NEW kids, NEW k \in Nat, NEW task \in TaskSet(groups), NEW c, Stage(task) = c,
           task.do \notin {"proof", "publish"}, k # 0 /\ task.do = "child_meta" => kids
    PROVE  Piece(Times(k, task), c, groups, kids)
<1> DEFINE T == TaskSet(groups)
           p == [i \in 1 .. k |-> task]
<1>1. task \in T
  OBVIOUS
<1>2. p \in Seq(T) /\ Len(p) = k /\ \A i \in 1 .. k : p[i] = task
  <2> HIDE DEF T
  <2>1. QED
    BY <1>1
<1>3. p = Times(k, task)
  BY DEF Times
<1> HIDE DEF p, T
<1>4. \A i \in 1 .. Len(p) : p[i] = task /\ k # 0
  BY <1>2
<1>5. p \in Seq(TaskSet(groups))
  BY <1>2 DEF T
<1>6. Piece(p, c, groups, kids)
  BY <1>4, <1>5 DEF Piece
<1>7. QED
  BY <1>3, <1>6

\* A piece is in order.
LEMMA PiecesFirst ==
    ASSUME NEW groups, NEW kids, NEW p, NEW c \in {1, 2, 3, 4}, Piece(p, c, groups, kids)
    PROVE  Pieces(p, {c}, groups, kids)
BY DEF Piece, Pieces

\* Tasks of a later stage come behind.
LEMMA PiecesMore ==
    ASSUME NEW groups, NEW kids, NEW u, NEW D \in SUBSET {1, 2, 3, 4}, Pieces(u, D, groups, kids),
           NEW p, NEW c \in {1, 2, 3, 4}, Piece(p, c, groups, kids), \A d \in D : d <= c
    PROVE  Pieces(u \o p, D \cup {c}, groups, kids)
<1> DEFINE T == TaskSet(groups)
           s == u \o p
           m == Len(u)
           n == Len(p)
<1>1. u \in Seq(T) /\ p \in Seq(T)
  BY DEF Piece, Pieces
<1>2. Listing(u) /\ Listing(p) /\ s \in Seq(T) /\ m \in Nat /\ n \in Nat
  <2> HIDE DEF T
  <2>1. QED
    BY <1>1, ListingIs
<1>3. Precedes(s, u, p)
  BY <1>2, ListingConcat
<1>4. Len(s) = m + n /\ (\A i \in 1 .. m : s[i] = u[i]) /\ \A i \in 1 .. n : s[m + i] = p[i]
  BY <1>3 DEF Precedes
<1>5. \A i \in 1 .. n : /\ Stage(p[i]) = c /\ p[i].do \notin {"proof", "publish"}
                        /\ p[i].do = "child_meta" => kids
  BY DEF Piece
<1>6. \A i \in 1 .. m : /\ Stage(u[i]) \in D /\ u[i].do \notin {"proof", "publish"}
                        /\ u[i].do = "child_meta" => kids
  BY DEF Pieces
<1>7. \A i, k \in 1 .. m : i <= k => Stage(u[i]) <= Stage(u[k])
  BY DEF Pieces
<1> HIDE DEF s, T, m, n
<1>8. \A i \in 1 .. m + n : IF i <= m THEN i \in 1 .. m /\ s[i] = u[i]
                                      ELSE i - m \in 1 .. n /\ s[i] = p[i - m]
  <2>1. ASSUME NEW i \in 1 .. m + n, ~(i <= m)
        PROVE  i - m \in 1 .. n /\ s[i] = p[i - m]
    <3>1. i - m \in 1 .. n /\ m + (i - m) = i
      BY <1>2, <2>1
    <3>2. s[m + (i - m)] = p[i - m]
      BY <1>4, <3>1
    <3>3. QED
      BY <3>1, <3>2
  <2>2. QED
    BY <1>2, <1>4, <2>1
<1>9. ASSUME NEW i \in 1 .. m + n
      PROVE  /\ Stage(s[i]) = (IF i <= m THEN Stage(u[i]) ELSE c)
             /\ Stage(s[i]) \in D \cup {c} /\ s[i].do \notin {"proof", "publish"} /\ (s[i].do = "child_meta" => kids)
  <2>1. CASE i <= m
    <3>1. i \in 1 .. m /\ s[i] = u[i]
      BY <1>8, <2>1
    <3>2. QED
      BY <1>6, <2>1, <3>1
  <2>2. CASE ~(i <= m)
    <3>1. i - m \in 1 .. n /\ s[i] = p[i - m]
      BY <1>8, <2>2
    <3>2. QED
      BY <1>5, <2>2, <3>1
  <2>3. QED
    BY <2>1, <2>2
<1>10. ASSUME NEW i \in 1 .. m + n, NEW k \in 1 .. m + n, i <= k
       PROVE  Stage(s[i]) <= Stage(s[k])
  <2>1. CASE k <= m
    <3>1. i \in 1 .. m /\ k \in 1 .. m /\ i <= m
      BY <1>2, <1>10, <2>1
    <3>2. Stage(u[i]) <= Stage(u[k])
      BY <1>7, <1>10, <3>1
    <3>3. s[i] = u[i] /\ s[k] = u[k]
      BY <1>8, <2>1, <3>1
    <3>4. QED
      BY <3>2, <3>3
  <2>2. CASE ~(k <= m)
    <3>1. Stage(s[k]) = c /\ Stage(s[i]) \in D \cup {c}
      BY <1>9, <2>2
    <3> DEFINE a == Stage(s[i])
    <3>2. a \in D \cup {c}
      BY <3>1
    <3> HIDE DEF a
    <3>3. a <= c
      BY <3>2
    <3>4. QED
      BY <3>1, <3>3 DEF a
  <2>3. QED
    BY <2>1, <2>2
<1>11. s \in Seq(TaskSet(groups)) /\ Len(s) = m + n
  BY <1>2, <1>4 DEF T
<1>12. Pieces(s, D \cup {c}, groups, kids)
  BY <1>9, <1>10, <1>11 DEF Pieces
<1>13. QED
  BY <1>12 DEF s

\* Publishing is all that is left at the end.
LEMMA TodoLast ==
    ASSUME NEW groups
    PROVE  Todo(<<[do |-> "publish"]>>, groups) /\ Stage([do |-> "publish"]) = 4
<1> DEFINE x == [do |-> "publish"]
<1>1. x \in TaskSet(groups) /\ x.do = "publish"
  BY DEF TaskSet
<1>2. Stage(x) = 4
  BY <1>1, StageIs
<1> HIDE DEF x
<1>3. <<x>> \in Seq(TaskSet(groups)) /\ Len(<<x>>) = 1 /\ <<x>>[1] = x
  BY <1>1
<1>4. \A i \in 1 .. 1 : i = 1 /\ <<x>>[i] = x
  BY <1>3
<1> DEFINE s == <<x>>
<1>5. Len(s) = 1 /\ \A i \in 1 .. 1 : s[i] = x /\ i = 1
  BY <1>3, <1>4
<1> HIDE DEF s
<1>6. TasksInOrder(s)
  <2>1. x.do # "proof" /\ ~(Stage(x) < 4)
    BY <1>1, <1>2
  <2>2. QED
    BY <1>1, <1>2, <1>5, <2>1 DEF TasksInOrder
<1>7. s \in Seq(TaskSet(groups)) /\ Len(s) > 0
  BY <1>3 DEF s
<1>8. QED
  BY <1>2, <1>6, <1>7 DEF Todo, s, x

\* Before what is left of the covering, a child may have its proof.
LEMMA TodoProof ==
    ASSUME NEW groups, NEW t, Todo(t, groups), Stage(t[1]) = 4
    PROVE  Todo(<<[do |-> "proof"]>> \o t, groups) /\ Precedes(<<[do |-> "proof"]>> \o t, <<[do |-> "proof"]>>, t)
<1> DEFINE T == TaskSet(groups)
           x == [do |-> "proof"]
           n == Len(t)
           u == <<x>>
           s == u \o t
<1>1. x \in T /\ x.do = "proof"
  BY DEF TaskSet, Subtasks
<1>2. Stage(x) = 3
  BY <1>1, StageIs
<1>3. t \in Seq(T) /\ n \in Nat /\ n > 0 /\ TasksInOrder(t)
  <2>1. t \in Seq(T) /\ n > 0 /\ TasksInOrder(t)
    BY DEF Todo
  <2> HIDE DEF T
  <2>2. QED
    BY <2>1
<1> HIDE DEF x, T
<1>4. u \in Seq(T) /\ Len(u) = 1 /\ u[1] = x
  BY <1>1
<1> HIDE DEF u
<1>5. s \in Seq(T) /\ Listing(u) /\ Listing(t)
  BY <1>3, <1>4, ListingIs
<1>6. Precedes(s, u, t)
  BY <1>5, ListingConcat
<1>7. Len(s) = n + 1 /\ s[1] = x /\ \A i \in 1 .. n : s[1 + i] = t[i]
  BY <1>3, <1>4, <1>6 DEF Precedes
<1> HIDE DEF s, n
<1>8. \A i \in 1 .. n + 1 : i = 1 \/ (i - 1 \in 1 .. n /\ s[i] = t[i - 1])
  <2>1. ASSUME NEW i \in 1 .. n + 1, i # 1
        PROVE  i - 1 \in 1 .. n /\ s[i] = t[i - 1]
    <3>1. i - 1 \in 1 .. n /\ 1 + (i - 1) = i
      BY <1>3, <2>1
    <3>2. s[1 + (i - 1)] = t[i - 1]
      BY <1>7, <3>1
    <3>3. QED
      BY <3>1, <3>2
  <2>2. QED
    BY <2>1
<1>9. \A i \in 1 .. n : Stage(t[i]) = 4
  <2>1. ASSUME NEW i \in 1 .. n
        PROVE  Stage(t[i]) = 4
    <3>1. Stage(t[1]) <= Stage(t[i]) /\ Stage(t[i]) \in {1, 2, 3, 4}
      BY <1>3, StageIs DEF TasksInOrder, n
    <3>2. QED
      BY <3>1
  <2>2. QED
    BY <2>1
<1>10. \A i \in 1 .. n + 1 : IF i = 1 THEN s[i] = x /\ Stage(s[i]) = 3 ELSE Stage(s[i]) = 4
  BY <1>2, <1>7, <1>8, <1>9
<1>11. TasksInOrder(s)
  <2>1. ASSUME NEW i \in 1 .. n + 1, NEW k \in 1 .. n + 1, i <= k
        PROVE  Stage(s[i]) <= Stage(s[k])
    <3>1. CASE i = 1
      BY <1>10, <3>1
    <3>2. CASE i # 1
      <4>1. k # 1
        BY <2>1, <3>2
      <4>2. QED
        BY <1>10, <3>2, <4>1
    <3>3. QED
      BY <3>1, <3>2
  <2>2. ASSUME NEW i \in 1 .. n + 1, Stage(s[i]) < 4
        PROVE  i = 1 /\ s[1].do = "proof" /\ 1 \in i .. n + 1
    BY <1>1, <1>3, <1>7, <1>10, <2>2
  <2>3. ASSUME NEW i \in 1 .. n + 1, NEW k \in 1 .. n + 1, i < k
        PROVE  Stage(s[k]) = 4
    <3>1. k # 1
      BY <2>3
    <3>2. QED
      BY <1>10, <3>1
  <2>4. ASSUME NEW i \in 1 .. n + 1
        PROVE  (s[i].do = "publish") = (i = n + 1)
    <3>1. CASE i = 1
      BY <1>1, <1>3, <1>7, <3>1
    <3>2. CASE i # 1
      <4>1. i - 1 \in 1 .. n /\ s[i] = t[i - 1]
        BY <1>8, <3>2
      <4>2. (t[i - 1].do = "publish") = (i - 1 = n)
        BY <1>3, <4>1 DEF TasksInOrder, n
      <4>3. (i - 1 = n) = (i = n + 1)
        BY <1>3
      <4>4. QED
        BY <4>1, <4>2, <4>3
    <3>3. QED
      BY <3>1, <3>2
  <2>5. QED
    BY <1>7, <2>1, <2>2, <2>3, <2>4 DEF TasksInOrder
<1>12. Todo(s, groups)
  <2>1. Len(s) > 0
    BY <1>3, <1>7
  <2>2. QED
    BY <1>5, <1>11, <2>1 DEF Todo, T
<1>13. QED
  BY <1>6, <1>12 DEF s, u, x

-----------------------------------------------------------------------------
(***************************************************************************)
(* The regions of the table.                                               *)
(***************************************************************************)

\* The sum of the first numbers is what they cumulate to.
LEMMA SumIs ==
    ASSUME NEW N \in Nat, NEW c \in [1 .. N -> Nat], NEW f, IsSum(f, N, c), NEW m \in 0 .. N
    PROVE  Sum([i \in 1 .. m |-> c[i]]) = f[m]
<1> DEFINE s == [i \in 1 .. m |-> c[i]]
           h == CHOOSE h : h = Totalling(h, s, m)
           g == [k \in 0 .. m |-> f[k]]
<1>1. m \in Nat /\ m <= N /\ s \in [1 .. m -> Nat] /\ Len(s) = m
  OBVIOUS
<1>2. \A k \in 1 .. m : s[k] = c[k] /\ k \in 1 .. N
  BY <1>1
<1>3. f[0] = 0 /\ f \in [0 .. N -> Nat] /\ \A k \in 1 .. N : f[k] = f[k - 1] + c[k]
  BY DEF IsSum
<1> HIDE DEF s
<1>4. \A k \in 0 .. m : g[k] = IF k = 0 THEN 0 ELSE g[k - 1] + s[k]
  <2>1. ASSUME NEW k \in 0 .. m, k # 0
        PROVE  g[k] = g[k - 1] + s[k]
    <3>1. k \in 1 .. m /\ k - 1 \in 0 .. m /\ k \in 1 .. N
      BY <1>1, <2>1
    <3>2. f[k] = f[k - 1] + c[k] /\ s[k] = c[k]
      BY <1>2, <1>3, <3>1
    <3>3. QED
      BY <3>1, <3>2
  <2>2. g[0] = 0
    BY <1>1, <1>3
  <2>3. QED
    BY <2>1, <2>2
<1>5. g = Totalling(g, s, m)
  <2>1. g = [k \in 0 .. m |-> g[k]]
    OBVIOUS
  <2> HIDE DEF g
  <2>2. QED
    BY <1>4, <2>1 DEF Totalling
<1>6. h = Totalling(h, s, m)
  <2> HIDE DEF g
  <2>1. QED
    BY <1>5
<1>7. Sum(s) = h[m]
  <2>1. Sum(s) = (CHOOSE k : k = Totalling(k, s, Len(s)))[Len(s)]
    BY Zenon DEF Sum, Totalling
  <2>2. QED
    BY <1>1, <2>1, Zenon DEF h
<1> HIDE DEF h
<1>8. \A k \in 0 .. m : h[k] = IF k = 0 THEN 0 ELSE h[k - 1] + s[k]
  BY <1>6 DEF Totalling
<1> DEFINE S == {k \in 0 .. m : h[k] = f[k]}
<1>9. 0 \in S
  BY <1>1, <1>3, <1>8
<1>10. ASSUME NEW k \in 0 .. m - 1, k \in S
       PROVE  k + 1 \in S
  <2>1. k + 1 \in 1 .. m /\ k + 1 \in 0 .. m /\ (k + 1) - 1 = k /\ k + 1 # 0 /\ k + 1 \in 1 .. N
    BY <1>1
  <2>2. h[k + 1] = h[k] + s[k + 1]
    BY <1>8, <2>1
  <2>3. f[k + 1] = f[k] + c[k + 1] /\ s[k + 1] = c[k + 1]
    BY <1>2, <1>3, <2>1
  <2>4. QED
    BY <1>10, <2>1, <2>2, <2>3
<1>11. m \in S
  <2> HIDE DEF S
  <2>1. \A k \in 0 .. m : k \in S
    BY <1>1, <1>9, <1>10, UpTo
  <2>2. QED
    BY <1>1, <2>1
<1>12. QED
  BY <1>7, <1>11 DEF s

\* The regions of the groups lie one after the other, before the others.
RegionsLie ==
    /\ \A j \in DOMAIN node.groups :
         Base(j) \in Nat /\ GroupSlots(j) \in Nat /\ Base(j) + GroupSlots(j) <= XmssSlots
    /\ \A j, k \in DOMAIN node.groups : j < k => Base(j) + GroupSlots(j) <= Base(k)
    /\ \A slot \in 0 .. XmssSlots - 1 : \E j \in DOMAIN node.groups : slot \in Base(j) .. Base(j) + GroupSlots(j) - 1
    /\ XmssSlots \in Nat /\ SphincsSlots \in Nat /\ RootSlots \in Nat
    /\ DaBase = XmssSlots + SphincsSlots /\ TotalSlots = DaBase + RootSlots

\* They do when the counts are counts.
LEMMA Regions ==
    ASSUME MetaFits, GroupsFit
    PROVE  RegionsLie
<1> DEFINE N == Len(node.groups)
           c == [i \in 1 .. N |-> GroupSlots(i)]
<1>1. N \in Nat /\ DOMAIN node.groups = 1 .. N
  BY ListingHas DEF GroupsFit
<1>2. \A i \in 1 .. N : GroupSlots(i) \in Nat
  <2>1. ASSUME NEW i \in 1 .. N
        PROVE  GroupSlots(i) \in Nat
    <3>1. {node.groups[i].n, node.groups[i].dups, node.groups[i].raw} \subseteq Nat
      BY <1>1 DEF GroupsFit
    <3> DEFINE a == node.groups[i].n
               b == node.groups[i].dups
    <3>2. a \in Nat /\ b \in Nat
      BY <3>1
    <3>3. GroupSlots(i) = a + b
      BY DEF GroupSlots
    <3> HIDE DEF a, b
    <3>4. QED
      BY <3>2, <3>3
  <2>2. QED
    BY <2>1
<1> HIDE DEF N
<1>3. c \in [1 .. N -> Nat] /\ \A i \in 1 .. N : c[i] = GroupSlots(i)
  BY <1>2
<1> HIDE DEF c
<1>4. PICK f : IsSum(f, N, c)
  BY <1>1, <1>3, Sums
<1>5. \A j \in 1 .. N + 1 : Base(j) = f[j - 1]
  <2>1. ASSUME NEW j \in 1 .. N + 1
        PROVE  Base(j) = f[j - 1]
    <3>1. j - 1 \in 0 .. N
      BY <1>1
    <3>2. Sum([i \in 1 .. j - 1 |-> c[i]]) = f[j - 1]
      <4> DEFINE m == j - 1
      <4>1. m \in 0 .. N
        BY <3>1
      <4> HIDE DEF m
      <4>2. Sum([i \in 1 .. m |-> c[i]]) = f[m]
        BY <1>1, <1>3, <1>4, <4>1, SumIs
      <4>3. QED
        BY <4>2 DEF m
    <3>3. \A i \in 1 .. j - 1 : c[i] = GroupSlots(i)
      BY <1>1, <1>3, <3>1
    <3>4. [i \in 1 .. j - 1 |-> c[i]] = [i \in 1 .. j - 1 |-> GroupSlots(i)]
      BY <3>3
    <3>5. QED
      BY <3>2, <3>4, Zenon DEF Base
  <2>2. QED
    BY <2>1
<1>6. Cumulates(f, N, c)
  BY <1>1, <1>3, <1>4, SumsGrow
<1>7. XmssSlots = f[N]
  <2>1. N + 1 \in 1 .. N + 1 /\ (N + 1) - 1 = N
    BY <1>1
  <2>2. Base(N + 1) = f[N]
    BY <1>5, <2>1
  <2>3. QED
    BY <2>2 DEF XmssSlots, N
<1>8. \A l \in 0 .. N : f[l] \in Nat /\ \A k \in 0 .. l : f[k] <= f[l]
  BY <1>6 DEF Cumulates
<1>9. \A j \in 1 .. N : Base(j) = f[j - 1] /\ f[j] = f[j - 1] + GroupSlots(j) /\ f[j - 1] \in Nat /\ f[j] \in Nat
  <2>1. ASSUME NEW j \in 1 .. N
        PROVE  Base(j) = f[j - 1] /\ f[j] = f[j - 1] + GroupSlots(j) /\ f[j - 1] \in Nat /\ f[j] \in Nat
    <3>1. j \in 1 .. N + 1 /\ j - 1 \in 0 .. N /\ j \in 0 .. N
      BY <1>1
    <3>2. f[j] = f[j - 1] + c[j]
      BY <1>4 DEF IsSum
    <3>3. QED
      BY <1>3, <1>5, <1>8, <3>1, <3>2
  <2>2. QED
    BY <2>1
<1>10. \A j \in 1 .. N : f[j] <= f[N]
  <2>1. \A j \in 1 .. N : j \in 0 .. N /\ N \in 0 .. N
    BY <1>1
  <2>2. QED
    BY <1>8, <2>1
<1>11. \A j, k \in 1 .. N : j < k => f[j] <= f[k - 1]
  <2>1. ASSUME NEW j \in 1 .. N, NEW k \in 1 .. N, j < k
        PROVE  f[j] <= f[k - 1]
    <3>1. k - 1 \in 0 .. N /\ j \in 0 .. k - 1
      BY <1>1, <2>1
    <3>2. QED
      BY <1>8, <3>1
  <2>2. QED
    BY <2>1
<1>12. ASSUME NEW slot \in 0 .. XmssSlots - 1
       PROVE  \E j \in 1 .. N : slot \in Base(j) .. Base(j) + GroupSlots(j) - 1
  <2>1. f[N] \in Nat /\ N \in 0 .. N
    BY <1>1, <1>8
  <2>2. slot + 1 \in 1 .. f[N] /\ slot \in Int
    BY <1>7, <2>1
  <2>3. PICK k \in 1 .. N : \E i \in 1 .. c[k] : slot + 1 = f[k - 1] + i
    BY <1>6, <2>1, <2>2 DEF Cumulates
  <2>4. PICK i \in 1 .. c[k] : slot + 1 = f[k - 1] + i
    BY <2>3
  <2> DEFINE a == f[k - 1]
             b == c[k]
  <2>5. a \in Nat /\ b \in Nat /\ Base(k) = a /\ GroupSlots(k) = b /\ slot + 1 = a + i /\ i \in 1 .. b
    BY <1>3, <1>9, <2>3, <2>4
  <2> HIDE DEF a, b
  <2>6. slot \in a .. a + b - 1
    BY <2>2, <2>5
  <2>7. QED
    BY <2>5, <2>6
<1>13. SphincsSlots \in Nat /\ RootSlots \in Nat
  <2> DEFINE a == node.meta.sphincs
             b == node.meta.sphincsDups
             d == node.meta.roots
             e == node.meta.rootDups
  <2>1. a \in Nat /\ b \in Nat /\ d \in Nat /\ e \in Nat
    BY DEF MetaFits
  <2>2. SphincsSlots = a + b /\ RootSlots = d + e
    BY DEF SphincsSlots, RootSlots
  <2> HIDE DEF a, b, d, e
  <2>3. QED
    BY <2>1, <2>2
<1>14. XmssSlots \in Nat
  BY <1>1, <1>7, <1>8
<1>15. \A j \in 1 .. N : Base(j) \in Nat /\ GroupSlots(j) \in Nat /\ Base(j) + GroupSlots(j) <= XmssSlots
  <2>1. ASSUME NEW j \in 1 .. N
        PROVE  Base(j) \in Nat /\ Base(j) + GroupSlots(j) <= XmssSlots
    <3>1. Base(j) = f[j - 1] /\ f[j] = f[j - 1] + GroupSlots(j) /\ f[j - 1] \in Nat /\ f[j] <= f[N]
      BY <1>9, <1>10
    <3>2. QED
      BY <1>7, <3>1, Zenon
  <2>2. QED
    BY <1>2, <2>1
<1>16. \A j, k \in 1 .. N : j < k => Base(j) + GroupSlots(j) <= Base(k)
  <2>1. ASSUME NEW j \in 1 .. N, NEW k \in 1 .. N, j < k
        PROVE  Base(j) + GroupSlots(j) <= Base(k)
    <3>1. Base(j) = f[j - 1] /\ f[j] = f[j - 1] + GroupSlots(j) /\ Base(k) = f[k - 1] /\ f[j] <= f[k - 1]
      BY <1>9, <1>11, <2>1
    <3>2. QED
      BY <3>1, Zenon
  <2>2. QED
    BY <2>1
<1>17. QED
  BY <1>1, <1>12, <1>13, <1>14, <1>15, <1>16 DEF RegionsLie, DaBase, TotalSlots

-----------------------------------------------------------------------------
(***************************************************************************)
(* A step of the guest.                                                    *)
(***************************************************************************)

\* The run goes on, as n and with the hints that are left.
Became(n) ==
    /\ node'.todo = n.todo /\ node'.meta = n.meta /\ node'.groups = n.groups /\ node'.table = n.table
    /\ node'.sphincs = n.sphincs /\ node'.roots = n.roots /\ node'.cover = n.cover
    /\ node'.written = n.written /\ node'.child = n.child /\ node'.claims = n.claims

\* What every step that the guest goes on with keeps.
GoesOn == ProofsShow' /\ node'.at = "run" /\ DOMAIN node' = NodeFields /\ node'.honest \in BOOLEAN /\ HintsFit'

\* A run that a step is of.
Running == ProofsShow /\ node.at = "run" /\ DOMAIN node = NodeFields /\ node.honest \in BOOLEAN /\ HintsFit

\* The hints are taken in turn.
LEMMA StepGoesOn ==
    ASSUME Running, NEW n, DOMAIN n = NodeFields, n.at = "run", n.honest = node.honest, n.hints = node.hints,
           Continue(n), aggregates' = aggregates,
           node.honest /\ Task.do = "proof" => node.hints["proof"] # << >>
    PROVE  Became(n) /\ GoesOn
<1> DEFINE k == Task.do
           took == n.honest /\ k \in Streams
<1>1. node' = IF took THEN [n EXCEPT !.hints[k] = Tail(@)] ELSE n
  BY DEF Continue
<1> HIDE DEF k
<1>2. \A x \in NodeFields \ {"hints"} : node'[x] = n[x]
  BY <1>1
<1>3. DOMAIN node' = NodeFields
  BY <1>1
<1>4. node'.hints = IF took THEN [n.hints EXCEPT ![k] = Tail(@)] ELSE n.hints
  <2>1. "hints" \in DOMAIN n
    BY DEF NodeFields
  <2>2. QED
    BY <1>1, <2>1
<1>5. Became(n)
  <2>1. {"todo", "meta", "groups", "table", "sphincs", "roots", "cover", "written", "child", "claims"}
          \subseteq NodeFields \ {"hints"}
    BY DEF NodeFields
  <2>2. QED
    BY <1>2, <2>1 DEF Became
<1>6. node'.at = "run" /\ node'.honest = node.honest
  <2>1. {"at", "honest"} \subseteq NodeFields \ {"hints"}
    BY DEF NodeFields
  <2>2. QED
    BY <1>2, <2>1
<1>7. ProofsShow'
  BY DEF Running, ProofsShow
<1>8. HintsFit'
  <2> DEFINE p == node.hints["proof"]
             q == node'.hints["proof"]
  <2>1. SUFFICES ASSUME node.honest
                 PROVE  /\ "proof" \in DOMAIN node'.hints /\ Listing(q)
                        /\ \A i \in DOMAIN q : \E a \in aggregates : q[i] = a.proof
    BY <1>6 DEF HintsFit
  <2>2. /\ "proof" \in DOMAIN node.hints /\ Listing(p)
        /\ \A i \in DOMAIN p : \E a \in aggregates : p[i] = a.proof
    BY <2>1 DEF Running, HintsFit
  <2>3. "proof" \in DOMAIN node'.hints
    BY <1>4, <2>2
  <2>4. CASE k = "proof"
    <3>1. q = Tail(p)
      <4>1. took
        BY <2>1, <2>4 DEF Streams
      <4>2. QED
        BY <1>4, <2>2, <2>4, <4>1
    <3>2. p # << >>
      BY <2>1, <2>4 DEF k
    <3>3. Len(p) > 0
      <4> HIDE DEF p, q
      <4>1. Len(p) \in Nat /\ p = [i \in 1 .. Len(p) |-> p[i]]
        BY <2>2, ListingHas
      <4>2. Len(p) # 0
        BY <3>2, <4>1
      <4>3. QED
        BY <4>1, <4>2
    <3> HIDE DEF p, q
    <3>4. Follows(q, p)
      BY <2>2, <3>1, <3>3, ListingTail
    <3>5. DOMAIN p = 1 .. Len(p) /\ Len(p) \in Nat
      BY <2>2, ListingHas
    <3>6. \A i \in DOMAIN q : i + 1 \in DOMAIN p /\ q[i] = p[i + 1]
      <4>1. DOMAIN q = 1 .. Len(q) /\ Len(q) = Len(p) - 1 /\ \A i \in 1 .. Len(q) : q[i] = p[i + 1]
        BY <3>4 DEF Follows
      <4> DEFINE m == Len(p)
      <4> HIDE DEF m
      <4>2. DOMAIN q = 1 .. m - 1 /\ DOMAIN p = 1 .. m /\ m \in Nat
        BY <3>5, <4>1 DEF m
      <4>3. \A i \in DOMAIN q : i + 1 \in DOMAIN p
        BY <4>2
      <4>4. QED
        BY <4>1, <4>3
    <3>7. Listing(q)
      BY <3>4 DEF Follows
    <3>8. \A i \in DOMAIN q : \E a \in aggregates : q[i] = a.proof
      BY <2>2, <3>6
    <3>9. QED
      BY <2>3, <3>7, <3>8
  <2>5. CASE k # "proof"
    <3>1. q = p
      BY <1>4, <2>2, <2>5
    <3>2. QED
      BY <2>2, <2>3, <3>1
  <2>6. QED
    BY <2>4, <2>5
<1>9. QED
  BY <1>3, <1>5, <1>6, <1>7, <1>8 DEF GoesOn, Running

\* A run that is given up proves nothing.
LEMMA FaultKeeps ==
    ASSUME AggregationInv, Fault, aggregates' = aggregates
    PROVE  AggregationInv'
<1>1. node' = NoRun
  BY DEF Fault
<1>2. ProofsShow'
  BY DEF AggregationInv, ProofsShow
<1>3. QED
  BY <1>1, <1>2 DEF AggregationInv, NodeOk

\* The task of a run is the first of those left.
LEMMA WhenRunning ==
    ASSUME AggregationInv, node.at = "run"
    PROVE  /\ Running
           /\ \/ SettingUp /\ Task.do \in {"meta", "group", "geometry"}
              \/ Working /\ Task.do \notin {"meta", "group", "geometry"}
           /\ Task = node.todo[1]
<1>1. node # NoRun
  <2>1. NoRun.at # "run"
    BY DEF NoRun
  <2>2. QED
    BY <2>1
<1>2. Running /\ (SettingUp \/ Working)
  BY <1>1 DEF AggregationInv, NodeOk, Running
<1>3. Task = node.todo[1]
  BY DEF Task
<1>4. CASE SettingUp
  <2>1. node.todo[1].do \in {"meta", "group", "geometry"}
    <3>1. CASE node.todo = <<[do |-> "meta"]>>
      BY <3>1
    <3>2. CASE node.todo # <<[do |-> "meta"]>>
      <4>1. /\ Listing(node.todo) /\ Len(node.todo) > 0
            /\ \A i \in 1 .. Len(node.todo) : node.todo[i] = [do |-> IF i < Len(node.todo) THEN "group" ELSE "geometry"]
        BY <1>4, <3>2 DEF SettingUp
      <4>2. 1 \in 1 .. Len(node.todo)
        <5>1. Len(node.todo) \in Nat
          BY <4>1, ListingHas
        <5>2. QED
          BY <4>1, <5>1
      <4>3. node.todo[1] = [do |-> IF 1 < Len(node.todo) THEN "group" ELSE "geometry"]
        BY <4>1, <4>2
      <4>4. QED
        BY <4>3
    <3>3. QED
      BY <3>1, <3>2
  <2>2. QED
    BY <1>2, <1>3, <1>4, <2>1
<1>5. CASE Working
  <2> DEFINE T == TaskSet(Len(node.groups))
  <2>1. node.todo \in Seq(T) /\ Len(node.todo) > 0
    BY <1>5 DEF Working, Todo
  <2>2. node.todo[1] \in T
    <3> HIDE DEF T
    <3>1. QED
      BY <2>1
  <2>3. node.todo[1].do \notin {"meta", "group", "geometry"}
    BY <2>2 DEF TaskSet, Subtasks
  <2>4. QED
    BY <1>2, <1>3, <1>5, <2>3
<1>6. QED
  BY <1>2, <1>4, <1>5

-----------------------------------------------------------------------------
(* The counts. *)

\* t is one task k times, and then another.
ManyAndOne(t, k, a, b) ==
    Listing(t) /\ Len(t) = k + 1 /\ \A i \in 1 .. k + 1 : t[i] = IF i < k + 1 THEN a ELSE b

\* So it can be put together.
LEMMA ManyThenOne ==
    ASSUME NEW k \in Nat, NEW a, NEW b, NEW c
    PROVE  ManyAndOne((Times(k, a) \o <<b>>) \o Tail(<<c>>), k, a, b)
<1> DEFINE D == {a, b, c}
           u == Times(k, a)
           v == <<b>>
           w == Tail(<<c>>)
<1>1. u \in Seq(D) /\ Len(u) = k /\ \A i \in 1 .. k : u[i] = a
  <2>1. a \in D
    OBVIOUS
  <2> HIDE DEF D
  <2>2. QED
    BY <2>1 DEF Times
<1>2. v \in Seq(D) /\ Len(v) = 1 /\ v[1] = b
  <2>1. b \in D
    OBVIOUS
  <2> HIDE DEF D
  <2>2. QED
    BY <2>1
<1>3. w = << >>
  OBVIOUS
<1> HIDE DEF D, u, v, w
<1>4. (u \o v) \in Seq(D) /\ (u \o v) \o w = u \o v
  BY <1>1, <1>2, <1>3
<1> DEFINE t == u \o v
<1>5. Precedes(t, u, v)
  BY <1>1, <1>2, ListingIs, ListingConcat
<1>6. Listing(t) /\ Len(t) = k + 1 /\ (\A i \in 1 .. k : t[i] = a) /\ t[k + 1] = b
  BY <1>1, <1>2, <1>5 DEF Precedes
<1>7. \A i \in 1 .. k + 1 : t[i] = IF i < k + 1 THEN a ELSE b
  BY <1>6
<1>8. ManyAndOne(t, k, a, b)
  BY <1>6, <1>7 DEF ManyAndOne
<1>9. QED
  BY <1>4, <1>8 DEF u, v, w

\* The first counts say how many groups there are.
LEMMA MetaKeeps ==
    ASSUME AggregationAssumption, AggregationInv, Meta
    PROVE  AggregationInv'
<1>1. node.at = "run" /\ Task.do = "meta" /\ aggregates' = aggregates
  BY DEF Meta, Take, Doing
<1>2. Running /\ SettingUp /\ Task = node.todo[1]
  BY <1>1, WhenRunning
<1>3. node.todo = <<[do |-> "meta"]>> /\ node.groups = << >>
  <2>1. CASE node.todo = <<[do |-> "meta"]>> /\ node.groups = << >>
    BY <2>1
  <2>2. CASE /\ Listing(node.todo) /\ Len(node.todo) > 0
             /\ \A i \in 1 .. Len(node.todo) : node.todo[i] = [do |-> IF i < Len(node.todo) THEN "group" ELSE "geometry"]
    <3>1. 1 \in 1 .. Len(node.todo)
      <4>1. Len(node.todo) \in Nat
        BY <2>2, ListingHas
      <4>2. QED
        BY <2>2, <4>1
    <3>2. node.todo[1].do # "meta"
      <4>1. node.todo[1] = [do |-> IF 1 < Len(node.todo) THEN "group" ELSE "geometry"]
        BY <2>2, <3>1
      <4>2. QED
        BY <4>1
    <3>3. QED
      BY <1>1, <1>2, <3>2
  <2>3. QED
    BY <1>2, <2>1, <2>2 DEF SettingUp
<1>4. PICK m \in Entries("meta") :
        IF /\ {m.declared, m.dropped, m.declared + m.dropped} \subseteq 0..MaxEpochs
           /\ {m.sphincs, m.sphincsDups, m.rawSphincs} \subseteq 0..MaxKeys - 1
           /\ m.children \in 0..MaxRecursions /\ m.direct \in 0..1 /\ m.roots \in 0..MaxDaRoots
           /\ {m.rootDups, m.roots + m.rootDups} \subseteq 0..MaxRecursions * MaxDaRoots + 1
        THEN Continue(Then([node EXCEPT !.meta = m],
                           Times(m.declared + m.dropped, [do |-> "group"]) \o <<[do |-> "geometry"]>>))
        ELSE Fault
  BY DEF Meta, Take
<1>5. CASE Fault
  BY <1>1, <1>5, FaultKeeps
<1>6. CASE ~Fault
  <2> DEFINE k == m.declared + m.dropped
             n == Then([node EXCEPT !.meta = m], Times(k, [do |-> "group"]) \o <<[do |-> "geometry"]>>)
  <2>1. Continue(n) /\ k \in Nat
        /\ {m.declared, m.dropped, m.sphincs, m.sphincsDups, m.rawSphincs, m.roots, m.rootDups, m.direct,
            m.children} \subseteq Nat
    BY <1>4, <1>6
  <2>2. DOMAIN n = NodeFields /\ n.at = "run" /\ n.honest = node.honest /\ n.hints = node.hints /\ n.meta = m
        /\ n.groups = << >> /\ n.table = node.table /\ n.sphincs = node.sphincs /\ n.roots = node.roots
        /\ n.cover = node.cover /\ n.written = node.written /\ n.claims = node.claims
        /\ n.todo = (Times(k, [do |-> "group"]) \o <<[do |-> "geometry"]>>) \o Tail(<<[do |-> "meta"]>>)
    BY <1>2, <1>3 DEF Then, Running, NodeFields
  <2> HIDE DEF n, k
  <2>3. Became(n) /\ GoesOn
    <3>1. Task.do # "proof"
      BY <1>1
    <3>2. n.at = "run" /\ n.honest = node.honest /\ n.hints = node.hints /\ DOMAIN n = NodeFields
      BY <2>2
    <3>3. QED
      BY <1>1, <1>2, <2>1, <3>1, <3>2, StepGoesOn
  <2>4. Listing(n.todo) /\ Len(n.todo) = k + 1
        /\ \A i \in 1 .. k + 1 : n.todo[i] = IF i < k + 1 THEN [do |-> "group"] ELSE [do |-> "geometry"]
    <3> DEFINE a == [do |-> "group"]
               b == [do |-> "geometry"]
               c == [do |-> "meta"]
    <3>1. n.todo = (Times(k, a) \o <<b>>) \o Tail(<<c>>)
      BY <2>2
    <3> HIDE DEF a, b, c
    <3>2. ManyAndOne(n.todo, k, a, b)
      BY <2>1, <3>1, ManyThenOne
    <3>3. QED
      BY <3>2 DEF ManyAndOne, a, b
  <2>5. /\ node'.cover = {} /\ node'.written = 0 /\ node'.table = << >> /\ node'.sphincs = << >>
        /\ node'.roots = << >> /\ node'.claims = << >> /\ node'.meta = m /\ node'.groups = << >>
        /\ node'.todo = n.todo
    BY <1>2, <2>2, <2>3 DEF Became, SettingUp
  <2>6. MetaFits'
    BY <2>1, <2>5 DEF MetaFits
  <2>7. GroupsFit'
    <3>1. GroupsFit
      BY <1>2 DEF SettingUp
    <3>2. QED
      BY <1>3, <2>5, <3>1 DEF GroupsFit
  <2>8. Len(node'.groups) + Len(node'.todo) - 1 = node'.meta.declared + node'.meta.dropped
    <3>1. Len(node'.groups) = 0 /\ Len(node'.todo) = k + 1 /\ node'.meta.declared + node'.meta.dropped = k
      BY <2>4, <2>5 DEF k
    <3>2. QED
      BY <2>1, <3>1
  <2>9. \A i \in 1 .. k + 1 : node'.todo[i] = [do |-> IF i < k + 1 THEN "group" ELSE "geometry"]
    BY <2>4, <2>5
  <2>10. Len(node'.todo) > 0 /\ Len(node'.todo) = k + 1 /\ Listing(node'.todo)
    BY <2>1, <2>4, <2>5
  <2>11. SettingUp'
    BY <2>5, <2>6, <2>7, <2>8, <2>9, <2>10 DEF SettingUp
  <2>12. QED
    BY <2>3, <2>11 DEF GoesOn, AggregationInv, NodeOk
<1>7. QED
  BY <1>5, <1>6

\* While there is more to set up, it is the groups and then the geometry.
LEMMA SettingUpTodo ==
    ASSUME AggregationInv, node.at = "run", Task.do \in {"group", "geometry"}
    PROVE  /\ Running /\ SettingUp /\ MetaFits /\ Listing(node.todo) /\ Len(node.todo) > 0 /\ Len(node.todo) \in Nat
           /\ \A i \in 1 .. Len(node.todo) : node.todo[i] = [do |-> IF i < Len(node.todo) THEN "group" ELSE "geometry"]
           /\ Len(node.groups) + Len(node.todo) - 1 = node.meta.declared + node.meta.dropped
           /\ (Task.do = "group") = (Len(node.todo) > 1)
           /\ Listing(node.groups) /\ Len(node.groups) \in Nat
<1>1. Running /\ SettingUp /\ Task = node.todo[1]
  BY WhenRunning
<1>2. node.todo # <<[do |-> "meta"]>>
  <2>1. <<[do |-> "meta"]>>[1].do = "meta"
    OBVIOUS
  <2>2. QED
    BY <1>1, <2>1
<1>3. /\ MetaFits /\ Listing(node.todo) /\ Len(node.todo) > 0
      /\ \A i \in 1 .. Len(node.todo) : node.todo[i] = [do |-> IF i < Len(node.todo) THEN "group" ELSE "geometry"]
      /\ Len(node.groups) + Len(node.todo) - 1 = node.meta.declared + node.meta.dropped
  BY <1>1, <1>2 DEF SettingUp
<1>4. Len(node.todo) \in Nat /\ Listing(node.groups) /\ Len(node.groups) \in Nat
  BY <1>1, <1>3, ListingHas DEF SettingUp, GroupsFit
<1>5. 1 \in 1 .. Len(node.todo)
  BY <1>3, <1>4
<1>6. Task.do = IF 1 < Len(node.todo) THEN "group" ELSE "geometry"
  <2>1. node.todo[1] = [do |-> IF 1 < Len(node.todo) THEN "group" ELSE "geometry"]
    BY <1>3, <1>5
  <2>2. QED
    BY <1>1, <2>1
<1>7. (Task.do = "group") = (Len(node.todo) > 1)
  BY <1>4, <1>6
<1>8. QED
  BY <1>1, <1>3, <1>4, <1>7

\* A group is one of those said.
LEMMA GroupKeeps ==
    ASSUME AggregationAssumption, AggregationInv, Group
    PROVE  AggregationInv'
<1>1. node.at = "run" /\ Task.do = "group" /\ aggregates' = aggregates
  BY DEF Group, Take, Doing
<1> DEFINE s == node.todo
           t == Tail(s)
<1>2. /\ Running /\ SettingUp /\ MetaFits /\ Listing(s) /\ Len(s) > 1 /\ Len(s) \in Nat
      /\ \A i \in 1 .. Len(s) : s[i] = [do |-> IF i < Len(s) THEN "group" ELSE "geometry"]
      /\ Len(node.groups) + Len(s) - 1 = node.meta.declared + node.meta.dropped
      /\ Listing(node.groups) /\ Len(node.groups) \in Nat
  BY <1>1, SettingUpTodo
<1>3. PICK g \in Entries("group") :
        IF {g.n, g.dups, g.raw} \subseteq 0..MaxKeys - 1
        THEN Continue(Then([node EXCEPT !.groups = Append(@, g)], << >>)) ELSE Fault
  BY DEF Group, Take
<1>4. CASE Fault
  BY <1>1, <1>4, FaultKeeps
<1>5. CASE ~Fault
  <2> DEFINE n == Then([node EXCEPT !.groups = Append(@, g)], << >>)
             a == Append(node.groups, g)
  <2>1. Continue(n) /\ {g.n, g.dups, g.raw} \subseteq Nat
    BY <1>3, <1>5
  <2>2. DOMAIN n = NodeFields /\ n.at = "run" /\ n.honest = node.honest /\ n.hints = node.hints /\ n.meta = node.meta
        /\ n.groups = a /\ n.table = node.table /\ n.sphincs = node.sphincs /\ n.roots = node.roots
        /\ n.cover = node.cover /\ n.written = node.written /\ n.claims = node.claims
        /\ n.todo = << >> \o t
    BY <1>2 DEF Then, Running, NodeFields
  <2>3. Follows(t, s)
    <3>1. Len(s) > 0
      BY <1>2
    <3>2. QED
      BY <1>2, <3>1, ListingTail
  <2>4. n.todo = t
    <3> DEFINE D == {t[i] : i \in DOMAIN t}
    <3>1. t \in Seq(D)
      BY <2>3 DEF Follows, Listing
    <3> HIDE DEF t, D
    <3>2. << >> \o t = t
      BY <3>1
    <3>3. QED
      BY <2>2, <3>2
  <2> HIDE DEF n, t
  <2>5. Became(n) /\ GoesOn
    <3>1. Task.do # "proof"
      BY <1>1
    <3>2. n.at = "run" /\ n.honest = node.honest /\ n.hints = node.hints /\ DOMAIN n = NodeFields
      BY <2>2
    <3>3. QED
      BY <1>1, <1>2, <2>1, <3>1, <3>2, StepGoesOn
  <2>6. /\ node'.cover = {} /\ node'.written = 0 /\ node'.table = << >> /\ node'.sphincs = << >>
        /\ node'.roots = << >> /\ node'.claims = << >> /\ node'.meta = node.meta /\ node'.groups = a
        /\ node'.todo = t
    BY <1>2, <2>2, <2>4, <2>5 DEF Became, SettingUp
  <2>7. Extends(a, node.groups, g)
    BY <1>2, ListingAppend
  <2> HIDE DEF a
  <2>8. MetaFits'
    BY <1>2, <2>6 DEF MetaFits
  <2>9. GroupsFit'
    <3>1. ASSUME NEW j \in DOMAIN a
          PROVE  {a[j].n, a[j].dups, a[j].raw} \subseteq Nat
      <4>1. DOMAIN a = 1 .. Len(node.groups) + 1 /\ Len(a) = Len(node.groups) + 1 /\ a[Len(a)] = g
            /\ \A i \in 1 .. Len(node.groups) : a[i] = node.groups[i]
        BY <2>7 DEF Extends
      <4>2. CASE j = Len(a)
        BY <2>1, <4>1, <4>2
      <4>3. CASE j # Len(a)
        <5>1. j \in 1 .. Len(node.groups) /\ j \in DOMAIN node.groups
          <6>1. j \in 1 .. Len(node.groups)
            BY <1>2, <4>1, <4>3
          <6>2. DOMAIN node.groups = 1 .. Len(node.groups)
            BY <1>2, ListingHas
          <6>3. QED
            BY <6>1, <6>2
        <5>2. {node.groups[j].n, node.groups[j].dups, node.groups[j].raw} \subseteq Nat
          BY <1>2, <5>1 DEF SettingUp, GroupsFit
        <5>3. QED
          BY <4>1, <5>1, <5>2
      <4>4. QED
        BY <4>2, <4>3
    <3>2. Listing(a)
      BY <2>7 DEF Extends
    <3>3. QED
      BY <2>6, <3>1, <3>2 DEF GroupsFit
  <2> DEFINE p == Len(s)
             q == Len(t)
  <2>10. q = p - 1 /\ p \in Nat /\ p > 1 /\ Listing(t) /\ (\A i \in 1 .. q : t[i] = s[i + 1])
         /\ \A i \in 1 .. p : s[i] = [do |-> IF i < p THEN "group" ELSE "geometry"]
    BY <1>2, <2>3 DEF Follows
  <2>11. Len(a) = Len(node.groups) + 1
    BY <2>7 DEF Extends
  <2> HIDE DEF p, q, s
  <2>12. \A i \in 1 .. q : t[i] = [do |-> IF i < q THEN "group" ELSE "geometry"]
    <3>1. ASSUME NEW i \in 1 .. q
          PROVE  t[i] = [do |-> IF i < q THEN "group" ELSE "geometry"]
      <4>1. i + 1 \in 1 .. p /\ (i + 1 < p) = (i < q)
        BY <2>10
      <4>2. QED
        BY <2>10, <4>1
    <3>2. QED
      BY <3>1
  <2>13. Len(a) + q - 1 = node.meta.declared + node.meta.dropped
    <3> DEFINE b == Len(node.groups)
               e == node.meta.declared + node.meta.dropped
    <3>1. b \in Nat /\ b + p - 1 = e
      BY <1>2 DEF p
    <3>2. Len(a) = b + 1
      BY <2>11
    <3> HIDE DEF b, e
    <3>3. Len(a) + q - 1 = e
      BY <2>10, <3>1, <3>2
    <3>4. QED
      BY <3>3 DEF e
  <2>14. Len(t) > 0 /\ Len(t) = q
    BY <2>10 DEF q
  <2>15. SettingUp'
    BY <2>6, <2>8, <2>9, <2>10, <2>12, <2>13, <2>14 DEF SettingUp
  <2>16. QED
    BY <2>5, <2>15 DEF GoesOn, AggregationInv, NodeOk
<1>6. QED
  BY <1>4, <1>5

\* Tasks group by group.
GroupTasks(task, count) ==
    FlattenSeq([j \in DOMAIN node.groups |-> [i \in 1 .. count[j] |-> [do |-> task, group |-> j]]])

\* They are a piece of what is to be done.
LEMMA PieceGroups ==
    ASSUME GroupsFit, NEW kids, NEW task \in {"pubkeys", "dup_pubkeys", "raw_index"},
           NEW count \in [DOMAIN node.groups -> Nat]
    PROVE  Piece(GroupTasks(task, count), IF task = "raw_index" THEN 4 ELSE 1, Len(node.groups), kids)
<1> DEFINE N == Len(node.groups)
           S == {[do |-> task, group |-> j] : j \in 1 .. N}
           seqs == [j \in 1 .. N |-> [i \in 1 .. count[j] |-> [do |-> task, group |-> j]]]
           p == FlattenSeq(seqs)
<1>1. N \in Nat /\ DOMAIN node.groups = 1 .. N
  BY ListingHas DEF GroupsFit
<1> HIDE DEF N
<1>2. seqs \in [1 .. N -> Seq(S)]
  <2>1. ASSUME NEW j \in 1 .. N
        PROVE  [i \in 1 .. count[j] |-> [do |-> task, group |-> j]] \in Seq(S)
    <3>1. count[j] \in Nat /\ [do |-> task, group |-> j] \in S
      BY <1>1
    <3> DEFINE x == [do |-> task, group |-> j]
    <3>2. x \in S
      BY <3>1
    <3> HIDE DEF x, S
    <3>3. [i \in 1 .. count[j] |-> x] \in Seq(S)
      BY <3>1, <3>2
    <3>4. QED
      BY <3>3 DEF x
  <2> HIDE DEF S
  <2>2. QED
    BY <2>1
<1>3. p \in Seq(S)
  <2> HIDE DEF S, seqs
  <2>1. QED
    BY <1>1, <1>2, FlatIn
<1>4. p = GroupTasks(task, count)
  BY <1>1, Zenon DEF GroupTasks
<1>5. \A x \in S : x.do = task /\ x \in TaskSet(N)
  <2>1. ASSUME NEW j \in 1 .. N
        PROVE  [do |-> task, group |-> j] \in TaskSet(N)
    <3>1. <<task, j>> \in {"pubkeys", "dup_pubkeys", "raw_index", "child_index"} \X (1 .. N)
      OBVIOUS
    <3>2. <<task, j>>[1] = task /\ <<task, j>>[2] = j
      OBVIOUS
    <3>3. [do |-> task, group |-> j] \in
            {[do |-> t[1], group |-> t[2]] : t \in {"pubkeys", "dup_pubkeys", "raw_index", "child_index"} \X (1 .. N)}
      BY <3>1, <3>2, Zenon
    <3>4. QED
      BY <3>3 DEF TaskSet
  <2>2. QED
    BY <2>1
<1> HIDE DEF S, p
<1>6. Len(p) \in Nat /\ \A i \in 1 .. Len(p) : p[i] \in S
  BY <1>3
<1>7. p \in Seq(TaskSet(N))
  <2>1. S \subseteq TaskSet(N)
    BY <1>5
  <2>2. QED
    BY <1>3, <2>1, SeqMonotonic
<1>8. \A x : x.do = task => Stage(x) = IF task = "raw_index" THEN 4 ELSE 1
  BY DEF Stage, Writes, Subtasks
<1>9. Piece(p, IF task = "raw_index" THEN 4 ELSE 1, N, kids)
  <2>1. ASSUME NEW i \in 1 .. Len(p)
        PROVE  /\ Stage(p[i]) = IF task = "raw_index" THEN 4 ELSE 1
               /\ p[i].do \notin {"proof", "publish"} /\ (p[i].do = "child_meta" => kids)
    BY <1>5, <1>6, <1>8
  <2>2. QED
    BY <1>7, <2>1 DEF Piece
<1>10. QED
  BY <1>4, <1>9 DEF N

\* What is left when the counts are known is in order.
LEMMA RestIs ==
    ASSUME MetaFits, GroupsFit
    PROVE  \E u : Pieces(u, {1, 4}, Len(node.groups), node.meta.children # 0) /\ Rest = u \o <<[do |-> "publish"]>>
<1> DEFINE N == Len(node.groups)
           kids == node.meta.children # 0
           m == node.meta
           Own(j) == IF j \in 1 .. m.declared THEN node.groups[j].n ELSE 0
           c2 == [j \in DOMAIN node.groups |-> Own(j)]
           c3 == [j \in DOMAIN node.groups |-> GroupSlots(j) - Own(j)]
           c6 == [j \in DOMAIN node.groups |-> node.groups[j].raw]
           p1 == Times(RootSlots, [do |-> "da_roots"])
           p2 == GroupTasks("pubkeys", c2)
           p3 == GroupTasks("dup_pubkeys", c3)
           p4 == Times(m.sphincs, [do |-> "sphincs_signers"])
           p5 == Times(m.sphincsDups, [do |-> "dup_sphincs"])
           p6 == GroupTasks("raw_index", c6)
           p7 == Times(m.rawSphincs, [do |-> "sp_raw_index"])
           p8 == Times(m.direct, [do |-> "da_index", direct |-> TRUE])
           p9 == Times(m.children, [do |-> "child_meta"])
           u == p1 \o p2 \o p3 \o p4 \o p5 \o p6 \o p7 \o p8 \o p9
<1>1. Rest = u \o <<[do |-> "publish"]>>
  <2>1. p2 = FlattenSeq([j \in DOMAIN node.groups |-> [i \in 1 .. Own(j) |-> [do |-> "pubkeys", group |-> j]]])
    <3>1. \A j \in DOMAIN node.groups : c2[j] = Own(j)
      OBVIOUS
    <3>2. [j \in DOMAIN node.groups |-> [i \in 1 .. c2[j] |-> [do |-> "pubkeys", group |-> j]]]
            = [j \in DOMAIN node.groups |-> [i \in 1 .. Own(j) |-> [do |-> "pubkeys", group |-> j]]]
      BY <3>1
    <3>3. QED
      BY <3>2, Zenon DEF GroupTasks
  <2>2. p3 = FlattenSeq([j \in DOMAIN node.groups |-> [i \in 1 .. GroupSlots(j) - Own(j) |->
                           [do |-> "dup_pubkeys", group |-> j]]])
    <3>1. \A j \in DOMAIN node.groups : c3[j] = GroupSlots(j) - Own(j)
      OBVIOUS
    <3>2. [j \in DOMAIN node.groups |-> [i \in 1 .. c3[j] |-> [do |-> "dup_pubkeys", group |-> j]]]
            = [j \in DOMAIN node.groups |-> [i \in 1 .. GroupSlots(j) - Own(j) |-> [do |-> "dup_pubkeys", group |-> j]]]
      BY <3>1
    <3>3. QED
      BY <3>2, Zenon DEF GroupTasks
  <2>3. p6 = FlattenSeq([j \in DOMAIN node.groups |-> [i \in 1 .. node.groups[j].raw |->
                           [do |-> "raw_index", group |-> j]]])
    <3>1. \A j \in DOMAIN node.groups : c6[j] = node.groups[j].raw
      OBVIOUS
    <3>2. [j \in DOMAIN node.groups |-> [i \in 1 .. c6[j] |-> [do |-> "raw_index", group |-> j]]]
            = [j \in DOMAIN node.groups |-> [i \in 1 .. node.groups[j].raw |-> [do |-> "raw_index", group |-> j]]]
      BY <3>1
    <3>3. QED
      BY <3>2, Zenon DEF GroupTasks
  <2> HIDE DEF p2, p3, p6
  <2>4. QED
    BY <2>1, <2>2, <2>3 DEF Rest
<1>2. m.declared \in Nat /\ m.sphincs \in Nat /\ m.sphincsDups \in Nat /\ m.rawSphincs \in Nat /\ m.direct \in Nat
      /\ m.children \in Nat /\ m.roots \in Nat /\ m.rootDups \in Nat
  BY DEF MetaFits
<1>3. \A j \in DOMAIN node.groups : node.groups[j].n \in Nat /\ node.groups[j].dups \in Nat /\ node.groups[j].raw \in Nat
  BY DEF GroupsFit
<1>4. \A j \in DOMAIN node.groups : Own(j) \in Nat /\ GroupSlots(j) - Own(j) \in Nat
  <2>1. ASSUME NEW j \in DOMAIN node.groups
        PROVE  Own(j) \in Nat /\ GroupSlots(j) - Own(j) \in Nat
    <3> DEFINE a == node.groups[j].n
               b == node.groups[j].dups
               o == Own(j)
    <3>1. a \in Nat /\ b \in Nat /\ GroupSlots(j) = a + b /\ (o = a \/ o = 0)
      BY <1>3 DEF GroupSlots
    <3> HIDE DEF a, b, o
    <3>2. o \in Nat /\ GroupSlots(j) - o \in Nat
      BY <3>1
    <3>3. QED
      BY <3>2 DEF o
  <2>2. QED
    BY <2>1
<1>5. c2 \in [DOMAIN node.groups -> Nat] /\ c3 \in [DOMAIN node.groups -> Nat] /\ c6 \in [DOMAIN node.groups -> Nat]
  BY <1>3, <1>4
<1> HIDE DEF c2, c3, c6
<1>6. Piece(p2, 1, N, kids) /\ Piece(p3, 1, N, kids) /\ Piece(p6, 4, N, kids)
  <2>1. Piece(p2, IF "pubkeys" = "raw_index" THEN 4 ELSE 1, N, kids)
    BY <1>5, PieceGroups
  <2>2. Piece(p3, IF "dup_pubkeys" = "raw_index" THEN 4 ELSE 1, N, kids)
    BY <1>5, PieceGroups
  <2>3. Piece(p6, IF "raw_index" = "raw_index" THEN 4 ELSE 1, N, kids)
    BY <1>5, PieceGroups
  <2> HIDE DEF p2, p3, p6, N, kids
  <2>4. QED
    BY <2>1, <2>2, <2>3
<1>7. \A d \in {"da_roots", "sphincs_signers", "dup_sphincs", "sp_raw_index", "child_meta"} :
        [do |-> d] \in TaskSet(N) /\ Stage([do |-> d]) = IF d \in {"sp_raw_index", "child_meta"} THEN 4 ELSE 1
  BY DEF TaskSet, Stage, Writes, Subtasks
<1>8. [do |-> "da_index", direct |-> TRUE] \in TaskSet(N) /\ Stage([do |-> "da_index", direct |-> TRUE]) = 4
  BY DEF TaskSet, Stage, Writes, Subtasks
<1>9. RootSlots \in Nat
  <2> DEFINE a == m.roots
             b == m.rootDups
  <2>1. a \in Nat /\ b \in Nat /\ RootSlots = a + b
    BY <1>2 DEF RootSlots
  <2> HIDE DEF a, b
  <2>2. QED
    BY <2>1
<1>10. Piece(p1, 1, N, kids) /\ Piece(p4, 1, N, kids) /\ Piece(p5, 1, N, kids)
  <2> DEFINE x1 == [do |-> "da_roots"]
             x4 == [do |-> "sphincs_signers"]
             x5 == [do |-> "dup_sphincs"]
  <2>1. x1 \in TaskSet(N) /\ Stage(x1) = 1 /\ x1.do \notin {"proof", "publish", "child_meta"}
    BY <1>7
  <2>2. x4 \in TaskSet(N) /\ Stage(x4) = 1 /\ x4.do \notin {"proof", "publish", "child_meta"}
    BY <1>7
  <2>3. x5 \in TaskSet(N) /\ Stage(x5) = 1 /\ x5.do \notin {"proof", "publish", "child_meta"}
    BY <1>7
  <2> HIDE DEF x1, x4, x5, N, kids
  <2>4. Piece(Times(RootSlots, x1), 1, N, kids)
    BY <1>9, <2>1, PieceTimes
  <2>5. Piece(Times(m.sphincs, x4), 1, N, kids)
    BY <1>2, <2>2, PieceTimes
  <2>6. Piece(Times(m.sphincsDups, x5), 1, N, kids)
    BY <1>2, <2>3, PieceTimes
  <2>7. QED
    BY <2>4, <2>5, <2>6 DEF x1, x4, x5
<1>11. Piece(p7, 4, N, kids) /\ Piece(p8, 4, N, kids) /\ Piece(p9, 4, N, kids)
  <2> DEFINE x7 == [do |-> "sp_raw_index"]
             x8 == [do |-> "da_index", direct |-> TRUE]
             x9 == [do |-> "child_meta"]
  <2>1. x7 \in TaskSet(N) /\ Stage(x7) = 4 /\ x7.do \notin {"proof", "publish", "child_meta"}
    BY <1>7
  <2>2. x8 \in TaskSet(N) /\ Stage(x8) = 4 /\ x8.do \notin {"proof", "publish", "child_meta"}
    BY <1>8
  <2>3. x9 \in TaskSet(N) /\ Stage(x9) = 4 /\ x9.do \notin {"proof", "publish"}
    BY <1>7
  <2>4. m.children # 0 => kids
    OBVIOUS
  <2> HIDE DEF x7, x8, x9, N, kids
  <2>5. Piece(Times(m.rawSphincs, x7), 4, N, kids)
    BY <1>2, <2>1, PieceTimes
  <2>6. Piece(Times(m.direct, x8), 4, N, kids)
    BY <1>2, <2>2, PieceTimes
  <2>7. Piece(Times(m.children, x9), 4, N, kids)
    BY <1>2, <2>3, <2>4, PieceTimes
  <2>8. QED
    BY <2>5, <2>6, <2>7 DEF x7, x8, x9
<1>12. Pieces(u, {1, 4}, N, kids)
  <2> HIDE DEF p1, p2, p3, p4, p5, p6, p7, p8, p9, N, kids
  <2> DEFINE P(s) == Pieces(s, {1}, N, kids)
             Q(s) == Pieces(s, {1, 4}, N, kids)
  <2>1. P(p1)
    BY <1>10, PiecesFirst
  <2>2. ASSUME NEW s, P(s), NEW p, Piece(p, 1, N, kids)
        PROVE  P(s \o p)
    <3>1. Pieces(s \o p, {1} \cup {1}, N, kids)
      <4>1. {1} \in SUBSET {1, 2, 3, 4} /\ 1 \in {1, 2, 3, 4} /\ \A d \in {1} : d <= 1
        OBVIOUS
      <4>2. Pieces(s, {1}, N, kids) /\ Piece(p, 1, N, kids)
        BY <2>2
      <4>3. QED
        BY <4>1, <4>2, PiecesMore, Zenon
    <3>2. {1} \cup {1} = {1}
      OBVIOUS
    <3>3. QED
      BY <3>1, <3>2, Zenon
  <2>3. ASSUME NEW s, P(s), NEW p, Piece(p, 4, N, kids)
        PROVE  Q(s \o p)
    <3>1. Pieces(s \o p, {1} \cup {4}, N, kids)
      <4>1. {1} \in SUBSET {1, 2, 3, 4} /\ 4 \in {1, 2, 3, 4} /\ \A d \in {1} : d <= 4
        OBVIOUS
      <4>2. Pieces(s, {1}, N, kids) /\ Piece(p, 4, N, kids)
        BY <2>3
      <4>3. QED
        BY <4>1, <4>2, PiecesMore, Zenon
    <3>2. {1} \cup {4} = {1, 4}
      OBVIOUS
    <3>3. QED
      BY <3>1, <3>2, Zenon
  <2>4. ASSUME NEW s, Q(s), NEW p, Piece(p, 4, N, kids)
        PROVE  Q(s \o p)
    <3>1. Pieces(s \o p, {1, 4} \cup {4}, N, kids)
      <4>1. {1, 4} \in SUBSET {1, 2, 3, 4} /\ 4 \in {1, 2, 3, 4} /\ \A d \in {1, 4} : d <= 4
        OBVIOUS
      <4>2. Pieces(s, {1, 4}, N, kids) /\ Piece(p, 4, N, kids)
        BY <2>4
      <4>3. QED
        BY <4>1, <4>2, PiecesMore, Zenon
    <3>2. {1, 4} \cup {4} = {1, 4}
      OBVIOUS
    <3>3. QED
      BY <3>1, <3>2, Zenon
  <2> HIDE DEF P, Q
  <2>5. P(p1 \o p2)
    BY <1>6, <2>1, <2>2
  <2>6. P(p1 \o p2 \o p3)
    BY <1>6, <2>2, <2>5
  <2>7. P(p1 \o p2 \o p3 \o p4)
    BY <1>10, <2>2, <2>6
  <2>8. P(p1 \o p2 \o p3 \o p4 \o p5)
    BY <1>10, <2>2, <2>7
  <2>9. Q(p1 \o p2 \o p3 \o p4 \o p5 \o p6)
    BY <1>6, <2>3, <2>8
  <2>10. Q(p1 \o p2 \o p3 \o p4 \o p5 \o p6 \o p7)
    BY <1>11, <2>4, <2>9
  <2>11. Q(p1 \o p2 \o p3 \o p4 \o p5 \o p6 \o p7 \o p8)
    BY <1>11, <2>4, <2>10
  <2>12. Q(p1 \o p2 \o p3 \o p4 \o p5 \o p6 \o p7 \o p8 \o p9)
    BY <1>11, <2>4, <2>11
  <2>13. QED
    BY <2>12 DEF Q
<1> HIDE DEF u
<1>13. QED
  BY <1>1, <1>12

\* No child is in the middle of it.
Plain(s, kids) == \A i \in 1 .. Len(s) : Stage(s[i]) \in {1, 4} /\ (s[i].do = "child_meta" => kids)

\* That is what there is to do.
LEMMA RestInOrder ==
    ASSUME MetaFits, GroupsFit
    PROVE  Todo(Rest, Len(node.groups)) /\ Plain(Rest, node.meta.children # 0) /\ Rest \o << >> = Rest
<1> DEFINE N == Len(node.groups)
           kids == node.meta.children # 0
           x == [do |-> "publish"]
           t == <<x>>
<1>1. PICK u : Pieces(u, {1, 4}, N, kids) /\ Rest = u \o t
  BY RestIs
<1>2. Todo(t, N) /\ Stage(x) = 4
  BY TodoLast
<1>3. t[1] = x /\ Len(t) = 1 /\ x.do = "publish"
  OBVIOUS
<1> HIDE DEF N, kids, t, x
<1>4. Before4(u, t, N)
  BY <1>1, <1>2, <1>3 DEF Before4, Pieces
<1>5. Todo(Rest, N) /\ Precedes(Rest, u, t)
  BY <1>1, <1>2, <1>4, TodoMore
<1>6. Len(u) \in Nat
  BY <1>1 DEF Pieces
<1>7. Plain(Rest, kids)
  <2>1. ASSUME NEW i \in 1 .. Len(Rest)
        PROVE  Stage(Rest[i]) \in {1, 4} /\ (Rest[i].do = "child_meta" => kids)
    <3>1. Len(Rest) = Len(u) + 1 /\ (\A k \in 1 .. Len(u) : Rest[k] = u[k]) /\ Rest[Len(u) + 1] = x
      BY <1>3, <1>5, <1>6 DEF Precedes
    <3>2. CASE i \in 1 .. Len(u)
      BY <1>1, <3>1, <3>2 DEF Pieces
    <3>3. CASE i = Len(u) + 1
      BY <1>2, <1>3, <3>1, <3>3
    <3>4. QED
      BY <1>6, <3>1, <3>2, <3>3
  <2>2. QED
    BY <2>1 DEF Plain
<1>8. Rest \o << >> = Rest
  <2> DEFINE T == TaskSet(N)
  <2>1. Rest \in Seq(T)
    BY <1>5 DEF Todo
  <2> HIDE DEF T
  <2>2. QED
    BY <2>1
<1>9. QED
  BY <1>5, <1>7, <1>8 DEF N, kids

\* Then the work begins.
LEMMA GeometryKeeps ==
    ASSUME AggregationInv, Geometry
    PROVE  AggregationInv'
<1>1. node.at = "run" /\ Task.do = "geometry" /\ aggregates' = aggregates
  BY DEF Geometry, Doing
<1> DEFINE s == node.todo
           t == Tail(s)
           n == Then(node, Rest)
<1>2. /\ Running /\ SettingUp /\ MetaFits /\ Listing(s) /\ Len(s) = 1
      /\ Len(node.groups) + Len(s) - 1 = node.meta.declared + node.meta.dropped
      /\ Len(node.groups) \in Nat
  <2>1. Task.do # "group"
    BY <1>1
  <2>2. /\ Running /\ SettingUp /\ MetaFits /\ Listing(s) /\ Len(s) > 0 /\ Len(s) \in Nat
        /\ Len(node.groups) + Len(s) - 1 = node.meta.declared + node.meta.dropped
        /\ Len(node.groups) \in Nat /\ (Task.do = "group") = (Len(s) > 1)
    BY <1>1, SettingUpTodo
  <2>3. Len(s) = 1
    <3> DEFINE m == Len(s)
    <3>1. m \in Nat /\ m > 0 /\ ~(m > 1)
      BY <2>1, <2>2
    <3> HIDE DEF m
    <3>2. m = 1
      BY <3>1
    <3>3. QED
      BY <3>2 DEF m
  <2>4. QED
    BY <2>2, <2>3
<1>3. Continue(n) \/ Fault
  BY DEF Geometry
<1>4. CASE Fault
  BY <1>1, <1>4, FaultKeeps
<1>5. CASE Continue(n)
  <2>1. DOMAIN n = NodeFields /\ n.at = "run" /\ n.honest = node.honest /\ n.hints = node.hints /\ n.meta = node.meta
        /\ n.groups = node.groups /\ n.table = node.table /\ n.sphincs = node.sphincs /\ n.roots = node.roots
        /\ n.cover = node.cover /\ n.written = node.written /\ n.claims = node.claims
        /\ n.todo = Rest \o t
    BY <1>2 DEF Then, Running, NodeFields
  <2>2. t = << >>
    <3>1. Follows(t, s)
      <4>1. Len(s) > 0
        BY <1>2
      <4>2. QED
        BY <1>2, <4>1, ListingTail
    <3>2. Listing(t) /\ Len(t) = 0
      BY <1>2, <3>1 DEF Follows
    <3> HIDE DEF t
    <3>3. t = [i \in 1 .. 0 |-> t[i]]
      BY <3>2, ListingHas
    <3>4. QED
      BY <3>3
  <2> HIDE DEF n, t, s
  <2>3. GroupsFit
    BY <1>2 DEF SettingUp
  <2>4. Todo(n.todo, Len(node.groups)) /\ Plain(n.todo, node.meta.children # 0)
    BY <1>2, <2>1, <2>2, <2>3, RestInOrder
  <2>5. Became(n) /\ GoesOn
    <3>1. Task.do # "proof"
      BY <1>1
    <3>2. n.at = "run" /\ n.honest = node.honest /\ n.hints = node.hints /\ DOMAIN n = NodeFields
      BY <2>1
    <3>3. QED
      BY <1>1, <1>2, <1>5, <3>1, <3>2, StepGoesOn
  <2>6. /\ node'.cover = {} /\ node'.written = 0 /\ node'.table = << >> /\ node'.sphincs = << >>
        /\ node'.roots = << >> /\ node'.claims = << >> /\ node'.meta = node.meta /\ node'.groups = node.groups
        /\ node'.todo = n.todo
    BY <1>2, <2>1, <2>5 DEF Became, SettingUp
  <2>7. MetaFits' /\ GroupsFit'
    BY <1>2, <2>3, <2>6 DEF MetaFits, GroupsFit
  <2>8. Todo(node'.todo, Len(node'.groups)) /\ Plain(node'.todo, node'.meta.children # 0)
    BY <2>4, <2>6
  <2>9. Listing(<< >>)
    <3>1. << >> \in Seq({})
      OBVIOUS
    <3>2. QED
      BY <3>1, ListingIs
  <2>10. Len(node'.groups) = node'.meta.declared + node'.meta.dropped
    <3> DEFINE a == Len(node.groups)
               b == node.meta.declared + node.meta.dropped
    <3>1. a \in Nat /\ a + 1 - 1 = b
      BY <1>2
    <3> HIDE DEF a, b
    <3>2. a = b
      BY <3>1
    <3>3. QED
      BY <2>6, <3>2 DEF a, b
  <2>11. IsFiniteSet(node'.cover) /\ Cardinality(node'.cover) = node'.written
    BY <2>6, FS_EmptySet
  <2>12. ~Within(node'.todo)
    <3>1. Len(node'.todo) > 0 /\ Len(node'.todo) \in Nat
      <4> DEFINE T == TaskSet(Len(node'.groups))
      <4>1. node'.todo \in Seq(T) /\ Len(node'.todo) > 0
        BY <2>8 DEF Todo
      <4> HIDE DEF T
      <4>2. QED
        BY <4>1
    <3>2. 1 \in 1 .. Len(node'.todo)
      BY <3>1
    <3>3. Stage(node'.todo[1]) \in {1, 4}
      BY <2>8, <3>2 DEF Plain
    <3>4. QED
      BY <3>3 DEF Within
  <2>13. Working'
    BY <2>6, <2>7, <2>8, <2>9, <2>10, <2>11, <2>12 DEF Working, Plain
  <2>14. QED
    BY <2>5, <2>13 DEF GoesOn, AggregationInv, NodeOk
<1>6. QED
  BY <1>3, <1>4, <1>5

-----------------------------------------------------------------------------
(* The work. *)

\* The counts stay.
Steady == node'.meta = node.meta /\ node'.groups = node.groups

\* So do the cells of the table, once they are written.
Still == Steady /\ node'.table = node.table /\ node'.sphincs = node.sphincs /\ node'.roots = node.roots

\* The child's statement gains claims and roots.
Grows ==
    \A c : /\ StatesXmss(node.child, c) => StatesXmss(node'.child, c)
           /\ StatesSphincs(node.child, c) => StatesSphincs(node'.child, c)
           /\ StatesRoot(node.child, c) => StatesRoot(node'.child, c)

\* The regions are where they were.
LEMMA Alike ==
    ASSUME Steady
    PROVE  /\ \A j : Base(j)' = Base(j) /\ GroupSlots(j)' = GroupSlots(j)
           /\ XmssSlots' = XmssSlots /\ SphincsSlots' = SphincsSlots /\ RootSlots' = RootSlots
           /\ DaBase' = DaBase /\ TotalSlots' = TotalSlots
<1>1. node'.meta = node.meta /\ node'.groups = node.groups
  BY DEF Steady
<1>2. \A j : Base(j)' = Base(j) /\ GroupSlots(j)' = GroupSlots(j)
  BY <1>1 DEF Base, GroupSlots
<1>3. XmssSlots' = XmssSlots
  BY <1>1 DEF XmssSlots, Base, GroupSlots
<1>4. SphincsSlots' = SphincsSlots /\ RootSlots' = RootSlots
  BY <1>1 DEF SphincsSlots, RootSlots
<1>5. DaBase' = DaBase
  BY <1>3, <1>4 DEF DaBase
<1>6. TotalSlots' = TotalSlots
  BY <1>4, <1>5 DEF TotalSlots
<1>7. QED
  BY <1>2, <1>3, <1>4, <1>5, <1>6

\* There is something to do.
LEMMA WorkingTodo ==
    ASSUME Working
    PROVE  /\ node.todo \in Seq(TaskSet(Len(node.groups))) /\ Len(node.todo) \in Nat /\ Len(node.todo) > 0
           /\ 1 \in 1 .. Len(node.todo) /\ node.todo[1] \in TaskSet(Len(node.groups))
           /\ Listing(node.todo) /\ TasksInOrder(node.todo)
<1> DEFINE T == TaskSet(Len(node.groups))
           s == node.todo
<1>1. s \in Seq(T) /\ Len(s) > 0 /\ TasksInOrder(s)
  BY DEF Working, Todo
<1> HIDE DEF T, s
<1>2. Len(s) \in Nat /\ 1 \in 1 .. Len(s) /\ s[1] \in T
  BY <1>1
<1>3. Listing(s)
  BY <1>1, ListingIs
<1>4. QED
  BY <1>1, <1>2, <1>3 DEF T, s

\* A slot that is settled stays so while the child is.
LEMMA SettledStays ==
    ASSUME Still, Within(node.todo) => Within(node'.todo) /\ Grows, NEW slot, Settled(slot)
    PROVE  Settled(slot)'
<1>1. node'.groups = node.groups /\ node'.table = node.table /\ node'.sphincs = node.sphincs /\ node'.roots = node.roots
  BY DEF Still, Steady
<1>2. /\ \A j : Base(j)' = Base(j) /\ GroupSlots(j)' = GroupSlots(j)
      /\ XmssSlots' = XmssSlots /\ SphincsSlots' = SphincsSlots /\ RootSlots' = RootSlots /\ DaBase' = DaBase
  BY Alike DEF Still
<1>3. \A c : Within(node.todo) /\ StatesXmss(node.child, c) => Within(node'.todo) /\ StatesXmss(node'.child, c)
  BY DEF Grows
<1>4. \A c : Within(node.todo) /\ StatesSphincs(node.child, c) => Within(node'.todo) /\ StatesSphincs(node'.child, c)
  BY DEF Grows
<1>5. \A c : Within(node.todo) /\ StatesRoot(node.child, c) => Within(node'.todo) /\ StatesRoot(node'.child, c)
  BY DEF Grows
<1>6. CASE XmssSettled(slot)
  <2>1. PICK j \in DOMAIN node.groups :
          /\ slot \in Base(j) .. Base(j) + GroupSlots(j) - 1
          /\ \/ node.groups[j].at \o <<node.table[slot]>> \in XmssSigned
             \/ Within(node.todo) /\ StatesXmss(node.child, node.groups[j].at \o <<node.table[slot]>>)
    BY <1>6 DEF XmssSettled
  <2>2. slot \in Base(j)' .. Base(j)' + GroupSlots(j)' - 1
    BY <1>2, <2>1
  <2>3. \/ node'.groups[j].at \o <<node'.table[slot]>> \in XmssSigned
        \/ Within(node'.todo) /\ StatesXmss(node'.child, node'.groups[j].at \o <<node'.table[slot]>>)
    BY <1>1, <1>3, <2>1
  <2>4. XmssSettled(slot)'
    BY <1>1, <2>2, <2>3 DEF XmssSettled
  <2>5. QED
    BY <2>4 DEF Settled
<1>7. CASE SphincsSettled(slot)
  <2>1. PICK r \in 0 .. SphincsSlots - 1 :
          /\ slot = XmssSlots + r
          /\ node.sphincs[r + 1] \in SphincsSigned \/ (Within(node.todo) /\ StatesSphincs(node.child, node.sphincs[r + 1]))
    BY <1>7 DEF SphincsSettled
  <2>2. node'.sphincs[r + 1] \in SphincsSigned \/ (Within(node'.todo) /\ StatesSphincs(node'.child, node'.sphincs[r + 1]))
    BY <1>1, <1>4, <2>1
  <2>3. SphincsSettled(slot)'
    BY <1>2, <2>1, <2>2 DEF SphincsSettled
  <2>4. QED
    BY <2>3 DEF Settled
<1>8. CASE RootSettled(slot)
  <2>1. PICK r \in 0 .. RootSlots - 1 :
          /\ slot = DaBase + r
          /\ DaVerify(node.roots[r + 1]) \/ (Within(node.todo) /\ StatesRoot(node.child, node.roots[r + 1]))
    BY <1>8 DEF RootSettled
  <2>2. DaVerify(node'.roots[r + 1]) \/ (Within(node'.todo) /\ StatesRoot(node'.child, node'.roots[r + 1]))
    BY <1>1, <1>5, <2>1
  <2>3. RootSettled(slot)'
    BY <1>2, <2>1, <2>2 DEF RootSettled
  <2>4. QED
    BY <2>3 DEF Settled
<1>9. QED
  BY <1>6, <1>7, <1>8 DEF Settled

\* A cell is written.
LEMMA WriteKeeps ==
    ASSUME Working, Stage(node.todo[1]) = 1, Steady, node'.todo = Tail(node.todo),
           node'.cover = node.cover, node'.written = node.written, node'.claims = node.claims,
           Listing(node'.sphincs), Listing(node'.roots)
    PROVE  Working'
<1> DEFINE s == node.todo
           t == node'.todo
           G == Len(node.groups)
<1>1. Todo(s, G) /\ Len(s) \in Nat /\ 1 \in 1 .. Len(s)
  BY WorkingTodo DEF Working
<1>2. s[1].do # "publish"
  BY StageIs
<1>3. Goes(t, s, G)
  BY <1>1, <1>2, TodoTail
<1>4. node'.groups = node.groups /\ node'.meta = node.meta
  BY DEF Steady
<1>5. node.cover = {} /\ node.written = 0 /\ \A i \in 1 .. Len(s) : Stage(s[i]) \in {1, 4}
  BY DEF Working
<1> HIDE DEF s, t, G
<1>6. Todo(t, G) /\ Len(t) = Len(s) - 1 /\ \A i \in 1 .. Len(t) : t[i] = s[i + 1]
  BY <1>3 DEF Goes, Follows
<1>7. \A i \in 1 .. Len(t) : i + 1 \in 1 .. Len(s) /\ t[i] = s[i + 1]
  <2> DEFINE m == Len(s)
             k == Len(t)
  <2>1. m \in Nat /\ k = m - 1
    BY <1>1, <1>6
  <2> HIDE DEF m, k
  <2>2. \A i \in 1 .. k : i + 1 \in 1 .. m
    BY <2>1
  <2>3. QED
    BY <1>6, <2>2 DEF m, k
<1>8. \A i \in 1 .. Len(t) : Stage(t[i]) \in {1, 4}
  BY <1>5, <1>7
<1>9. 1 \in 1 .. Len(t)
  <2> DEFINE T == TaskSet(G)
  <2>1. t \in Seq(T) /\ Len(t) > 0
    BY <1>6 DEF Todo
  <2> HIDE DEF T
  <2>2. Len(t) \in Nat
    BY <2>1
  <2>3. QED
    BY <2>1, <2>2
<1>10. ~Within(t)
  BY <1>8, <1>9 DEF Within
<1>11. \A i \in 1 .. Len(t) : node.meta.children = 0 => t[i].do # "child_meta"
  BY <1>7 DEF Working, s
<1>12. MetaFits' /\ GroupsFit'
  BY <1>4 DEF Working, MetaFits, GroupsFit
<1>13. node'.cover = {} /\ node'.written = 0
  BY <1>5
<1>14. IsFiniteSet(node'.cover) /\ Cardinality(node'.cover) = node'.written
  BY <1>13, FS_EmptySet
<1>15. Len(node'.groups) = node'.meta.declared + node'.meta.dropped /\ Listing(node'.claims)
       /\ (node'.meta.children = 0 => node'.claims = << >>)
  BY <1>4 DEF Working
<1>16. Todo(node'.todo, Len(node'.groups))
  BY <1>4, <1>6 DEF G, t
<1>17. QED
  BY <1>4, <1>8, <1>10, <1>11, <1>12, <1>13, <1>14, <1>15, <1>16 DEF Working, t

\* A task done that is none of writing, publishing, or a child's proof.
LEMMA TailKeeps ==
    ASSUME Working, Stage(node.todo[1]) # 1, node.todo[1].do \notin {"publish", "proof"},
           Still, node'.todo = Tail(node.todo), node'.claims = node.claims,
           Within(node.todo) => Grows /\ ChildFits',
           \/ node'.cover = node.cover /\ node'.written = node.written
           \/ \E slot \in 0 .. TotalSlots - 1 :
                slot \notin node.cover /\ node'.cover = node.cover \cup {slot} /\ node'.written = node.written + 1
                /\ Settled(slot)'
    PROVE  Working'
<1> DEFINE s == node.todo
           t == node'.todo
           G == Len(node.groups)
<1>1. Todo(s, G) /\ Len(s) \in Nat /\ 1 \in 1 .. Len(s)
  BY WorkingTodo DEF Working
<1>2. Goes(t, s, G)
  BY <1>1, TodoTail
<1>3. Steady /\ node'.groups = node.groups /\ node'.meta = node.meta /\ node'.sphincs = node.sphincs
      /\ node'.roots = node.roots
  BY DEF Still, Steady
<1>4. Within(s) => Within(t) /\ Grows /\ ChildFits'
  BY <1>2 DEF Goes
<1>5. \A slot : Settled(slot) => Settled(slot)'
  BY <1>4, SettledStays
<1>6. Stage(s[1]) \in {2, 3, 4} /\ Stage(t[1]) \in {1, 2, 3, 4} /\ Stage(s[1]) <= Stage(t[1])
  BY <1>2, StageIs DEF Goes
<1>7. Stage(t[1]) # 1 /\ (Within(t) => Within(s))
  <2> DEFINE a == Stage(s[1])
             b == Stage(t[1])
  <2>1. a \in {2, 3, 4} /\ b \in {1, 2, 3, 4} /\ a <= b /\ (Within(t) <=> b \in {2, 3}) /\ (Within(s) <=> a \in {2, 3})
    BY <1>6 DEF Within
  <2> HIDE DEF a, b
  <2>2. b # 1 /\ (b \in {2, 3} => a \in {2, 3})
    BY <2>1
  <2>3. QED
    BY <2>1, <2>2 DEF b
<1>8. Within(t) => Within(s)
  BY <1>7
<1>9. TotalSlots' = TotalSlots
  BY <1>3, Alike
<1>10. IsFiniteSet(node.cover) /\ Cardinality(node.cover) = node.written /\ node.cover \subseteq 0 .. TotalSlots - 1
       /\ (AllHold(node.claims) => \A slot \in node.cover : Settled(slot))
  BY DEF Working
<1>11. /\ IsFiniteSet(node'.cover) /\ Cardinality(node'.cover) = node'.written /\ node'.cover \subseteq 0 .. TotalSlots - 1
       /\ (AllHold(node.claims) => \A slot \in node'.cover : Settled(slot)')
  <2>1. CASE node'.cover = node.cover /\ node'.written = node.written
    BY <1>5, <1>10, <2>1
  <2>2. CASE \E slot \in 0 .. TotalSlots - 1 :
               slot \notin node.cover /\ node'.cover = node.cover \cup {slot} /\ node'.written = node.written + 1
               /\ Settled(slot)'
    <3>1. PICK slot \in 0 .. TotalSlots - 1 :
            slot \notin node.cover /\ node'.cover = node.cover \cup {slot} /\ node'.written = node.written + 1
            /\ Settled(slot)'
      BY <2>2
    <3>2. IsFiniteSet(node.cover \cup {slot}) /\ Cardinality(node.cover \cup {slot}) = Cardinality(node.cover) + 1
      BY <1>10, <3>1, FS_AddElement
    <3>3. node'.cover \subseteq 0 .. TotalSlots - 1
      BY <1>10, <3>1
    <3>4. QED
      BY <1>5, <1>10, <3>1, <3>2, <3>3
  <2>3. QED
    BY <2>1, <2>2
<1> HIDE DEF s, t, G
<1>12. Todo(t, G) /\ Len(t) = Len(s) - 1 /\ \A i \in 1 .. Len(t) : t[i] = s[i + 1]
  BY <1>2 DEF Goes, Follows
<1>13. \A i \in 1 .. Len(t) : i + 1 \in 1 .. Len(s) /\ t[i] = s[i + 1]
  <2> DEFINE m == Len(s)
             k == Len(t)
  <2>1. m \in Nat /\ k = m - 1
    BY <1>1, <1>12
  <2> HIDE DEF m, k
  <2>2. \A i \in 1 .. k : i + 1 \in 1 .. m
    BY <2>1
  <2>3. QED
    BY <1>12, <2>2 DEF m, k
<1>14. node.meta.children = 0 => \A i \in 1 .. Len(t) : t[i].do # "child_meta" /\ Stage(t[i]) \in {1, 4}
  <2>1. node.meta.children = 0 => \A i \in 1 .. Len(s) : s[i].do # "child_meta" /\ Stage(s[i]) \in {1, 4}
    BY DEF Working, s
  <2>2. QED
    BY <1>13, <2>1
<1>15. MetaFits' /\ GroupsFit'
  BY <1>3 DEF Working, MetaFits, GroupsFit
<1>16. Len(node'.groups) = node'.meta.declared + node'.meta.dropped /\ Listing(node'.claims)
       /\ (node'.meta.children = 0 => node'.claims = << >>) /\ Listing(node'.sphincs) /\ Listing(node'.roots)
  BY <1>3 DEF Working
<1>17. Todo(node'.todo, Len(node'.groups))
  BY <1>3, <1>12 DEF G, t
<1>18. Within(t) => ChildFits'
  BY <1>4, <1>8
<1>19. QED
  BY <1>3, <1>7, <1>9, <1>11, <1>14, <1>15, <1>16, <1>17, <1>18 DEF Working, t

\* The task of a run that works.
LEMMA TaskAtWork ==
    ASSUME AggregationInv, node.at = "run", Task.do \notin {"meta", "group", "geometry"}
    PROVE  /\ Running /\ Working /\ Task = node.todo[1] /\ Task \in TaskSet(Len(node.groups))
           /\ << >> \o Tail(node.todo) = Tail(node.todo)
<1>1. Running /\ Working /\ Task = node.todo[1]
  BY WhenRunning
<1> DEFINE T == TaskSet(Len(node.groups))
           s == node.todo
<1>2. s \in Seq(T) /\ Len(s) > 0 /\ s[1] \in T
  BY <1>1, WorkingTodo
<1> HIDE DEF T, s
<1>3. s # << >>
  BY <1>2
<1>4. Tail(s) \in Seq(T)
  BY <1>2, <1>3, HeadTailProperties
<1>5. << >> \o Tail(s) = Tail(s)
  BY <1>4, ConcatEmptySeq
<1>6. QED
  BY <1>1, <1>2, <1>5 DEF s, T

\* A run that goes on working.
LEMMA WorkingGoesOn == ASSUME GoesOn, Working' PROVE AggregationInv'
BY DEF GoesOn, AggregationInv, NodeOk

\* A root of the table.
LEMMA DaRootKeeps == ASSUME AggregationInv, DaRoot PROVE AggregationInv'
<1>1. node.at = "run" /\ Task.do = "da_roots" /\ aggregates' = aggregates
  BY DEF DaRoot, Take, Doing
<1>2. Running /\ Working /\ Task = node.todo[1] /\ << >> \o Tail(node.todo) = Tail(node.todo)
  BY <1>1, TaskAtWork
<1>3. PICK x \in Entries("da_roots") : Continue(Then([node EXCEPT !.roots = Append(@, x)], << >>)) \/ Fault
  BY DEF DaRoot, Take
<1>4. CASE Fault
  BY <1>1, <1>4, FaultKeeps
<1>5. CASE ~Fault
  <2> DEFINE n == Then([node EXCEPT !.roots = Append(@, x)], << >>)
  <2>1. Continue(n)
    BY <1>3, <1>5
  <2>2. DOMAIN n = NodeFields /\ n.at = "run" /\ n.honest = node.honest /\ n.hints = node.hints
    BY <1>2 DEF Then, Running, NodeFields
  <2>3. /\ n.meta = node.meta /\ n.groups = node.groups /\ n.cover = node.cover /\ n.written = node.written
        /\ n.claims = node.claims /\ n.todo = Tail(node.todo)
        /\ n.sphincs = node.sphincs /\ n.roots = Append(node.roots, x)
    BY <1>2 DEF Then, Running, NodeFields
  <2> HIDE DEF n
  <2>4. Became(n) /\ GoesOn
    <3>1. Task.do # "proof"
      BY <1>1
    <3>2. QED
      BY <1>1, <1>2, <2>1, <2>2, <3>1, StepGoesOn
  <2>5. /\ Steady /\ node'.cover = node.cover /\ node'.written = node.written
        /\ node'.claims = node.claims /\ node'.todo = Tail(node.todo)
        /\ node'.sphincs = node.sphincs /\ node'.roots = Append(node.roots, x)
    BY <2>3, <2>4 DEF Became, Steady
  <2>6. Listing(node'.sphincs) /\ Listing(node'.roots)
    <3>1. Listing(node.sphincs) /\ Listing(node.roots)
      BY <1>2 DEF Working
    <3>2. Listing(Append(node.roots, x))
      BY <3>1, ListingAppend DEF Extends
    <3>3. QED
      BY <2>5, <3>1, <3>2
  <2>7. Stage(node.todo[1]) = 1
    BY <1>1, <1>2 DEF Stage, Writes
  <2>8. Working'
    BY <1>2, <2>5, <2>6, <2>7, WriteKeeps
  <2>9. QED
    BY <2>4, <2>8, WorkingGoesOn
<1>6. QED
  BY <1>4, <1>5

\* A declared key.
LEMMA PubkeyKeeps == ASSUME AggregationInv, Pubkey PROVE AggregationInv'
<1>1. node.at = "run" /\ Task.do = "pubkeys" /\ aggregates' = aggregates
  BY DEF Pubkey, Take, Doing
<1>2. Running /\ Working /\ Task = node.todo[1] /\ << >> \o Tail(node.todo) = Tail(node.todo)
  BY <1>1, TaskAtWork
<1>3. PICK x \in Entries("pubkeys") : Continue(Then([node EXCEPT !.table = (NextCell(Task.group, TRUE) :> x) @@ @], << >>)) \/ Fault
  BY DEF Pubkey, Take
<1>4. CASE Fault
  BY <1>1, <1>4, FaultKeeps
<1>5. CASE ~Fault
  <2> DEFINE n == Then([node EXCEPT !.table = (NextCell(Task.group, TRUE) :> x) @@ @], << >>)
  <2>1. Continue(n)
    BY <1>3, <1>5
  <2>2. DOMAIN n = NodeFields /\ n.at = "run" /\ n.honest = node.honest /\ n.hints = node.hints
    BY <1>2 DEF Then, Running, NodeFields
  <2>3. /\ n.meta = node.meta /\ n.groups = node.groups /\ n.cover = node.cover /\ n.written = node.written
        /\ n.claims = node.claims /\ n.todo = Tail(node.todo)
        /\ n.sphincs = node.sphincs /\ n.roots = node.roots
    BY <1>2 DEF Then, Running, NodeFields
  <2> HIDE DEF n
  <2>4. Became(n) /\ GoesOn
    <3>1. Task.do # "proof"
      BY <1>1
    <3>2. QED
      BY <1>1, <1>2, <2>1, <2>2, <3>1, StepGoesOn
  <2>5. /\ Steady /\ node'.cover = node.cover /\ node'.written = node.written
        /\ node'.claims = node.claims /\ node'.todo = Tail(node.todo)
        /\ node'.sphincs = node.sphincs /\ node'.roots = node.roots
    BY <2>3, <2>4 DEF Became, Steady
  <2>6. Listing(node'.sphincs) /\ Listing(node'.roots)
    <3>1. Listing(node.sphincs) /\ Listing(node.roots)
      BY <1>2 DEF Working
    <3>2. TRUE
      OBVIOUS
    <3>3. QED
      BY <2>5, <3>1, <3>2
  <2>7. Stage(node.todo[1]) = 1
    BY <1>1, <1>2 DEF Stage, Writes
  <2>8. Working'
    BY <1>2, <2>5, <2>6, <2>7, WriteKeeps
  <2>9. QED
    BY <2>4, <2>8, WorkingGoesOn
<1>6. QED
  BY <1>4, <1>5

\* A duplicate.
LEMMA DupPubkeyKeeps == ASSUME AggregationInv, DupPubkey PROVE AggregationInv'
<1>1. node.at = "run" /\ Task.do = "dup_pubkeys" /\ aggregates' = aggregates
  BY DEF DupPubkey, Take, Doing
<1>2. Running /\ Working /\ Task = node.todo[1] /\ << >> \o Tail(node.todo) = Tail(node.todo)
  BY <1>1, TaskAtWork
<1>3. PICK x \in Entries("dup_pubkeys") : Continue(Then([node EXCEPT !.table = (NextCell(Task.group, FALSE) :> x) @@ @], << >>)) \/ Fault
  BY DEF DupPubkey, Take
<1>4. CASE Fault
  BY <1>1, <1>4, FaultKeeps
<1>5. CASE ~Fault
  <2> DEFINE n == Then([node EXCEPT !.table = (NextCell(Task.group, FALSE) :> x) @@ @], << >>)
  <2>1. Continue(n)
    BY <1>3, <1>5
  <2>2. DOMAIN n = NodeFields /\ n.at = "run" /\ n.honest = node.honest /\ n.hints = node.hints
    BY <1>2 DEF Then, Running, NodeFields
  <2>3. /\ n.meta = node.meta /\ n.groups = node.groups /\ n.cover = node.cover /\ n.written = node.written
        /\ n.claims = node.claims /\ n.todo = Tail(node.todo)
        /\ n.sphincs = node.sphincs /\ n.roots = node.roots
    BY <1>2 DEF Then, Running, NodeFields
  <2> HIDE DEF n
  <2>4. Became(n) /\ GoesOn
    <3>1. Task.do # "proof"
      BY <1>1
    <3>2. QED
      BY <1>1, <1>2, <2>1, <2>2, <3>1, StepGoesOn
  <2>5. /\ Steady /\ node'.cover = node.cover /\ node'.written = node.written
        /\ node'.claims = node.claims /\ node'.todo = Tail(node.todo)
        /\ node'.sphincs = node.sphincs /\ node'.roots = node.roots
    BY <2>3, <2>4 DEF Became, Steady
  <2>6. Listing(node'.sphincs) /\ Listing(node'.roots)
    <3>1. Listing(node.sphincs) /\ Listing(node.roots)
      BY <1>2 DEF Working
    <3>2. TRUE
      OBVIOUS
    <3>3. QED
      BY <2>5, <3>1, <3>2
  <2>7. Stage(node.todo[1]) = 1
    BY <1>1, <1>2 DEF Stage, Writes
  <2>8. Working'
    BY <1>2, <2>5, <2>6, <2>7, WriteKeeps
  <2>9. QED
    BY <2>4, <2>8, WorkingGoesOn
<1>6. QED
  BY <1>4, <1>5

\* A declared SPHINCS claim.
LEMMA SphincsSignerKeeps == ASSUME AggregationInv, SphincsSigner PROVE AggregationInv'
<1>1. node.at = "run" /\ Task.do = "sphincs_signers" /\ aggregates' = aggregates
  BY DEF SphincsSigner, Take, Doing
<1>2. Running /\ Working /\ Task = node.todo[1] /\ << >> \o Tail(node.todo) = Tail(node.todo)
  BY <1>1, TaskAtWork
<1>3. PICK x \in Entries("sphincs_signers") : Continue(Then([node EXCEPT !.sphincs = Append(@, x)], << >>)) \/ Fault
  BY DEF SphincsSigner, Take
<1>4. CASE Fault
  BY <1>1, <1>4, FaultKeeps
<1>5. CASE ~Fault
  <2> DEFINE n == Then([node EXCEPT !.sphincs = Append(@, x)], << >>)
  <2>1. Continue(n)
    BY <1>3, <1>5
  <2>2. DOMAIN n = NodeFields /\ n.at = "run" /\ n.honest = node.honest /\ n.hints = node.hints
    BY <1>2 DEF Then, Running, NodeFields
  <2>3. /\ n.meta = node.meta /\ n.groups = node.groups /\ n.cover = node.cover /\ n.written = node.written
        /\ n.claims = node.claims /\ n.todo = Tail(node.todo)
        /\ n.sphincs = Append(node.sphincs, x) /\ n.roots = node.roots
    BY <1>2 DEF Then, Running, NodeFields
  <2> HIDE DEF n
  <2>4. Became(n) /\ GoesOn
    <3>1. Task.do # "proof"
      BY <1>1
    <3>2. QED
      BY <1>1, <1>2, <2>1, <2>2, <3>1, StepGoesOn
  <2>5. /\ Steady /\ node'.cover = node.cover /\ node'.written = node.written
        /\ node'.claims = node.claims /\ node'.todo = Tail(node.todo)
        /\ node'.sphincs = Append(node.sphincs, x) /\ node'.roots = node.roots
    BY <2>3, <2>4 DEF Became, Steady
  <2>6. Listing(node'.sphincs) /\ Listing(node'.roots)
    <3>1. Listing(node.sphincs) /\ Listing(node.roots)
      BY <1>2 DEF Working
    <3>2. Listing(Append(node.sphincs, x))
      BY <3>1, ListingAppend DEF Extends
    <3>3. QED
      BY <2>5, <3>1, <3>2
  <2>7. Stage(node.todo[1]) = 1
    BY <1>1, <1>2 DEF Stage, Writes
  <2>8. Working'
    BY <1>2, <2>5, <2>6, <2>7, WriteKeeps
  <2>9. QED
    BY <2>4, <2>8, WorkingGoesOn
<1>6. QED
  BY <1>4, <1>5

\* A duplicate of one.
LEMMA DupSphincsKeeps == ASSUME AggregationInv, DupSphincs PROVE AggregationInv'
<1>1. node.at = "run" /\ Task.do = "dup_sphincs" /\ aggregates' = aggregates
  BY DEF DupSphincs, Take, Doing
<1>2. Running /\ Working /\ Task = node.todo[1] /\ << >> \o Tail(node.todo) = Tail(node.todo)
  BY <1>1, TaskAtWork
<1>3. PICK x \in Entries("dup_sphincs") : Continue(Then([node EXCEPT !.sphincs = Append(@, x)], << >>)) \/ Fault
  BY DEF DupSphincs, Take
<1>4. CASE Fault
  BY <1>1, <1>4, FaultKeeps
<1>5. CASE ~Fault
  <2> DEFINE n == Then([node EXCEPT !.sphincs = Append(@, x)], << >>)
  <2>1. Continue(n)
    BY <1>3, <1>5
  <2>2. DOMAIN n = NodeFields /\ n.at = "run" /\ n.honest = node.honest /\ n.hints = node.hints
    BY <1>2 DEF Then, Running, NodeFields
  <2>3. /\ n.meta = node.meta /\ n.groups = node.groups /\ n.cover = node.cover /\ n.written = node.written
        /\ n.claims = node.claims /\ n.todo = Tail(node.todo)
        /\ n.sphincs = Append(node.sphincs, x) /\ n.roots = node.roots
    BY <1>2 DEF Then, Running, NodeFields
  <2> HIDE DEF n
  <2>4. Became(n) /\ GoesOn
    <3>1. Task.do # "proof"
      BY <1>1
    <3>2. QED
      BY <1>1, <1>2, <2>1, <2>2, <3>1, StepGoesOn
  <2>5. /\ Steady /\ node'.cover = node.cover /\ node'.written = node.written
        /\ node'.claims = node.claims /\ node'.todo = Tail(node.todo)
        /\ node'.sphincs = Append(node.sphincs, x) /\ node'.roots = node.roots
    BY <2>3, <2>4 DEF Became, Steady
  <2>6. Listing(node'.sphincs) /\ Listing(node'.roots)
    <3>1. Listing(node.sphincs) /\ Listing(node.roots)
      BY <1>2 DEF Working
    <3>2. Listing(Append(node.sphincs, x))
      BY <3>1, ListingAppend DEF Extends
    <3>3. QED
      BY <2>5, <3>1, <3>2
  <2>7. Stage(node.todo[1]) = 1
    BY <1>1, <1>2 DEF Stage, Writes
  <2>8. Working'
    BY <1>2, <2>5, <2>6, <2>7, WriteKeeps
  <2>9. QED
    BY <2>4, <2>8, WorkingGoesOn
<1>6. QED
  BY <1>4, <1>5

-----------------------------------------------------------------------------
(* Slots are covered. *)

\* A slot of a group's region, for a claim that is signed or the child's.
LEMMA XmssCovers ==
    ASSUME Working, Still, NEW j \in DOMAIN node.groups, NEW r \in 0 .. GroupSlots(j) - 1,
           LET stated == node.groups[j].at \o <<node.table[Base(j) + r]>>
           IN  stated \in XmssSigned \/ (Within(node'.todo) /\ StatesXmss(node'.child, stated))
    PROVE  \E slot \in 0 .. TotalSlots - 1 : slot = Base(j) + r /\ Settled(slot)'
<1>0. PICK slot : slot = Base(j) + r
  OBVIOUS
<1>a. PICK stated : stated = node.groups[j].at \o <<node.table[slot]>>
  OBVIOUS
<1>1. stated \in XmssSigned \/ (Within(node'.todo) /\ StatesXmss(node'.child, stated))
  BY <1>0, <1>a
<1>2. RegionsLie
  BY Regions DEF Working
<1>3. Base(j) \in Nat /\ GroupSlots(j) \in Nat /\ Base(j) + GroupSlots(j) <= XmssSlots
      /\ XmssSlots \in Nat /\ SphincsSlots \in Nat /\ RootSlots \in Nat
      /\ DaBase = XmssSlots + SphincsSlots /\ TotalSlots = DaBase + RootSlots
  BY <1>2 DEF RegionsLie
<1> DEFINE b == Base(j)
           g == GroupSlots(j)
           x == XmssSlots
           t == TotalSlots
<1>4. b \in Nat /\ g \in Nat /\ b + g <= x /\ x \in Nat /\ t \in Nat /\ x <= t /\ r \in 0 .. g - 1 /\ slot = b + r
  <2> DEFINE y == SphincsSlots
             z == RootSlots
  <2>1. b \in Nat /\ g \in Nat /\ b + g <= x /\ x \in Nat /\ y \in Nat /\ z \in Nat /\ t = (x + y) + z
    BY <1>3
  <2> HIDE DEF x, y, z, t
  <2>2. t \in Nat /\ x <= t
    BY <2>1
  <2>3. QED
    BY <1>0, <2>1, <2>2
<1>5. slot \in 0 .. t - 1 /\ slot \in b .. b + g - 1
  <2> HIDE DEF b, g, x, t
  <2>1. QED
    BY <1>4
<1>6. node'.groups = node.groups /\ node'.table = node.table /\ Base(j)' = Base(j) /\ GroupSlots(j)' = GroupSlots(j)
  BY Alike DEF Still, Steady
<1>7. slot \in Base(j)' .. Base(j)' + GroupSlots(j)' - 1
  BY <1>5, <1>6
<1>8. node'.groups[j].at \o <<node'.table[slot]>> = stated
  BY <1>6, <1>a
<1> HIDE DEF b, g, x, t
<1>9. XmssSettled(slot)'
  BY <1>1, <1>6, <1>7, <1>8 DEF XmssSettled
<1>10. Settled(slot)'
  BY <1>9 DEF Settled
<1>11. QED
  BY <1>0, <1>5, <1>10 DEF t

\* A slot of the SPHINCS region.
LEMMA SphincsCovers ==
    ASSUME Working, Still, NEW r \in 0 .. SphincsSlots - 1,
           \/ node.sphincs[r + 1] \in SphincsSigned
           \/ Within(node'.todo) /\ StatesSphincs(node'.child, node.sphincs[r + 1])
    PROVE  \E slot \in 0 .. TotalSlots - 1 : slot = XmssSlots + r /\ Settled(slot)'
<1>0. PICK slot : slot = XmssSlots + r
  OBVIOUS
<1>1. RegionsLie
  BY Regions DEF Working
<1>2. XmssSlots \in Nat /\ SphincsSlots \in Nat /\ RootSlots \in Nat
      /\ DaBase = XmssSlots + SphincsSlots /\ TotalSlots = DaBase + RootSlots
  BY <1>1 DEF RegionsLie
<1>3. XmssSlots + r \in 0 .. TotalSlots - 1
  <2> DEFINE x == XmssSlots
             y == SphincsSlots
             z == RootSlots
             t == TotalSlots
  <2>1. x \in Nat /\ y \in Nat /\ z \in Nat /\ t = (x + y) + z /\ r \in 0 .. y - 1
    BY <1>2
  <2> HIDE DEF x, y, z, t
  <2>2. x + r \in 0 .. t - 1
    BY <2>1
  <2>3. QED
    BY <2>2 DEF x, t
<1>4. node'.sphincs = node.sphincs /\ XmssSlots' = XmssSlots /\ SphincsSlots' = SphincsSlots
  BY Alike DEF Still
<1>5. SphincsSettled(slot)'
  BY <1>0, <1>4 DEF SphincsSettled
<1>6. QED
  BY <1>0, <1>3, <1>5 DEF Settled

\* A slot of the roots' region.
LEMMA RootCovers ==
    ASSUME Working, Still, NEW r \in 0 .. RootSlots - 1,
           \/ DaVerify(node.roots[r + 1])
           \/ Within(node'.todo) /\ StatesRoot(node'.child, node.roots[r + 1])
    PROVE  \E slot \in 0 .. TotalSlots - 1 : slot = DaBase + r /\ Settled(slot)'
<1>0. PICK slot : slot = DaBase + r
  OBVIOUS
<1>1. RegionsLie
  BY Regions DEF Working
<1>2. XmssSlots \in Nat /\ SphincsSlots \in Nat /\ RootSlots \in Nat
      /\ DaBase = XmssSlots + SphincsSlots /\ TotalSlots = DaBase + RootSlots
  BY <1>1 DEF RegionsLie
<1>3. DaBase + r \in 0 .. TotalSlots - 1
  <2> DEFINE x == XmssSlots
             y == SphincsSlots
             z == RootSlots
             d == DaBase
             t == TotalSlots
  <2>1. x \in Nat /\ y \in Nat /\ z \in Nat /\ d = x + y /\ t = d + z /\ r \in 0 .. z - 1
    BY <1>2
  <2> HIDE DEF x, y, z, t, d
  <2>2. d + r \in 0 .. t - 1
    BY <2>1
  <2>3. QED
    BY <2>2 DEF d, t
<1>4. node'.roots = node.roots /\ DaBase' = DaBase /\ RootSlots' = RootSlots
  BY Alike DEF Still
<1>5. RootSettled(slot)'
  BY <1>0, <1>4 DEF RootSettled
<1>6. QED
  BY <1>0, <1>3, <1>5 DEF Settled

\* The group a task names is one there is.
LEMMA TaskGroup ==
    ASSUME NEW groups, NEW task \in TaskSet(groups), task.do \in {"pubkeys", "dup_pubkeys", "raw_index", "child_index"}
    PROVE  task.group \in 1 .. groups
<1> DEFINE A == {[do |-> d] : d \in {"da_roots", "sphincs_signers", "dup_sphincs", "sp_raw_index", "child_meta", "publish"} \cup Subtasks}
           B == {[do |-> "da_index", direct |-> b] : b \in BOOLEAN}
           D == {"pubkeys", "dup_pubkeys", "raw_index", "child_index"} \X (1 .. groups)
<1>1. CASE task \in A \cup B
  <2>1. PICK d \in {"da_roots", "sphincs_signers", "dup_sphincs", "sp_raw_index", "child_meta", "publish", "da_index"} \cup Subtasks :
          task.do = d
    BY <1>1
  <2>2. QED
    BY <2>1 DEF Subtasks
<1>2. CASE task \in {[do |-> t[1], group |-> t[2]] : t \in D}
  BY <1>2
<1>3. QED
  BY <1>1, <1>2 DEF TaskSet

-----------------------------------------------------------------------------
(* What is covered by verifying it. *)

\* A task of the last stage is of no child.
LEMMA AtLast ==
    ASSUME Working, node.todo[1].do \in {"raw_index", "sp_raw_index", "child_meta", "da_index"},
           node.todo[1].do = "da_index" => node.todo[1].direct
    PROVE  Stage(node.todo[1]) = 4 /\ ~Within(node.todo)
<1>1. Stage(node.todo[1]) = 4
  BY DEF Stage, Writes, Subtasks
<1>2. QED
  BY <1>1 DEF Within

\* A raw XMSS signature.
LEMMA RawXmssKeeps == ASSUME AggregationInv, RawXmss PROVE AggregationInv'
<1>1. node.at = "run" /\ Task.do = "raw_index" /\ aggregates' = aggregates
  BY DEF RawXmss, Take, Doing
<1>2. Running /\ Working /\ Task = node.todo[1] /\ Task \in TaskSet(Len(node.groups))
      /\ << >> \o Tail(node.todo) = Tail(node.todo)
  BY <1>1, TaskAtWork
<1>3. PICK x \in Entries("raw_index") :
        \/ Fault
        \/ /\ Continue(Then(Covering(node, Base(Task.group) + x.slot), << >>))
           /\ (/\ InRegion(x.slot, GroupSlots(Task.group)) /\ MayCover(Base(Task.group) + x.slot)
               /\ VerifySig(node.groups[Task.group].at, node.table[Base(Task.group) + x.slot], x.signature))
  BY DEF RawXmss, Take
<1>4. CASE Fault
  BY <1>1, <1>4, FaultKeeps
<1>5. CASE ~Fault
  <2> DEFINE slot == Base(Task.group) + x.slot
             n == Then(Covering(node, slot), << >>)
  <2>1. Continue(n) /\ slot \notin node.cover /\ (/\ InRegion(x.slot, GroupSlots(Task.group)) /\ MayCover(Base(Task.group) + x.slot)
             /\ VerifySig(node.groups[Task.group].at, node.table[Base(Task.group) + x.slot], x.signature))
    BY <1>3, <1>5 DEF MayCover
  <2>2. DOMAIN n = NodeFields /\ n.at = "run" /\ n.honest = node.honest /\ n.hints = node.hints
    BY <1>2 DEF Then, Covering, Running, NodeFields
  <2>3. /\ n.meta = node.meta /\ n.groups = node.groups /\ n.cover = node.cover \cup {slot}
        /\ n.written = node.written + 1 /\ n.claims = node.claims /\ n.todo = Tail(node.todo)
        /\ n.table = node.table /\ n.sphincs = node.sphincs /\ n.roots = node.roots
    BY <1>2 DEF Then, Covering, Running, NodeFields
  <2> HIDE DEF n
  <2>4. Became(n) /\ GoesOn
    <3>1. Task.do # "proof"
      BY <1>1
    <3>2. QED
      BY <1>1, <1>2, <2>1, <2>2, <3>1, StepGoesOn
  <2>5. /\ Still /\ node'.cover = node.cover \cup {slot} /\ node'.written = node.written + 1
        /\ node'.claims = node.claims /\ node'.todo = Tail(node.todo)
    BY <2>3, <2>4 DEF Became, Steady, Still
  <2>6. Stage(node.todo[1]) = 4 /\ ~Within(node.todo)
    BY <1>1, <1>2, AtLast
  <2>7. \E place \in 0 .. TotalSlots - 1 : place = slot /\ Settled(place)'
    <3>1. Task.group \in DOMAIN node.groups
      <4>1. Task.group \in 1 .. Len(node.groups)
        BY <1>1, <1>2, TaskGroup
      <4>2. Listing(node.groups)
        BY <1>2 DEF Working, GroupsFit
      <4>3. QED
        BY <4>1, <4>2, ListingHas
    <3>2. x.slot \in 0 .. GroupSlots(Task.group) - 1
      BY <2>1 DEF InRegion
    <3>3. node.groups[Task.group].at \o <<node.table[Base(Task.group) + x.slot]>> \in XmssSigned
      BY <2>1 DEF VerifySig
    <3>4. QED
      BY <1>2, <2>5, <3>1, <3>2, <3>3, XmssCovers
  <2>8. \E place \in 0 .. TotalSlots - 1 :
          place \notin node.cover /\ node'.cover = node.cover \cup {place} /\ node'.written = node.written + 1
          /\ Settled(place)'
    BY <2>1, <2>5, <2>7
  <2>9. Working'
    <3>1. node.todo[1].do \notin {"publish", "proof"} /\ Stage(node.todo[1]) # 1
      BY <1>1, <1>2, <2>6
    <3>2. QED
      BY <1>2, <2>5, <2>6, <2>8, <3>1, TailKeeps
  <2>10. QED
    BY <2>4, <2>9, WorkingGoesOn
<1>6. QED
  BY <1>4, <1>5

\* A raw SPHINCS signature.
LEMMA RawSphincsKeeps == ASSUME AggregationInv, RawSphincs PROVE AggregationInv'
<1>1. node.at = "run" /\ Task.do = "sp_raw_index" /\ aggregates' = aggregates
  BY DEF RawSphincs, Take, Doing
<1>2. Running /\ Working /\ Task = node.todo[1] /\ Task \in TaskSet(Len(node.groups))
      /\ << >> \o Tail(node.todo) = Tail(node.todo)
  BY <1>1, TaskAtWork
<1>3. PICK x \in Entries("sp_raw_index") :
        \/ Fault
        \/ Continue(Then(Covering(node, XmssSlots + x.slot), << >>)) /\ (/\ InRegion(x.slot, SphincsSlots) /\ MayCover(XmssSlots + x.slot)
             /\ VerifySigSphincs(node.sphincs[x.slot + 1], x.signature))
  BY DEF RawSphincs, Take
<1>4. CASE Fault
  BY <1>1, <1>4, FaultKeeps
<1>5. CASE ~Fault
  <2> DEFINE slot == XmssSlots + x.slot
             n == Then(Covering(node, slot), << >>)
  <2>1. Continue(n) /\ slot \notin node.cover /\ (/\ InRegion(x.slot, SphincsSlots) /\ MayCover(XmssSlots + x.slot)
             /\ VerifySigSphincs(node.sphincs[x.slot + 1], x.signature))
    BY <1>3, <1>5 DEF MayCover
  <2>2. DOMAIN n = NodeFields /\ n.at = "run" /\ n.honest = node.honest /\ n.hints = node.hints
    BY <1>2 DEF Then, Covering, Running, NodeFields
  <2>3. /\ n.meta = node.meta /\ n.groups = node.groups /\ n.cover = node.cover \cup {slot}
        /\ n.written = node.written + 1 /\ n.claims = node.claims /\ n.todo = Tail(node.todo)
        /\ n.table = node.table /\ n.sphincs = node.sphincs /\ n.roots = node.roots
    BY <1>2 DEF Then, Covering, Running, NodeFields
  <2> HIDE DEF n
  <2>4. Became(n) /\ GoesOn
    <3>1. Task.do # "proof"
      BY <1>1
    <3>2. QED
      BY <1>1, <1>2, <2>1, <2>2, <3>1, StepGoesOn
  <2>5. /\ Still /\ node'.cover = node.cover \cup {slot} /\ node'.written = node.written + 1
        /\ node'.claims = node.claims /\ node'.todo = Tail(node.todo)
    BY <2>3, <2>4 DEF Became, Steady, Still
  <2>6. Stage(node.todo[1]) = 4 /\ ~Within(node.todo)
    BY <1>1, <1>2, AtLast
  <2>7. \E place \in 0 .. TotalSlots - 1 : place = slot /\ Settled(place)'
    <3>1. x.slot \in 0 .. SphincsSlots - 1 /\ node.sphincs[x.slot + 1] \in SphincsSigned
      BY <2>1 DEF InRegion, VerifySigSphincs
    <3>2. QED
      BY <1>2, <2>5, <3>1, SphincsCovers
  <2>8. \E place \in 0 .. TotalSlots - 1 :
          place \notin node.cover /\ node'.cover = node.cover \cup {place} /\ node'.written = node.written + 1
          /\ Settled(place)'
    BY <2>1, <2>5, <2>7
  <2>9. Working'
    <3>1. node.todo[1].do \notin {"publish", "proof"} /\ Stage(node.todo[1]) # 1
      BY <1>1, <1>2, <2>6
    <3>2. QED
      BY <1>2, <2>5, <2>6, <2>8, <3>1, TailKeeps
  <2>10. QED
    BY <2>4, <2>9, WorkingGoesOn
<1>6. QED
  BY <1>4, <1>5

\* The root whose rows the node has.
LEMMA DirectRootKeeps == ASSUME AggregationInv, DirectRoot PROVE AggregationInv'
<1>1. node.at = "run" /\ Task.do = "da_index" /\ aggregates' = aggregates /\ Task.direct
  BY DEF DirectRoot, Take, Doing
<1>2. Running /\ Working /\ Task = node.todo[1] /\ Task \in TaskSet(Len(node.groups))
      /\ << >> \o Tail(node.todo) = Tail(node.todo)
  BY <1>1, TaskAtWork
<1>3. PICK x \in Entries("da_index") :
        \/ Fault
        \/ Continue(Then(Covering(node, DaBase + x), << >>)) /\ (/\ InRegion(x, RootSlots) /\ MayCover(DaBase + x) /\ DaVerify(node.roots[x + 1]))
  BY DEF DirectRoot, Take, CoversRoot
<1>4. CASE Fault
  BY <1>1, <1>4, FaultKeeps
<1>5. CASE ~Fault
  <2> DEFINE slot == DaBase + x
             n == Then(Covering(node, slot), << >>)
  <2>1. Continue(n) /\ slot \notin node.cover /\ (/\ InRegion(x, RootSlots) /\ MayCover(DaBase + x) /\ DaVerify(node.roots[x + 1]))
    BY <1>3, <1>5 DEF MayCover
  <2>2. DOMAIN n = NodeFields /\ n.at = "run" /\ n.honest = node.honest /\ n.hints = node.hints
    BY <1>2 DEF Then, Covering, Running, NodeFields
  <2>3. /\ n.meta = node.meta /\ n.groups = node.groups /\ n.cover = node.cover \cup {slot}
        /\ n.written = node.written + 1 /\ n.claims = node.claims /\ n.todo = Tail(node.todo)
        /\ n.table = node.table /\ n.sphincs = node.sphincs /\ n.roots = node.roots
    BY <1>2 DEF Then, Covering, Running, NodeFields
  <2> HIDE DEF n
  <2>4. Became(n) /\ GoesOn
    <3>1. Task.do # "proof"
      BY <1>1
    <3>2. QED
      BY <1>1, <1>2, <2>1, <2>2, <3>1, StepGoesOn
  <2>5. /\ Still /\ node'.cover = node.cover \cup {slot} /\ node'.written = node.written + 1
        /\ node'.claims = node.claims /\ node'.todo = Tail(node.todo)
    BY <2>3, <2>4 DEF Became, Steady, Still
  <2>6. Stage(node.todo[1]) = 4 /\ ~Within(node.todo)
    BY <1>1, <1>2, AtLast
  <2>7. \E place \in 0 .. TotalSlots - 1 : place = slot /\ Settled(place)'
    <3>1. x \in 0 .. RootSlots - 1 /\ DaVerify(node.roots[x + 1])
      BY <2>1 DEF InRegion
    <3>2. QED
      BY <1>2, <2>5, <3>1, RootCovers
  <2>8. \E place \in 0 .. TotalSlots - 1 :
          place \notin node.cover /\ node'.cover = node.cover \cup {place} /\ node'.written = node.written + 1
          /\ Settled(place)'
    BY <2>1, <2>5, <2>7
  <2>9. Working'
    <3>1. node.todo[1].do \notin {"publish", "proof"} /\ Stage(node.todo[1]) # 1
      BY <1>1, <1>2, <2>6
    <3>2. QED
      BY <1>2, <2>5, <2>6, <2>8, <3>1, TailKeeps
  <2>10. QED
    BY <2>4, <2>9, WorkingGoesOn
<1>6. QED
  BY <1>4, <1>5

-----------------------------------------------------------------------------
(* The statement of a child. *)

ChildFields == {"xmss", "sphincs", "roots", "defer"}

\* A task of a child is followed by another.
LEMMA AtChild ==
    ASSUME Working, node'.todo = Tail(node.todo),
           \/ node.todo[1].do \in {"child_index", "child_sphincs_index", "child_defer"}
           \/ node.todo[1].do = "da_index" /\ ~node.todo[1].direct
    PROVE  /\ Stage(node.todo[1]) # 1 /\ node.todo[1].do \notin {"publish", "proof"}
           /\ Within(node.todo) /\ Within(node'.todo) /\ ChildFits
<1>1. node.todo[1].do \notin {"publish", "proof"}
  OBVIOUS
<1>2. Stage(node.todo[1]) \in {2, 3}
  BY DEF Stage, Writes, Subtasks
<1>3. Within(node.todo) /\ Stage(node.todo[1]) # 1
  BY <1>2 DEF Within
<1>4. Within(Tail(node.todo))
  <2>1. Todo(node.todo, Len(node.groups))
    BY DEF Working
  <2>2. Goes(Tail(node.todo), node.todo, Len(node.groups))
    BY <1>1, <2>1, TodoTail
  <2>3. QED
    BY <1>1, <1>3, <2>2 DEF Goes
<1>5. QED
  BY <1>1, <1>3, <1>4 DEF Working

\* Its groups of claims stay the same, but for their keys.
LEMMA ChildStays ==
    ASSUME Working, Within(node.todo), Still, node'.todo = Tail(node.todo), DOMAIN node'.child = ChildFields,
           Listing(node'.child.xmss), Listing(node'.child.sphincs), Listing(node'.child.roots),
           Len(node'.child.xmss) = Len(node.child.xmss),
           \A i \in DOMAIN node.child.xmss : node'.child.xmss[i].at = node.child.xmss[i].at,
           \A i \in DOMAIN node'.child.xmss : DOMAIN node'.child.xmss[i] = {"at", "keys"} /\ Listing(node'.child.xmss[i].keys)
    PROVE  ChildFits'
<1>1. ChildFits /\ node'.groups = node.groups
  BY DEF Working, Still, Steady
<1> DEFINE s == node.todo
           t == node'.todo
           m == Len(s)
           k == Len(t)
<1>2. Listing(s) /\ m \in Nat /\ m > 0
  BY WorkingTodo
<1>3. Follows(t, s)
  BY <1>2, ListingTail
<1>4. k = m - 1 /\ \A i \in 1 .. k : t[i] = s[i + 1]
  BY <1>3 DEF Follows
<1>5. \A i \in 1 .. k : i + 1 \in 1 .. m
  <2> HIDE DEF m, k
  <2>1. QED
    BY <1>2, <1>4
<1>6. ASSUME NEW i \in 1 .. k, t[i].do = "child_index"
      PROVE  /\ Len(node'.child.xmss) > 0
             /\ node'.child.xmss[Len(node'.child.xmss)].at = node'.groups[t[i].group].at
  <2>1. i + 1 \in 1 .. m /\ t[i] = s[i + 1]
    BY <1>4, <1>5
  <2>2. Len(node.child.xmss) > 0 /\ node.child.xmss[Len(node.child.xmss)].at = node.groups[t[i].group].at
    BY <1>1, <1>6, <2>1 DEF ChildFits
  <2>3. Len(node.child.xmss) \in DOMAIN node.child.xmss
    <3> DEFINE u == node.child.xmss
               v == Len(u)
    <3>1. Listing(u)
      BY <1>1 DEF ChildFits
    <3>2. v \in Nat /\ DOMAIN u = 1 .. v
      BY <3>1, ListingHas
    <3>3. v > 0
      BY <2>2
    <3>4. v \in 1 .. v
      <4> HIDE DEF v
      <4>1. QED
        BY <3>2, <3>3
    <3>5. QED
      BY <3>2, <3>4
  <2>4. QED
    BY <1>1, <2>2, <2>3
<1>7. QED
  BY <1>6 DEF ChildFits, ChildFields

\* What a list has, a longer one has.
LEMMA ListGrows ==
    ASSUME NEW s, Listing(s), NEW x
    PROVE  /\ \A c : (\E i \in DOMAIN s : c = s[i]) => \E i \in DOMAIN Append(s, x) : c = Append(s, x)[i]
           /\ \E i \in DOMAIN Append(s, x) : x = Append(s, x)[i]
           /\ Listing(Append(s, x))
<1> DEFINE t == Append(s, x)
<1>1. Extends(t, s, x)
  BY ListingAppend
<1>2. Len(s) \in Nat /\ DOMAIN s = 1 .. Len(s)
  BY ListingHas
<1> HIDE DEF t
<1>3. Listing(t) /\ Len(t) = Len(s) + 1 /\ t[Len(t)] = x /\ DOMAIN t = 1 .. Len(s) + 1 /\ \A i \in 1 .. Len(s) : t[i] = s[i]
  BY <1>1 DEF Extends
<1> DEFINE k == Len(s)
<1>4. k \in Nat /\ DOMAIN s = 1 .. k /\ DOMAIN t = 1 .. k + 1 /\ t[k + 1] = x /\ \A i \in 1 .. k : t[i] = s[i]
  BY <1>2, <1>3
<1> HIDE DEF k
<1>5. k + 1 \in DOMAIN t /\ \A i \in DOMAIN s : i \in DOMAIN t
  BY <1>4
<1>6. QED
  BY <1>3, <1>4, <1>5 DEF t

\* A SPHINCS claim of a child.
LEMMA ChildSphincsKeeps == ASSUME AggregationInv, ChildSphincs PROVE AggregationInv'
<1>1. node.at = "run" /\ Task.do = "child_sphincs_index" /\ aggregates' = aggregates
  BY DEF ChildSphincs, Take, Doing
<1>2. Running /\ Working /\ Task = node.todo[1] /\ Task \in TaskSet(Len(node.groups))
      /\ << >> \o Tail(node.todo) = Tail(node.todo)
  BY <1>1, TaskAtWork
<1>3. PICK x \in Entries("child_sphincs_index") :
        \/ Fault
        \/ /\ Continue(Then([Covering(node, XmssSlots + x) EXCEPT !.child.sphincs = Append(@, node.sphincs[x + 1])],
                          << >>))
           /\ InRegion(x, SphincsSlots) /\ MayCover(XmssSlots + x)
  BY DEF ChildSphincs, Take
<1>4. CASE Fault
  BY <1>1, <1>4, FaultKeeps
<1>5. CASE ~Fault
  <2> DEFINE slot == XmssSlots + x
             n == Then([Covering(node, XmssSlots + x) EXCEPT !.child.sphincs = Append(@, node.sphincs[x + 1])], << >>)
  <2>1. Continue(n) /\ slot \notin node.cover /\ x \in 0 .. SphincsSlots - 1
    BY <1>3, <1>5 DEF MayCover, InRegion
  <2>2. DOMAIN n = NodeFields /\ n.at = "run" /\ n.honest = node.honest /\ n.hints = node.hints
    BY <1>2 DEF Then, Covering, Running, NodeFields
  <2>3. /\ n.meta = node.meta /\ n.groups = node.groups /\ n.cover = node.cover \cup {slot}
        /\ n.written = node.written + 1 /\ n.claims = node.claims /\ n.todo = Tail(node.todo)
        /\ n.table = node.table /\ n.sphincs = node.sphincs /\ n.roots = node.roots
        /\ n.child = [node.child EXCEPT !.sphincs = Append(@, node.sphincs[x + 1])]
    BY <1>2 DEF Then, Covering, Running, NodeFields
  <2> HIDE DEF n
  <2>4. Became(n) /\ GoesOn
    <3>1. Task.do # "proof"
      BY <1>1
    <3>2. QED
      BY <1>1, <1>2, <2>1, <2>2, <3>1, StepGoesOn
  <2>5. /\ Still /\ node'.cover = node.cover \cup {slot} /\ node'.written = node.written + 1
        /\ node'.claims = node.claims /\ node'.todo = Tail(node.todo)
        /\ node'.child = [node.child EXCEPT !.sphincs = Append(@, node.sphincs[x + 1])]
    BY <2>3, <2>4 DEF Became, Steady, Still
  <2>6. /\ Stage(node.todo[1]) # 1 /\ node.todo[1].do \notin {"publish", "proof"}
        /\ Within(node.todo) /\ Within(node'.todo) /\ ChildFits
    BY <1>1, <1>2, <2>5, AtChild
  <2>7. DOMAIN node.child = ChildFields /\ Listing(node.child.xmss) /\ Listing(node.child.sphincs) /\ Listing(node.child.roots)
        /\ \A i \in DOMAIN node.child.xmss : DOMAIN node.child.xmss[i] = {"at", "keys"} /\ Listing(node.child.xmss[i].keys)
    BY <2>6 DEF ChildFits, ChildFields
  <2>8. DOMAIN node'.child = ChildFields /\ node'.child.xmss = node.child.xmss /\ node'.child.roots = node.child.roots
         /\ node'.child.sphincs = Append(node.child.sphincs, node.sphincs[x + 1])
    BY <2>5, <2>7 DEF ChildFields
  <2>9. /\ \A c : (\E i \in DOMAIN node.child.sphincs : c = node.child.sphincs[i])
                 => \E i \in DOMAIN node'.child.sphincs : c = node'.child.sphincs[i]
        /\ \E i \in DOMAIN node'.child.sphincs : node.sphincs[x + 1] = node'.child.sphincs[i]
        /\ Listing(node'.child.sphincs)
    <3>1. /\ \A c : (\E i \in DOMAIN node.child.sphincs : c = node.child.sphincs[i])
                   => \E i \in DOMAIN Append(node.child.sphincs, node.sphincs[x + 1]) : c = Append(node.child.sphincs, node.sphincs[x + 1])[i]
          /\ \E i \in DOMAIN Append(node.child.sphincs, node.sphincs[x + 1]) :
                node.sphincs[x + 1] = Append(node.child.sphincs, node.sphincs[x + 1])[i]
          /\ Listing(Append(node.child.sphincs, node.sphincs[x + 1]))
      BY <2>7, ListGrows
    <3>2. QED
      BY <2>8, <3>1
  <2>10. /\ DOMAIN node'.child = ChildFields
         /\ Listing(node'.child.xmss) /\ Listing(node'.child.sphincs) /\ Listing(node'.child.roots)
         /\ Len(node'.child.xmss) = Len(node.child.xmss)
         /\ \A i \in DOMAIN node.child.xmss : node'.child.xmss[i].at = node.child.xmss[i].at
         /\ \A i \in DOMAIN node'.child.xmss : DOMAIN node'.child.xmss[i] = {"at", "keys"} /\ Listing(node'.child.xmss[i].keys)
    BY <2>7, <2>8, <2>9
  <2>11. Grows
    BY <2>8, <2>9 DEF Grows, StatesXmss, StatesSphincs, StatesRoot
  <2>12. StatesSphincs(node'.child, node.sphincs[x + 1])
    BY <2>9 DEF StatesSphincs
  <2>13. ChildFits'
    BY <1>2, <2>5, <2>6, <2>7, <2>10, ChildStays
  <2>14. \E place \in 0 .. TotalSlots - 1 :
           place \notin node.cover /\ node'.cover = node.cover \cup {place} /\ node'.written = node.written + 1
           /\ Settled(place)'
    <3>2. \E place \in 0 .. TotalSlots - 1 : place = slot /\ Settled(place)'
      BY <1>2, <2>1, <2>5, <2>6, <2>12, SphincsCovers
    <3>3. QED
      BY <2>1, <2>5, <3>2
  <2>15. Working'
    BY <1>2, <2>5, <2>6, <2>11, <2>13, <2>14, TailKeeps
  <2>16. QED
    BY <2>4, <2>15, WorkingGoesOn
<1>6. QED
  BY <1>4, <1>5

\* A root of a child.
LEMMA ChildRootKeeps == ASSUME AggregationInv, ChildRoot PROVE AggregationInv'
<1>1. node.at = "run" /\ Task.do = "da_index" /\ aggregates' = aggregates /\ ~Task.direct
  BY DEF ChildRoot, Take, Doing
<1>2. Running /\ Working /\ Task = node.todo[1] /\ Task \in TaskSet(Len(node.groups))
      /\ << >> \o Tail(node.todo) = Tail(node.todo)
  BY <1>1, TaskAtWork
<1>3. PICK x \in Entries("da_index") :
        \/ Fault
        \/ /\ Continue(Then([Covering(node, DaBase + x) EXCEPT !.child.roots = Append(@, node.roots[x + 1])], << >>))
           /\ InRegion(x, RootSlots) /\ MayCover(DaBase + x)
  BY DEF ChildRoot, Take, CoversRoot
<1>4. CASE Fault
  BY <1>1, <1>4, FaultKeeps
<1>5. CASE ~Fault
  <2> DEFINE slot == DaBase + x
             n == Then([Covering(node, DaBase + x) EXCEPT !.child.roots = Append(@, node.roots[x + 1])], << >>)
  <2>1. Continue(n) /\ slot \notin node.cover /\ x \in 0 .. RootSlots - 1
    BY <1>3, <1>5 DEF MayCover, InRegion
  <2>2. DOMAIN n = NodeFields /\ n.at = "run" /\ n.honest = node.honest /\ n.hints = node.hints
    BY <1>2 DEF Then, Covering, Running, NodeFields
  <2>3. /\ n.meta = node.meta /\ n.groups = node.groups /\ n.cover = node.cover \cup {slot}
        /\ n.written = node.written + 1 /\ n.claims = node.claims /\ n.todo = Tail(node.todo)
        /\ n.table = node.table /\ n.sphincs = node.sphincs /\ n.roots = node.roots
        /\ n.child = [node.child EXCEPT !.roots = Append(@, node.roots[x + 1])]
    BY <1>2 DEF Then, Covering, Running, NodeFields
  <2> HIDE DEF n
  <2>4. Became(n) /\ GoesOn
    <3>1. Task.do # "proof"
      BY <1>1
    <3>2. QED
      BY <1>1, <1>2, <2>1, <2>2, <3>1, StepGoesOn
  <2>5. /\ Still /\ node'.cover = node.cover \cup {slot} /\ node'.written = node.written + 1
        /\ node'.claims = node.claims /\ node'.todo = Tail(node.todo)
        /\ node'.child = [node.child EXCEPT !.roots = Append(@, node.roots[x + 1])]
    BY <2>3, <2>4 DEF Became, Steady, Still
  <2>6. /\ Stage(node.todo[1]) # 1 /\ node.todo[1].do \notin {"publish", "proof"}
        /\ Within(node.todo) /\ Within(node'.todo) /\ ChildFits
    BY <1>1, <1>2, <2>5, AtChild
  <2>7. DOMAIN node.child = ChildFields /\ Listing(node.child.xmss) /\ Listing(node.child.sphincs) /\ Listing(node.child.roots)
        /\ \A i \in DOMAIN node.child.xmss : DOMAIN node.child.xmss[i] = {"at", "keys"} /\ Listing(node.child.xmss[i].keys)
    BY <2>6 DEF ChildFits, ChildFields
  <2>8. DOMAIN node'.child = ChildFields /\ node'.child.xmss = node.child.xmss /\ node'.child.sphincs = node.child.sphincs
         /\ node'.child.roots = Append(node.child.roots, node.roots[x + 1])
    BY <2>5, <2>7 DEF ChildFields
  <2>9. /\ \A c : (\E i \in DOMAIN node.child.roots : c = node.child.roots[i])
                 => \E i \in DOMAIN node'.child.roots : c = node'.child.roots[i]
        /\ \E i \in DOMAIN node'.child.roots : node.roots[x + 1] = node'.child.roots[i]
        /\ Listing(node'.child.roots)
    <3>1. /\ \A c : (\E i \in DOMAIN node.child.roots : c = node.child.roots[i])
                   => \E i \in DOMAIN Append(node.child.roots, node.roots[x + 1]) : c = Append(node.child.roots, node.roots[x + 1])[i]
          /\ \E i \in DOMAIN Append(node.child.roots, node.roots[x + 1]) : node.roots[x + 1] = Append(node.child.roots, node.roots[x + 1])[i]
          /\ Listing(Append(node.child.roots, node.roots[x + 1]))
      BY <2>7, ListGrows
    <3>2. QED
      BY <2>8, <3>1
  <2>10. /\ DOMAIN node'.child = ChildFields
         /\ Listing(node'.child.xmss) /\ Listing(node'.child.sphincs) /\ Listing(node'.child.roots)
         /\ Len(node'.child.xmss) = Len(node.child.xmss)
         /\ \A i \in DOMAIN node.child.xmss : node'.child.xmss[i].at = node.child.xmss[i].at
         /\ \A i \in DOMAIN node'.child.xmss : DOMAIN node'.child.xmss[i] = {"at", "keys"} /\ Listing(node'.child.xmss[i].keys)
    BY <2>7, <2>8, <2>9
  <2>11. Grows
    BY <2>8, <2>9 DEF Grows, StatesXmss, StatesSphincs, StatesRoot
  <2>12. StatesRoot(node'.child, node.roots[x + 1])
    BY <2>9 DEF StatesRoot
  <2>13. ChildFits'
    BY <1>2, <2>5, <2>6, <2>7, <2>10, ChildStays
  <2>14. \E place \in 0 .. TotalSlots - 1 :
           place \notin node.cover /\ node'.cover = node.cover \cup {place} /\ node'.written = node.written + 1
           /\ Settled(place)'
    <3>2. \E place \in 0 .. TotalSlots - 1 : place = slot /\ Settled(place)'
      BY <1>2, <2>1, <2>5, <2>6, <2>12, RootCovers
    <3>3. QED
      BY <2>1, <2>5, <3>2
  <2>15. Working'
    BY <1>2, <2>5, <2>6, <2>11, <2>13, <2>14, TailKeeps
  <2>16. QED
    BY <2>4, <2>15, WorkingGoesOn
<1>6. QED
  BY <1>4, <1>5

\* The claim a child defers.
LEMMA ChildDeferKeeps == ASSUME AggregationInv, ChildDefer PROVE AggregationInv'
<1>1. node.at = "run" /\ Task.do = "child_defer" /\ aggregates' = aggregates
  BY DEF ChildDefer, Take, Doing
<1>2. Running /\ Working /\ Task = node.todo[1] /\ Task \in TaskSet(Len(node.groups))
      /\ << >> \o Tail(node.todo) = Tail(node.todo)
  BY <1>1, TaskAtWork
<1>3. PICK x \in Entries("child_defer") :
        \/ Fault
        \/ Continue(Then([node EXCEPT !.child.defer = x], << >>))
  BY DEF ChildDefer, Take
<1>4. CASE Fault
  BY <1>1, <1>4, FaultKeeps
<1>5. CASE ~Fault
  <2> DEFINE n == Then([node EXCEPT !.child.defer = x], << >>)
  <2>1. Continue(n)
    BY <1>3, <1>5
  <2>2. DOMAIN n = NodeFields /\ n.at = "run" /\ n.honest = node.honest /\ n.hints = node.hints
    BY <1>2 DEF Then, Covering, Running, NodeFields
  <2>3. /\ n.meta = node.meta /\ n.groups = node.groups /\ n.cover = node.cover
        /\ n.written = node.written /\ n.claims = node.claims /\ n.todo = Tail(node.todo)
        /\ n.table = node.table /\ n.sphincs = node.sphincs /\ n.roots = node.roots
        /\ n.child = [node.child EXCEPT !.defer = x]
    BY <1>2 DEF Then, Covering, Running, NodeFields
  <2> HIDE DEF n
  <2>4. Became(n) /\ GoesOn
    <3>1. Task.do # "proof"
      BY <1>1
    <3>2. QED
      BY <1>1, <1>2, <2>1, <2>2, <3>1, StepGoesOn
  <2>5. /\ Still /\ node'.cover = node.cover /\ node'.written = node.written
        /\ node'.claims = node.claims /\ node'.todo = Tail(node.todo)
        /\ node'.child = [node.child EXCEPT !.defer = x]
    BY <2>3, <2>4 DEF Became, Steady, Still
  <2>6. /\ Stage(node.todo[1]) # 1 /\ node.todo[1].do \notin {"publish", "proof"}
        /\ Within(node.todo) /\ Within(node'.todo) /\ ChildFits
    BY <1>1, <1>2, <2>5, AtChild
  <2>7. DOMAIN node.child = ChildFields /\ Listing(node.child.xmss) /\ Listing(node.child.sphincs) /\ Listing(node.child.roots)
        /\ \A i \in DOMAIN node.child.xmss : DOMAIN node.child.xmss[i] = {"at", "keys"} /\ Listing(node.child.xmss[i].keys)
    BY <2>6 DEF ChildFits, ChildFields
  <2>8. DOMAIN node'.child = ChildFields /\ node'.child.xmss = node.child.xmss
        /\ node'.child.sphincs = node.child.sphincs /\ node'.child.roots = node.child.roots
    BY <2>5, <2>7 DEF ChildFields
  <2>10. /\ DOMAIN node'.child = ChildFields
         /\ Listing(node'.child.xmss) /\ Listing(node'.child.sphincs) /\ Listing(node'.child.roots)
         /\ Len(node'.child.xmss) = Len(node.child.xmss)
         /\ \A i \in DOMAIN node.child.xmss : node'.child.xmss[i].at = node.child.xmss[i].at
         /\ \A i \in DOMAIN node'.child.xmss : DOMAIN node'.child.xmss[i] = {"at", "keys"} /\ Listing(node'.child.xmss[i].keys)
    BY <2>7, <2>8
  <2>11. Grows
    BY <2>8 DEF Grows, StatesXmss, StatesSphincs, StatesRoot
  <2>13. ChildFits'
    BY <1>2, <2>5, <2>6, <2>7, <2>10, ChildStays
  <2>14. node'.cover = node.cover /\ node'.written = node.written
    BY <2>5
  <2>15. Working'
    BY <1>2, <2>5, <2>6, <2>11, <2>13, <2>14, TailKeeps
  <2>16. QED
    BY <2>4, <2>15, WorkingGoesOn
<1>6. QED
  BY <1>4, <1>5

\* An XMSS claim of a child.
LEMMA ChildKeyKeeps == ASSUME AggregationInv, ChildKey PROVE AggregationInv'
<1>1. node.at = "run" /\ Task.do = "child_index" /\ aggregates' = aggregates
  BY DEF ChildKey, Take, Doing
<1>2. Running /\ Working /\ Task = node.todo[1] /\ Task \in TaskSet(Len(node.groups))
      /\ << >> \o Tail(node.todo) = Tail(node.todo)
  BY <1>1, TaskAtWork
<1>3. PICK x \in Entries("child_index") :
        \/ Fault
        \/ /\ Continue(Then([Covering(node, Base(Task.group) + x) EXCEPT
                          !.child.xmss[Len(node.child.xmss)].keys = Append(@, node.table[Base(Task.group) + x])],
                         << >>))
           /\ InRegion(x, GroupSlots(Task.group)) /\ MayCover(Base(Task.group) + x)
  BY DEF ChildKey, Take
<1>4. CASE Fault
  BY <1>1, <1>4, FaultKeeps
<1>5. CASE ~Fault
  <2> DEFINE slot == Base(Task.group) + x
             n == Then([Covering(node, Base(Task.group) + x) EXCEPT
                        !.child.xmss[Len(node.child.xmss)].keys = Append(@, node.table[Base(Task.group) + x])], << >>)
  <2>1. Continue(n) /\ slot \notin node.cover /\ x \in 0 .. GroupSlots(Task.group) - 1
    BY <1>3, <1>5 DEF MayCover, InRegion
  <2>2. DOMAIN n = NodeFields /\ n.at = "run" /\ n.honest = node.honest /\ n.hints = node.hints
    BY <1>2 DEF Then, Covering, Running, NodeFields
  <2>3. /\ n.meta = node.meta /\ n.groups = node.groups /\ n.cover = node.cover \cup {slot}
        /\ n.written = node.written + 1 /\ n.claims = node.claims /\ n.todo = Tail(node.todo)
        /\ n.table = node.table /\ n.sphincs = node.sphincs /\ n.roots = node.roots
        /\ n.child = [node.child EXCEPT !.xmss[Len(node.child.xmss)].keys = Append(@, node.table[slot])]
    BY <1>2 DEF Then, Covering, Running, NodeFields
  <2> HIDE DEF n
  <2>4. Became(n) /\ GoesOn
    <3>1. Task.do # "proof"
      BY <1>1
    <3>2. QED
      BY <1>1, <1>2, <2>1, <2>2, <3>1, StepGoesOn
  <2>5. /\ Still /\ node'.cover = node.cover \cup {slot} /\ node'.written = node.written + 1
        /\ node'.claims = node.claims /\ node'.todo = Tail(node.todo)
        /\ node'.child = [node.child EXCEPT !.xmss[Len(node.child.xmss)].keys = Append(@, node.table[slot])]
    BY <2>3, <2>4 DEF Became, Steady, Still
  <2>6. /\ Stage(node.todo[1]) # 1 /\ node.todo[1].do \notin {"publish", "proof"}
        /\ Within(node.todo) /\ Within(node'.todo) /\ ChildFits
    BY <1>1, <1>2, <2>5, AtChild
  <2>7. DOMAIN node.child = ChildFields /\ Listing(node.child.xmss) /\ Listing(node.child.sphincs) /\ Listing(node.child.roots)
        /\ \A i \in DOMAIN node.child.xmss : DOMAIN node.child.xmss[i] = {"at", "keys"} /\ Listing(node.child.xmss[i].keys)
    BY <2>6 DEF ChildFits, ChildFields
  <2> DEFINE cell == node.table[slot]
             old == node.child.xmss
             m == Len(old)
  <2>a. m \in Nat /\ DOMAIN old = 1 .. m /\ m > 0 /\ old[m].at = node.groups[Task.group].at
    <3>1. m \in Nat /\ DOMAIN old = 1 .. m
      BY <2>7, ListingHas
    <3>2. 1 \in 1 .. Len(node.todo)
      BY <1>2, WorkingTodo
    <3>3. QED
      BY <1>1, <1>2, <2>6, <3>1, <3>2 DEF ChildFits
  <2>b. m \in DOMAIN old
    <3> HIDE DEF m
    <3>1. QED
      BY <2>a
  <2>8. /\ DOMAIN node'.child = ChildFields /\ node'.child.sphincs = node.child.sphincs /\ node'.child.roots = node.child.roots
        /\ node'.child.xmss = [old EXCEPT ![m] = [old[m] EXCEPT !.keys = Append(old[m].keys, cell)]]
    BY <2>5, <2>7, <2>b DEF ChildFields
  <2>c. DOMAIN old[m] = {"at", "keys"} /\ Listing(old[m].keys)
    BY <2>7, <2>b
  <2>d. /\ DOMAIN node'.child.xmss = DOMAIN old
        /\ \A i \in DOMAIN old : i # m => node'.child.xmss[i] = old[i]
        /\ node'.child.xmss[m] = [old[m] EXCEPT !.keys = Append(old[m].keys, cell)]
    <3> HIDE DEF m, old, cell, slot
    <3>1. QED
      BY <2>8, <2>b
  <2>e. /\ DOMAIN node'.child.xmss[m] = {"at", "keys"} /\ node'.child.xmss[m].at = old[m].at
        /\ node'.child.xmss[m].keys = Append(old[m].keys, cell)
    <3> HIDE DEF m, old, cell, slot
    <3>1. QED
      BY <2>c, <2>d
  <2>9. /\ \A c : (\E i \in DOMAIN old[m].keys : c = old[m].keys[i])
                 => \E i \in DOMAIN node'.child.xmss[m].keys : c = node'.child.xmss[m].keys[i]
        /\ \E i \in DOMAIN node'.child.xmss[m].keys : cell = node'.child.xmss[m].keys[i]
        /\ Listing(node'.child.xmss[m].keys)
    <3> HIDE DEF m, old, cell, slot
    <3>1. /\ \A c : (\E i \in DOMAIN old[m].keys : c = old[m].keys[i])
                   => \E i \in DOMAIN Append(old[m].keys, cell) : c = Append(old[m].keys, cell)[i]
          /\ \E i \in DOMAIN Append(old[m].keys, cell) : cell = Append(old[m].keys, cell)[i]
          /\ Listing(Append(old[m].keys, cell))
      BY <2>c, ListGrows
    <3>2. QED
      BY <2>e, <3>1
  <2>f. Listing(node'.child.xmss) /\ Len(node'.child.xmss) = m
    <3>1. node'.child.xmss = [i \in 1 .. m |-> node'.child.xmss[i]]
      BY <2>8, <2>a
    <3>2. DOMAIN node'.child.xmss = 1 .. m /\ m \in Nat
      BY <2>a, <2>d
    <3>3. QED
      BY <3>1, <3>2, ListingOf
  <2>10. /\ DOMAIN node'.child = ChildFields
         /\ Listing(node'.child.xmss) /\ Listing(node'.child.sphincs) /\ Listing(node'.child.roots)
         /\ Len(node'.child.xmss) = Len(node.child.xmss)
         /\ \A i \in DOMAIN node.child.xmss : node'.child.xmss[i].at = node.child.xmss[i].at
         /\ \A i \in DOMAIN node'.child.xmss : DOMAIN node'.child.xmss[i] = {"at", "keys"} /\ Listing(node'.child.xmss[i].keys)
    <3>1. \A i \in DOMAIN old : node'.child.xmss[i].at = old[i].at
      BY <2>d, <2>e
    <3>2. \A i \in DOMAIN old : DOMAIN old[i] = {"at", "keys"} /\ Listing(old[i].keys)
      BY <2>7
    <3>3. \A i \in DOMAIN node'.child.xmss : DOMAIN node'.child.xmss[i] = {"at", "keys"} /\ Listing(node'.child.xmss[i].keys)
      BY <2>d, <2>e, <2>9, <3>2
    <3>4. QED
      BY <2>7, <2>8, <2>f, <3>1, <3>3
  <2>11. Grows
    <3>1. ASSUME NEW c, StatesXmss(node.child, c)
          PROVE  StatesXmss(node'.child, c)
      <4>1. PICK i \in DOMAIN old : \E k \in DOMAIN old[i].keys : c = old[i].at \o <<old[i].keys[k]>>
        BY <3>1 DEF StatesXmss
      <4>2. PICK k \in DOMAIN old[i].keys : c = old[i].at \o <<old[i].keys[k]>>
        BY <4>1
      <4>3. i \in DOMAIN node'.child.xmss /\ node'.child.xmss[i].at = old[i].at
        BY <2>d, <2>e
      <4>4. \E q \in DOMAIN node'.child.xmss[i].keys : old[i].keys[k] = node'.child.xmss[i].keys[q]
        <5>1. CASE i = m
          <6> HIDE DEF m, old, cell, slot
          <6>1. old[m].keys[k] = old[i].keys[k] /\ k \in DOMAIN old[m].keys
            BY <4>2, <5>1
          <6>2. \E q \in DOMAIN node'.child.xmss[m].keys : old[m].keys[k] = node'.child.xmss[m].keys[q]
            BY <2>9, <6>1
          <6>3. QED
            BY <5>1, <6>1, <6>2
        <5>2. CASE i # m
          BY <2>d, <4>2, <5>2
        <5>3. QED
          BY <5>1, <5>2
      <4>5. \E q \in DOMAIN node'.child.xmss[i].keys : c = node'.child.xmss[i].at \o <<node'.child.xmss[i].keys[q]>>
        BY <4>2, <4>3, <4>4
      <4>6. QED
        BY <4>3, <4>5 DEF StatesXmss
    <3>2. QED
      BY <2>8, <3>1 DEF Grows, StatesSphincs, StatesRoot
  <2>12. StatesXmss(node'.child, node.groups[Task.group].at \o <<node.table[Base(Task.group) + x]>>)
    <3>1. m \in DOMAIN node'.child.xmss /\ node'.child.xmss[m].at = node.groups[Task.group].at
      BY <2>a, <2>b, <2>d, <2>e
    <3>2. \E q \in DOMAIN node'.child.xmss[m].keys : cell = node'.child.xmss[m].keys[q]
      BY <2>9
    <3>3. \E q \in DOMAIN node'.child.xmss[m].keys :
            node.groups[Task.group].at \o <<cell>> = node'.child.xmss[m].at \o <<node'.child.xmss[m].keys[q]>>
      BY <3>1, <3>2
    <3>4. QED
      BY <3>1, <3>3 DEF StatesXmss
  <2>13. ChildFits'
    BY <1>2, <2>5, <2>6, <2>7, <2>10, ChildStays
  <2>14. \E place \in 0 .. TotalSlots - 1 :
           place \notin node.cover /\ node'.cover = node.cover \cup {place} /\ node'.written = node.written + 1
           /\ Settled(place)'
    <3>1. Task.group \in DOMAIN node.groups
      <4>1. Task.group \in 1 .. Len(node.groups)
        BY <1>1, <1>2, TaskGroup
      <4>2. Listing(node.groups)
        BY <1>2 DEF Working, GroupsFit
      <4>3. QED
        BY <4>1, <4>2, ListingHas
    <3>2. \E place \in 0 .. TotalSlots - 1 : place = slot /\ Settled(place)'
      BY <1>2, <2>1, <2>5, <2>6, <2>12, <3>1, XmssCovers
    <3>3. QED
      BY <2>1, <2>5, <3>2
  <2>15. Working'
    BY <1>2, <2>5, <2>6, <2>11, <2>13, <2>14, TailKeeps
  <2>16. QED
    BY <2>4, <2>15, WorkingGoesOn
<1>6. QED
  BY <1>4, <1>5

-----------------------------------------------------------------------------
(* A child brings tasks of its own. *)

\* What a list that two make up has is of one of them.
LEMMA ChildPartsAre ==
    ASSUME NEW w, NEW u, NEW t, Precedes(w, u, t), Listing(u), Listing(t)
    PROVE  /\ \A i \in 1 .. Len(w) : (i \in 1 .. Len(u) /\ w[i] = u[i]) \/ \E k \in 1 .. Len(t) : w[i] = t[k]
           /\ Len(u) > 0 => 1 \in 1 .. Len(u) /\ w[1] = u[1]
           /\ Len(u) = 0 /\ Len(t) > 0 => w[1] = t[1]
<1> DEFINE l == Len(w)
           m == Len(u)
           n == Len(t)
<1>1. m \in Nat /\ n \in Nat
  BY ListingHas
<1>2. l = m + n /\ (\A i \in 1 .. m : w[i] = u[i]) /\ \A i \in 1 .. n : w[m + i] = t[i]
  BY DEF Precedes
<1> HIDE DEF l, m, n
<1>3. ASSUME NEW i \in 1 .. l
      PROVE  (i \in 1 .. m /\ w[i] = u[i]) \/ \E k \in 1 .. n : w[i] = t[k]
  <2>1. CASE i \in 1 .. m
    BY <1>2, <2>1
  <2>2. CASE i \notin 1 .. m
    <3>1. i - m \in 1 .. n /\ m + (i - m) = i
      BY <1>1, <1>2, <2>2
    <3>2. w[m + (i - m)] = t[i - m]
      BY <1>2, <3>1
    <3>3. QED
      BY <3>1, <3>2
  <2>3. QED
    BY <2>1, <2>2
<1>4. m > 0 => 1 \in 1 .. m /\ w[1] = u[1]
  BY <1>1, <1>2
<1>5. m = 0 /\ n > 0 => w[1] = t[1]
  <2>1. m = 0 /\ n > 0 => m + 1 = 1 /\ 1 \in 1 .. n
    BY <1>1
  <2>2. QED
    BY <1>2, <2>1
<1>6. QED
  BY <1>3, <1>4, <1>5 DEF l, m, n

\* A task taken that leaves others.
LEMMA MoreKeeps ==
    ASSUME Working, Still, Todo(node'.todo, Len(node.groups)), Stage(node'.todo[1]) # 1, node.meta.children # 0,
           node'.cover = node.cover, node'.written = node.written, node'.claims = node.claims,
           Within(node'.todo) => ChildFits', Within(node.todo) => Within(node'.todo) /\ Grows
    PROVE  Working'
<1>1. Steady /\ node'.groups = node.groups /\ node'.meta = node.meta /\ node'.sphincs = node.sphincs
      /\ node'.roots = node.roots
  BY DEF Still, Steady
<1>2. \A slot : Settled(slot) => Settled(slot)'
  BY SettledStays
<1>3. TotalSlots' = TotalSlots
  BY <1>1, Alike
<1>4. IsFiniteSet(node.cover) /\ Cardinality(node.cover) = node.written /\ node.cover \subseteq 0 .. TotalSlots - 1
       /\ (AllHold(node.claims) => \A slot \in node.cover : Settled(slot))
  BY DEF Working
<1>5. /\ IsFiniteSet(node'.cover) /\ Cardinality(node'.cover) = node'.written /\ node'.cover \subseteq 0 .. TotalSlots' - 1
      /\ (AllHold(node'.claims) => \A slot \in node'.cover : Settled(slot)')
  BY <1>2, <1>3, <1>4
<1>6. MetaFits' /\ GroupsFit'
  BY <1>1 DEF Working, MetaFits, GroupsFit
<1>7. Len(node'.groups) = node'.meta.declared + node'.meta.dropped /\ Listing(node'.claims)
       /\ node'.meta.children # 0 /\ Listing(node'.sphincs) /\ Listing(node'.roots)
  BY <1>1 DEF Working
<1>8. Todo(node'.todo, Len(node'.groups))
  BY <1>1
<1>9. QED
  BY <1>5, <1>6, <1>7, <1>8 DEF Working

\* The epoch and the message of some claims of a child, which are a group of the node's.
LEMMA ChildGroupKeeps ==
    ASSUME AggregationAssumption, AggregationInv, ChildGroup
    PROVE  AggregationInv'
<1>1. node.at = "run" /\ Task.do = "child_group" /\ aggregates' = aggregates
  BY DEF ChildGroup, Take, Doing
<1>2. Running /\ Working /\ Task = node.todo[1] /\ << >> \o Tail(node.todo) = Tail(node.todo)
  BY <1>1, TaskAtWork
<1>3. PICK x \in Entries("child_group") :
        \/ Fault
        \/ /\ Continue(Then([node EXCEPT !.child.xmss = Append(@, [at |-> x.at, keys |-> << >>])],
                            Times(x.n, [do |-> "child_index", group |-> x.parent])))
           /\ x.n \in 1 .. MaxKeys - 1 /\ x.parent \in DOMAIN node.groups /\ node.groups[x.parent].at = x.at
  BY DEF ChildGroup, Take
<1>4. CASE Fault
  BY <1>1, <1>4, FaultKeeps
<1>5. CASE ~Fault
  <2> DEFINE u == Times(x.n, [do |-> "child_index", group |-> x.parent])
             g == [at |-> x.at, keys |-> << >>]
             n == Then([node EXCEPT !.child.xmss = Append(@, g)], u)
             G == Len(node.groups)
             s == node.todo
             t == Tail(node.todo)
  <2>1. Continue(n) /\ x.n \in 1 .. MaxKeys - 1 /\ x.parent \in DOMAIN node.groups /\ node.groups[x.parent].at = x.at
    BY <1>3, <1>5
  <2>2. DOMAIN n = NodeFields /\ n.at = "run" /\ n.honest = node.honest /\ n.hints = node.hints
    BY <1>2 DEF Then, Running, NodeFields
  <2>3. /\ n.meta = node.meta /\ n.groups = node.groups /\ n.cover = node.cover
        /\ n.written = node.written /\ n.claims = node.claims /\ n.todo = u \o t
        /\ n.table = node.table /\ n.sphincs = node.sphincs /\ n.roots = node.roots
        /\ n.child = [node.child EXCEPT !.xmss = Append(@, g)]
    BY <1>2 DEF Then, Running, NodeFields
  <2> HIDE DEF n
  <2>4. Became(n) /\ GoesOn
    <3>1. Task.do # "proof"
      BY <1>1
    <3>2. QED
      BY <1>1, <1>2, <2>1, <2>2, <3>1, StepGoesOn
  <2>5. /\ Still /\ node'.cover = node.cover /\ node'.written = node.written
        /\ node'.claims = node.claims /\ node'.todo = u \o t
        /\ node'.child = [node.child EXCEPT !.xmss = Append(@, g)]
    BY <2>3, <2>4 DEF Became, Steady, Still
  <2>6. Stage(s[1]) = 3 /\ Within(s) /\ s[1].do \notin {"proof", "publish"}
    <3>1. Stage(s[1]) = 3
      BY <1>1, <1>2 DEF Stage, Writes, Subtasks
    <3>2. QED
      BY <1>1, <1>2, <3>1 DEF Within
  <2>7. ChildFits /\ node.meta.children # 0
    <3>1. 1 \in 1 .. Len(s)
      BY <1>2, WorkingTodo
    <3>2. QED
      BY <1>2, <2>6, <3>1 DEF Working
  <2>8. Goes(t, s, G)
    <3>1. Todo(s, G)
      BY <1>2 DEF Working
    <3>2. QED
      BY <2>6, <3>1, TodoTail
  <2>9. x.n \in Nat /\ x.n > 0 /\ x.parent \in 1 .. G
    <3>1. x.n \in Nat /\ x.n > 0
      <4> DEFINE b == x.n
      <4>1. b \in 1 .. MaxKeys - 1 /\ MaxKeys \in Nat
        BY <2>1, AggregationAssumption
      <4> HIDE DEF b
      <4>2. b \in Nat /\ b > 0
        BY <4>1
      <4>3. QED
        BY <4>2 DEF b
    <3>2. Listing(node.groups)
      BY <1>2 DEF Working, GroupsFit
    <3>3. QED
      BY <2>1, <3>1, <3>2, ListingHas
  <2> DEFINE task == [do |-> "child_index", group |-> x.parent]
  <2>10. task \in TaskSet(G) /\ Stage(task) = 2 /\ task.do = "child_index" /\ task.group = x.parent
    <3>1. task \in TaskSet(G)
      <4> DEFINE D == {"pubkeys", "dup_pubkeys", "raw_index", "child_index"} \X (1 .. G)
                 p == <<"child_index", x.parent>>
      <4>1. p \in D /\ task = [do |-> p[1], group |-> p[2]]
        BY <2>9
      <4> HIDE DEF D, task
      <4>2. task \in {[do |-> q[1], group |-> q[2]] : q \in D}
        BY <4>1
      <4>3. QED
        BY <4>2 DEF TaskSet, D
    <3>2. Stage(task) = 2
      BY DEF Stage, Writes
    <3>3. QED
      BY <3>1, <3>2
  <2>11. u \in Seq(TaskSet(G)) /\ Len(u) = x.n /\ \A i \in 1 .. Len(u) : u[i] = task
    <3> HIDE DEF task
    <3>1. Times(x.n, task) \in Seq(TaskSet(G)) /\ Len(Times(x.n, task)) = x.n /\ \A i \in 1 .. x.n : Times(x.n, task)[i] = task
      <4> DEFINE q == x.n
      <4>1. q \in Nat
        BY <2>9
      <4> HIDE DEF q
      <4>2. Times(q, task) \in Seq(TaskSet(G)) /\ Len(Times(q, task)) = q /\ \A i \in 1 .. q : Times(q, task)[i] = task
        <5> DEFINE T == TaskSet(G)
        <5>1. task \in T
          BY <2>10
        <5> HIDE DEF T
        <5>2. [i \in 1 .. q |-> task] \in Seq(T) /\ Len([i \in 1 .. q |-> task]) = q
          BY <4>1, <5>1
        <5>3. QED
          BY <5>2 DEF T, Times
      <4>3. QED
        BY <4>2 DEF q
    <3>2. QED
      BY <3>1 DEF task
  <2>12. Todo(t, G) /\ Stage(s[1]) <= Stage(t[1]) /\ Within(t)
    BY <2>6, <2>8 DEF Goes
  <2> HIDE DEF u, t, task, s
  <2>13. Stage(t[1]) \in {3, 4}
    <3> DEFINE a == Stage(t[1])
    <3>1. a \in {1, 2, 3, 4} /\ 3 <= a
      BY <2>6, <2>12, StageIs
    <3> HIDE DEF a
    <3>2. a \in {3, 4}
      BY <3>1
    <3>3. QED
      BY <3>2 DEF a
  <2>14. Before4(u, t, G)
    <3>1. \A i \in 1 .. Len(u) : Stage(u[i]) = 2 /\ u[i].do = "child_index"
      BY <2>10, <2>11
    <3>2. \A i \in 1 .. Len(u) : Stage(u[i]) <= Stage(t[1])
      <4>1. 2 <= Stage(t[1])
        BY <2>13
      <4>2. QED
        BY <3>1, <4>1
    <3>3. \A i, k \in 1 .. Len(u) : i <= k => Stage(u[i]) <= Stage(u[k])
      <4>1. 2 <= 2
        OBVIOUS
      <4>2. QED
        BY <3>1, <4>1, Zenon
    <3>4. QED
      BY <2>11, <2>12, <3>1, <3>2, <3>3 DEF Before4
  <2>15. Todo(u \o t, G) /\ Precedes(u \o t, u, t)
    BY <2>12, <2>14, TodoMore
  <2>16. Listing(u) /\ Listing(t) /\ t \in Seq(TaskSet(G)) /\ Len(u) > 0
    <3>1. t \in Seq(TaskSet(G))
      BY <2>12 DEF Todo
    <3>2. QED
      BY <2>9, <2>11, <3>1, ListingIs
  <2> DEFINE w == u \o t
  <2>17. /\ \A i \in 1 .. Len(w) : (i \in 1 .. Len(u) /\ w[i] = u[i]) \/ \E k \in 1 .. Len(t) : w[i] = t[k]
         /\ 1 \in 1 .. Len(u) /\ w[1] = u[1]
    BY <2>15, <2>16, ChildPartsAre
  <2> HIDE DEF w
  <2>18. Stage(w[1]) = 2 /\ Within(w)
    BY <2>10, <2>11, <2>17 DEF Within
  <2>19. \A k \in 1 .. Len(t) : t[k].do # "child_index"
    <3>1. \A i, k \in 1 .. Len(t) : i <= k => Stage(t[i]) <= Stage(t[k])
      BY <2>12 DEF Todo, TasksInOrder
    <3>2. ASSUME NEW k \in 1 .. Len(t), t[k].do = "child_index" PROVE FALSE
      <4>1. Stage(t[k]) = 2
        BY <3>2 DEF Stage, Writes
      <4>2. 1 \in 1 .. Len(t) /\ 1 <= k
        BY <2>16
      <4>3. Stage(t[1]) <= 2
        BY <3>1, <4>1, <4>2
      <4>4. QED
        BY <2>13, <4>3
    <3>3. QED
      BY <3>2
  <2>20. \A i \in 1 .. Len(w) : w[i].do = "child_index" => w[i].group = x.parent
    BY <2>10, <2>11, <2>17, <2>19
  <2>21. DOMAIN node.child = ChildFields /\ Listing(node.child.xmss) /\ Listing(node.child.sphincs) /\ Listing(node.child.roots)
         /\ \A i \in DOMAIN node.child.xmss : DOMAIN node.child.xmss[i] = {"at", "keys"} /\ Listing(node.child.xmss[i].keys)
    BY <2>7 DEF ChildFits, ChildFields
  <2>22. /\ DOMAIN node'.child = ChildFields /\ node'.child.sphincs = node.child.sphincs
         /\ node'.child.roots = node.child.roots /\ node'.child.xmss = Append(node.child.xmss, g)
    BY <2>5, <2>21 DEF ChildFields
  <2>23. Extends(node'.child.xmss, node.child.xmss, g) /\ Len(node.child.xmss) \in Nat
         /\ DOMAIN node.child.xmss = 1 .. Len(node.child.xmss)
    BY <2>21, <2>22, ListingAppend, ListingHas
  <2> DEFINE old == node.child.xmss
             new == node'.child.xmss
             m == Len(old)
  <2>24. g.at = node'.groups[x.parent].at /\ DOMAIN g = {"at", "keys"} /\ Listing(g.keys)
    <3>1. node'.groups = node.groups
      BY <2>5 DEF Still, Steady
    <3>2. Listing(<< >>)
      <4>1. << >> \in Seq({})
        OBVIOUS
      <4>2. QED
        BY <4>1, ListingIs
    <3>3. QED
      BY <2>1, <3>1, <3>2
  <2>25. m \in Nat /\ Listing(new) /\ Len(new) = m + 1 /\ new[Len(new)] = g /\ DOMAIN new = 1 .. m + 1
         /\ DOMAIN old = 1 .. m /\ \A i \in 1 .. m : new[i] = old[i]
    BY <2>23 DEF Extends
  <2> HIDE DEF g, old, new, m
  <2>26. new[m + 1] = g /\ Len(new) > 0 /\ \A i \in DOMAIN new : i \in DOMAIN old \/ i = m + 1
    BY <2>25
  <2>27. ChildFits'
    <3>1. \A i \in DOMAIN old : DOMAIN old[i] = {"at", "keys"} /\ Listing(old[i].keys)
      BY <2>21 DEF old
    <3>2. \A i \in DOMAIN new : DOMAIN new[i] = {"at", "keys"} /\ Listing(new[i].keys)
      BY <2>24, <2>25, <2>26, <3>1
    <3>3. \A i \in 1 .. Len(w) : w[i].do = "child_index" => Len(new) > 0 /\ new[Len(new)].at = node'.groups[w[i].group].at
      BY <2>20, <2>24, <2>25, <2>26
    <3>4. node'.todo = w
      BY <2>5 DEF w
    <3>5. Listing(node'.child.sphincs) /\ Listing(node'.child.roots) /\ DOMAIN node'.child = ChildFields
      BY <2>21, <2>22
    <3>6. QED
      BY <2>25, <3>2, <3>3, <3>4, <3>5 DEF ChildFits, ChildFields, new
  <2>28. Grows
    <3>1. ASSUME NEW c, StatesXmss(node.child, c)
          PROVE  StatesXmss(node'.child, c)
      <4>1. PICK i \in DOMAIN old : \E k \in DOMAIN old[i].keys : c = old[i].at \o <<old[i].keys[k]>>
        BY <3>1 DEF StatesXmss, old
      <4>2. i \in DOMAIN new /\ new[i] = old[i]
        BY <2>25
      <4>3. QED
        BY <4>1, <4>2 DEF StatesXmss, new
    <3>2. QED
      BY <2>22, <3>1 DEF Grows, StatesSphincs, StatesRoot
  <2>29. Working'
    <3>1. node'.todo = w /\ Todo(node'.todo, Len(node.groups)) /\ Stage(node'.todo[1]) # 1 /\ Within(node'.todo)
      BY <2>5, <2>15, <2>18 DEF w
    <3>2. QED
      BY <1>2, <2>5, <2>7, <2>27, <2>28, <3>1, MoreKeeps
  <2>30. QED
    BY <2>4, <2>29, WorkingGoesOn
<1>6. QED
  BY <1>4, <1>5

\* The tasks that a child brings.
ChildTasks(x) ==
    Times(x.groups, [do |-> "child_group"]) \o Times(x.sphincs, [do |-> "child_sphincs_index"])
      \o <<[do |-> "child_defer"]>> \o Times(x.roots, [do |-> "da_index", direct |-> FALSE])

\* They are of a child, and its proof is not among them.
LEMMA ChildPieces ==
    ASSUME NEW groups, NEW kids, NEW x, x.groups \in Nat, x.sphincs \in Nat, x.roots \in Nat
    PROVE  Pieces(ChildTasks(x), {3}, groups, kids)
<1> DEFINE a == [do |-> "child_group"]
           b == [do |-> "child_sphincs_index"]
           c == [do |-> "child_defer"]
           d == [do |-> "da_index", direct |-> FALSE]
<1>1. /\ a \in TaskSet(groups) /\ b \in TaskSet(groups) /\ c \in TaskSet(groups) /\ d \in TaskSet(groups)
  <2>1. a \in TaskSet(groups) /\ b \in TaskSet(groups) /\ c \in TaskSet(groups)
    <3>1. \A q \in Subtasks : [do |-> q] \in TaskSet(groups)
      BY DEF TaskSet
    <3>2. QED
      BY <3>1 DEF Subtasks
  <2>2. d \in TaskSet(groups)
    <3>1. FALSE \in BOOLEAN
      OBVIOUS
    <3>2. d \in {[do |-> "da_index", direct |-> q] : q \in BOOLEAN}
      BY <3>1
    <3>3. QED
      BY <3>2 DEF TaskSet
  <2>3. QED
    BY <2>1, <2>2
<1>2. Stage(a) = 3 /\ Stage(b) = 3 /\ Stage(c) = 3 /\ Stage(d) = 3
  BY DEF Stage, Writes, Subtasks
<1>3. /\ a.do \notin {"proof", "publish", "child_meta"} /\ b.do \notin {"proof", "publish", "child_meta"}
      /\ c.do \notin {"proof", "publish", "child_meta"} /\ d.do \notin {"proof", "publish", "child_meta"}
  OBVIOUS
<1> HIDE DEF a, b, c, d
<1>4. Piece(Times(x.groups, a), 3, groups, kids)
  BY <1>1, <1>2, <1>3, PieceTimes
<1>5. Piece(Times(x.sphincs, b), 3, groups, kids)
  BY <1>1, <1>2, <1>3, PieceTimes
<1>6. Piece(<<c>>, 3, groups, kids)
  <2>1. <<c>> \in Seq(TaskSet(groups))
    BY <1>1
  <2>2. \A i \in 1 .. Len(<<c>>) : <<c>>[i] = c
    OBVIOUS
  <2>3. QED
    BY <1>2, <1>3, <2>1, <2>2 DEF Piece
<1>7. Piece(Times(x.roots, d), 3, groups, kids)
  BY <1>1, <1>2, <1>3, PieceTimes
<1>8. {3} \in SUBSET {1, 2, 3, 4} /\ {3} \cup {3} = {3} /\ 3 \in {1, 2, 3, 4} /\ \A e \in {3} : e <= 3
  OBVIOUS
<1> DEFINE A == Times(x.groups, a)
           B == Times(x.sphincs, b)
           C == <<c>>
           D == Times(x.roots, d)
<1> HIDE DEF A, B, C, D
<1>9. Pieces(A, {3}, groups, kids)
  BY <1>4, <1>8, PiecesFirst DEF A
<1>10. Pieces(A \o B, {3}, groups, kids)
  <2>1. Pieces(A \o B, {3} \cup {3}, groups, kids)
    BY <1>5, <1>8, <1>9, PiecesMore, Zenon DEF B
  <2>2. QED
    BY <1>8, <2>1
<1>11. Pieces((A \o B) \o C, {3}, groups, kids)
  <2>1. Pieces((A \o B) \o C, {3} \cup {3}, groups, kids)
    BY <1>6, <1>8, <1>10, PiecesMore, Zenon DEF C
  <2>2. QED
    BY <1>8, <2>1
<1>12. Pieces(((A \o B) \o C) \o D, {3}, groups, kids)
  <2>1. Pieces(((A \o B) \o C) \o D, {3} \cup {3}, groups, kids)
    BY <1>7, <1>8, <1>11, PiecesMore, Zenon DEF D
  <2>2. QED
    BY <1>8, <2>1
<1>13. QED
  BY <1>12 DEF ChildTasks, A, B, C, D, a, b, c, d

\* They come before what is left for the last stage, the proof between them.
LEMMA ChildInOrder ==
    ASSUME NEW groups, NEW kids, NEW u, Pieces(u, {3}, groups, kids), NEW t, Todo(t, groups), Stage(t[1]) = 4
    PROVE  LET w == (u \o <<[do |-> "proof"]>>) \o t
           IN  /\ Todo(w, groups) /\ Stage(w[1]) = 3
               /\ \A i \in 1 .. Len(w) : w[i].do # "child_index"
<1> DEFINE p == [do |-> "proof"]
           w == (u \o <<p>>) \o t
           v == <<p>> \o t
           T == TaskSet(groups)
<1>1. u \in Seq(T) /\ t \in Seq(T)
  BY DEF Pieces, Todo
<1>2. Todo(v, groups) /\ Precedes(v, <<p>>, t)
  BY TodoProof
<1>3. p \in T
  <2>1. "proof" \in Subtasks
    BY DEF Subtasks
  <2>2. QED
    BY <2>1 DEF TaskSet
<1> HIDE DEF T, p
<1>4. <<p>> \in Seq(T) /\ Len(<<p>>) = 1 /\ <<p>>[1] = p
  BY <1>3
<1>5. w = u \o v
  BY <1>1, <1>4, ConcatAssociative
<1>6. v[1] = p /\ Len(v) > 0
  <2>1. \A i \in 1 .. Len(<<p>>) : v[i] = <<p>>[i]
    BY <1>2 DEF Precedes
  <2>2. 1 \in 1 .. Len(<<p>>)
    BY <1>4
  <2>3. QED
    BY <1>2, <1>4, <2>1, <2>2 DEF Todo
<1>7. Stage(p) = 3 /\ p.do = "proof"
  BY DEF p, Stage, Writes, Subtasks
<1> HIDE DEF v
<1>8. Within(v)
  BY <1>6, <1>7 DEF Within
<1>9. \A i \in 1 .. Len(u) : Stage(u[i]) = 3 /\ u[i].do \notin {"proof", "publish"}
  BY DEF Pieces
<1>10. Before4(u, v, groups)
  <2>1. \A i, k \in 1 .. Len(u) : i <= k => Stage(u[i]) <= Stage(u[k])
    BY DEF Pieces
  <2>2. Stage(v[1]) = 3 /\ 3 <= 3
    BY <1>6, <1>7
  <2>3. \A i \in 1 .. Len(u) : Stage(u[i]) <= Stage(v[1])
    BY <1>9, <2>2
  <2>4. QED
    BY <1>1, <1>8, <1>9, <2>1, <2>3 DEF Before4, T
<1>11. Todo(u \o v, groups) /\ Precedes(u \o v, u, v)
  BY <1>2, <1>10, TodoMore
<1>12. Listing(u) /\ Listing(v) /\ Listing(t) /\ Listing(<<p>>) /\ Len(u) \in Nat
  <2>1. v \in Seq(T)
    BY <1>2 DEF Todo, T
  <2>2. Listing(v) /\ Listing(u)
    BY <1>1, <2>1, ListingIs, Zenon
  <2>3. Listing(t) /\ Listing(<<p>>)
    BY <1>1, <1>4, ListingIs, Zenon
  <2>4. Len(u) \in Nat
    BY <1>1
  <2>5. QED
    BY <2>2, <2>3, <2>4
<1> HIDE DEF w
<1>13. /\ \A i \in 1 .. Len(w) : (i \in 1 .. Len(u) /\ w[i] = u[i]) \/ \E k \in 1 .. Len(v) : w[i] = v[k]
       /\ Len(u) > 0 => 1 \in 1 .. Len(u) /\ w[1] = u[1]
       /\ Len(u) = 0 /\ Len(v) > 0 => w[1] = v[1]
  BY <1>5, <1>11, <1>12, ChildPartsAre
<1>14. \A i \in 1 .. Len(v) : (i \in 1 .. Len(<<p>>) /\ v[i] = <<p>>[i]) \/ \E k \in 1 .. Len(t) : v[i] = t[k]
  BY <1>2, <1>12, ChildPartsAre DEF v
<1>15. Stage(w[1]) = 3
  <2>1. CASE Len(u) > 0
    BY <1>9, <1>13, <2>1
  <2>2. CASE Len(u) = 0
    BY <1>6, <1>7, <1>13, <2>2
  <2>3. QED
    BY <1>12, <2>1, <2>2
<1>16. \A k \in 1 .. Len(t) : t[k].do # "child_index"
  <2>1. \A i, k \in 1 .. Len(t) : i <= k => Stage(t[i]) <= Stage(t[k])
    BY DEF Todo, TasksInOrder
  <2>2. ASSUME NEW k \in 1 .. Len(t), t[k].do = "child_index" PROVE FALSE
    <3>1. Stage(t[k]) = 2
      BY <2>2 DEF Stage, Writes
    <3>2. 1 \in 1 .. Len(t) /\ 1 <= k
      BY <1>1
    <3>3. Stage(t[1]) <= 2
      BY <2>1, <3>1, <3>2
    <3>4. QED
      BY <3>3
  <2>3. QED
    BY <2>2
<1>17. \A i \in 1 .. Len(u) : u[i].do # "child_index"
  <2>1. \A task : task.do = "child_index" => Stage(task) = 2
    BY DEF Stage, Writes
  <2>2. QED
    BY <1>9, <2>1
<1>18. \A i \in 1 .. Len(<<p>>) : <<p>>[i] = p /\ p.do # "child_index"
  BY <1>4, <1>7
<1>19. \A i \in 1 .. Len(w) : w[i].do # "child_index"
  <2>1. ASSUME NEW k \in 1 .. Len(v) PROVE v[k].do # "child_index"
    <3>1. CASE k \in 1 .. Len(<<p>>) /\ v[k] = <<p>>[k]
      BY <1>18, <3>1
    <3>2. CASE \E n \in 1 .. Len(t) : v[k] = t[n]
      BY <1>16, <3>2, Zenon
    <3>3. QED
      BY <1>14, <3>1, <3>2
  <2>2. ASSUME NEW i \in 1 .. Len(w) PROVE w[i].do # "child_index"
    <3>1. CASE i \in 1 .. Len(u) /\ w[i] = u[i]
      BY <1>17, <3>1
    <3>2. CASE \E n \in 1 .. Len(v) : w[i] = v[n]
      BY <2>1, <3>2, Zenon
    <3>3. QED
      BY <1>13, <3>1, <3>2
  <2>3. QED
    BY <2>2
<1>20. Todo(w, groups)
  BY <1>5, <1>11
<1>21. QED
  BY <1>15, <1>19, <1>20 DEF w, p

\* The counts of a child.
LEMMA ChildMetaKeeps ==
    ASSUME AggregationAssumption, AggregationInv, ChildMeta
    PROVE  AggregationInv'
<1>1. node.at = "run" /\ Task.do = "child_meta" /\ aggregates' = aggregates
  BY DEF ChildMeta, Take, Doing
<1>2. Running /\ Working /\ Task = node.todo[1] /\ << >> \o Tail(node.todo) = Tail(node.todo)
  BY <1>1, TaskAtWork
<1>3. PICK x \in Entries("child_meta") :
        \/ Fault
        \/ /\ Continue(Then([node EXCEPT !.child = Statement(<< >>, << >>, << >>, LeafClaim)],
                            ChildTasks(x) \o <<[do |-> "proof"]>>))
           /\ x.groups \in 0 .. MaxEpochs /\ x.sphincs \in 0 .. MaxKeys - 1 /\ x.roots \in 0 .. MaxDaRoots
  BY DEF ChildMeta, Take, ChildTasks
<1>4. CASE Fault
  BY <1>1, <1>4, FaultKeeps
<1>5. CASE ~Fault
  <2> DEFINE e == Statement(<< >>, << >>, << >>, LeafClaim)
             u == ChildTasks(x)
             n == Then([node EXCEPT !.child = e], u \o <<[do |-> "proof"]>>)
             G == Len(node.groups)
             s == node.todo
             t == Tail(node.todo)
             w == (u \o <<[do |-> "proof"]>>) \o t
  <2>1. Continue(n) /\ x.groups \in 0 .. MaxEpochs /\ x.sphincs \in 0 .. MaxKeys - 1 /\ x.roots \in 0 .. MaxDaRoots
    BY <1>3, <1>5
  <2>2. DOMAIN n = NodeFields /\ n.at = "run" /\ n.honest = node.honest /\ n.hints = node.hints
    BY <1>2 DEF Then, Running, NodeFields
  <2>3. /\ n.meta = node.meta /\ n.groups = node.groups /\ n.cover = node.cover
        /\ n.written = node.written /\ n.claims = node.claims /\ n.todo = w
        /\ n.table = node.table /\ n.sphincs = node.sphincs /\ n.roots = node.roots
        /\ n.child = e
    BY <1>2 DEF Then, Running, NodeFields
  <2> HIDE DEF n
  <2>4. Became(n) /\ GoesOn
    <3>1. Task.do # "proof"
      BY <1>1
    <3>2. QED
      BY <1>1, <1>2, <2>1, <2>2, <3>1, StepGoesOn
  <2>5. /\ Still /\ node'.cover = node.cover /\ node'.written = node.written
        /\ node'.claims = node.claims /\ node'.todo = w /\ node'.child = e
    BY <2>3, <2>4 DEF Became, Steady, Still
  <2>6. Stage(s[1]) = 4 /\ ~Within(s) /\ s[1].do \notin {"proof", "publish"}
    BY <1>1, <1>2, AtLast
  <2>7. node.meta.children # 0
    <3>1. 1 \in 1 .. Len(s)
      BY <1>2, WorkingTodo
    <3>2. QED
      BY <1>1, <1>2, <3>1 DEF Working
  <2>8. Goes(t, s, G)
    <3>1. Todo(s, G)
      BY <1>2 DEF Working
    <3>2. QED
      BY <2>6, <3>1, TodoTail
  <2>9. Todo(t, G) /\ Stage(t[1]) = 4
    <3> DEFINE a == Stage(t[1])
    <3>1. a \in {1, 2, 3, 4} /\ 4 <= a
      BY <2>6, <2>8, StageIs DEF Goes
    <3> HIDE DEF a
    <3>2. a = 4
      BY <3>1
    <3>3. QED
      BY <2>8, <3>2 DEF Goes, a
  <2>10. x.groups \in Nat /\ x.sphincs \in Nat /\ x.roots \in Nat
    <3> DEFINE a == x.groups
               b == x.sphincs
               c == x.roots
    <3>1. a \in 0 .. MaxEpochs /\ b \in 0 .. MaxKeys - 1 /\ c \in 0 .. MaxDaRoots
          /\ MaxEpochs \in Nat /\ MaxKeys \in Nat /\ MaxDaRoots \in Nat
      BY <2>1, AggregationAssumption
    <3> HIDE DEF a, b, c
    <3>2. a \in Nat /\ b \in Nat /\ c \in Nat
      BY <3>1
    <3>3. QED
      BY <3>2 DEF a, b, c
  <2>11. Pieces(u, {3}, G, TRUE)
    BY <2>10, ChildPieces
  <2> HIDE DEF u, t
  <2>12. Todo(w, G) /\ Stage(w[1]) = 3 /\ \A i \in 1 .. Len(w) : w[i].do # "child_index"
    BY <2>9, <2>11, ChildInOrder
  <2> HIDE DEF w, s
  <2>13. DOMAIN e = ChildFields /\ e.xmss = << >> /\ e.sphincs = << >> /\ e.roots = << >> /\ Listing(<< >>) /\ DOMAIN << >> = {}
    <3>1. << >> \in Seq({})
      OBVIOUS
    <3>2. Listing(<< >>)
      BY <3>1, ListingIs
    <3>3. QED
      BY <3>2 DEF Statement, ChildFields
  <2> HIDE DEF e
  <2>14. ChildFits'
    BY <2>5, <2>12, <2>13 DEF ChildFits, ChildFields
  <2>15. Working'
    <3>1. Stage(node'.todo[1]) # 1 /\ Todo(node'.todo, Len(node.groups)) /\ ~Within(node.todo)
      BY <2>5, <2>6, <2>12 DEF s
    <3>2. QED
      BY <1>2, <2>5, <2>7, <2>14, <3>1, MoreKeeps
  <2>16. QED
    BY <2>4, <2>15, WorkingGoesOn
<1>6. QED
  BY <1>4, <1>5

-----------------------------------------------------------------------------
(* A child is verified. *)

\* What is of a child whose claims are backed is settled without it.
LEMMA BackedSettles ==
    ASSUME Still, NEW slot, Settled(slot), Within(node.todo) => Backed(node.child)
    PROVE  Settled(slot)'
<1>1. node'.groups = node.groups /\ node'.table = node.table /\ node'.sphincs = node.sphincs /\ node'.roots = node.roots
  BY DEF Still, Steady
<1>2. /\ \A j : Base(j)' = Base(j) /\ GroupSlots(j)' = GroupSlots(j)
      /\ XmssSlots' = XmssSlots /\ SphincsSlots' = SphincsSlots /\ RootSlots' = RootSlots /\ DaBase' = DaBase
  BY Alike DEF Still
<1>3. \A c : Within(node.todo) /\ StatesXmss(node.child, c) => c \in XmssSigned
  BY DEF Backed, StatesXmss
<1>4. \A c : Within(node.todo) /\ StatesSphincs(node.child, c) => c \in SphincsSigned
  BY DEF Backed, StatesSphincs
<1>5. \A c : Within(node.todo) /\ StatesRoot(node.child, c) => DaVerify(c)
  BY DEF Backed, StatesRoot
<1>6. CASE XmssSettled(slot)
  <2>1. PICK j \in DOMAIN node.groups :
          /\ slot \in Base(j) .. Base(j) + GroupSlots(j) - 1
          /\ \/ node.groups[j].at \o <<node.table[slot]>> \in XmssSigned
             \/ Within(node.todo) /\ StatesXmss(node.child, node.groups[j].at \o <<node.table[slot]>>)
    BY <1>6 DEF XmssSettled
  <2>2. slot \in Base(j)' .. Base(j)' + GroupSlots(j)' - 1
    BY <1>2, <2>1
  <2>3. node'.groups[j].at \o <<node'.table[slot]>> \in XmssSigned
    BY <1>1, <1>3, <2>1
  <2>4. XmssSettled(slot)'
    BY <1>1, <2>2, <2>3 DEF XmssSettled
  <2>5. QED
    BY <2>4 DEF Settled
<1>7. CASE SphincsSettled(slot)
  <2>1. PICK r \in 0 .. SphincsSlots - 1 :
          /\ slot = XmssSlots + r
          /\ node.sphincs[r + 1] \in SphincsSigned \/ (Within(node.todo) /\ StatesSphincs(node.child, node.sphincs[r + 1]))
    BY <1>7 DEF SphincsSettled
  <2>2. node'.sphincs[r + 1] \in SphincsSigned
    BY <1>1, <1>4, <2>1
  <2>3. SphincsSettled(slot)'
    BY <1>2, <2>1, <2>2 DEF SphincsSettled
  <2>4. QED
    BY <2>3 DEF Settled
<1>8. CASE RootSettled(slot)
  <2>1. PICK r \in 0 .. RootSlots - 1 :
          /\ slot = DaBase + r
          /\ DaVerify(node.roots[r + 1]) \/ (Within(node.todo) /\ StatesRoot(node.child, node.roots[r + 1]))
    BY <1>8 DEF RootSettled
  <2>2. DaVerify(node'.roots[r + 1])
    BY <1>1, <1>5, <2>1
  <2>3. RootSettled(slot)'
    BY <1>2, <2>1, <2>2 DEF RootSettled
  <2>4. QED
    BY <2>3 DEF Settled
<1>9. QED
  BY <1>6, <1>7, <1>8 DEF Settled

\* A proof that a prover takes is of a run that was, or is nobody's.
LEMMA ProofTaken ==
    ASSUME Running, NEW x \in Entries("proof")
    PROVE  /\ x.ran => Shows(x.of)
           /\ node.honest => node.hints["proof"] # << >>
<1>1. x = MadeUp \/ \E a \in aggregates : x = a.proof
  <2>1. CASE node.honest
    <3> DEFINE s == node.hints["proof"]
    <3>1. s # << >> /\ x = Head(s)
      BY <2>1 DEF Entries
    <3>2. Listing(s) /\ \A i \in DOMAIN s : \E a \in aggregates : s[i] = a.proof
      BY <2>1 DEF Running, HintsFit
    <3> HIDE DEF s
    <3> DEFINE C == {s[i] : i \in DOMAIN s}
    <3>3. s \in Seq(C)
      BY <3>2 DEF Listing
    <3> HIDE DEF C
    <3>4. 1 \in DOMAIN s /\ Head(s) = s[1]
      BY <3>1, <3>3
    <3>5. QED
      BY <3>1, <3>2, <3>4
  <2>2. CASE ~node.honest
    BY <2>2 DEF Entries
  <2>3. QED
    BY <2>1, <2>2
<1>2. ~MadeUp.ran
  BY DEF MadeUp
<1>3. \A a \in aggregates : a.proof.ran => Shows(a.proof.of)
  BY DEF Running, ProofsShow
<1>4. node.honest => node.hints["proof"] # << >>
  BY DEF Entries
<1>5. QED
  BY <1>1, <1>2, <1>3, <1>4

\* Two more claims hold if all do, and those before them.
LEMMA TwoMore ==
    ASSUME NEW claims, Listing(claims), NEW c, NEW d
    PROVE  /\ Listing(claims \o <<c, d>>)
           /\ AllHold(claims \o <<c, d>>) => AllHold(claims) /\ c.holds /\ d.holds
<1> DEFINE w == claims \o <<c, d>>
           k == Len(claims)
<1>1. Listing(<<c, d>>) /\ Len(<<c, d>>) = 2 /\ <<c, d>>[1] = c /\ <<c, d>>[2] = d
  <2>1. <<c, d>> \in Seq({c, d})
    OBVIOUS
  <2>2. QED
    BY <2>1, ListingIs
<1>2. Precedes(w, claims, <<c, d>>)
  BY <1>1, ListingConcat
<1>3. k \in Nat /\ DOMAIN claims = 1 .. k
  BY ListingHas
<1>4. /\ Listing(w) /\ DOMAIN w = 1 .. k + 2
      /\ \A i \in 1 .. k : w[i] = claims[i]
      /\ \A i \in 1 .. 2 : w[k + i] = <<c, d>>[i]
  BY <1>1, <1>2 DEF Precedes
<1> HIDE DEF w, k
<1>5. 1 \in 1 .. 2 /\ 2 \in 1 .. 2 /\ k + 1 \in 1 .. k + 2 /\ k + 2 \in 1 .. k + 2 /\ \A i \in 1 .. k : i \in 1 .. k + 2
  BY <1>3
<1>6. w[k + 1] = c /\ w[k + 2] = d
  BY <1>1, <1>4, <1>5
<1>7. AllHold(w) => AllHold(claims)
  BY <1>3, <1>4, <1>5 DEF AllHold
<1>8. AllHold(w) => c.holds /\ d.holds
  <2>1. AllHold(w) => w[k + 1].holds /\ w[k + 2].holds
    BY <1>4, <1>5 DEF AllHold
  <2>2. QED
    BY <1>6, <2>1
<1>9. QED
  BY <1>4, <1>7, <1>8 DEF w

\* The proof of a child.
LEMMA VerifySubKeeps == ASSUME AggregationInv, VerifySub PROVE AggregationInv'
<1>1. node.at = "run" /\ Task.do = "proof" /\ aggregates' = aggregates
  BY DEF VerifySub, Take, Doing
<1>2. Running /\ Working /\ Task = node.todo[1] /\ << >> \o Tail(node.todo) = Tail(node.todo)
  BY <1>1, TaskAtWork
<1>3. PICK x \in Entries("proof") :
        \/ Fault
        \/ Continue(Then([node EXCEPT !.claims = @ \o <<GenVerify(node.child, x).defer, node.child.defer>>], << >>))
  BY DEF VerifySub, Take
<1>4. CASE Fault
  BY <1>1, <1>4, FaultKeeps
<1>5. CASE ~Fault
  <2> DEFINE fresh == GenVerify(node.child, x).defer
             carried == node.child.defer
             n == Then([node EXCEPT !.claims = @ \o <<fresh, carried>>], << >>)
             s == node.todo
             t == Tail(node.todo)
  <2>1. Continue(n)
    BY <1>3, <1>5
  <2>2. DOMAIN n = NodeFields /\ n.at = "run" /\ n.honest = node.honest /\ n.hints = node.hints
    BY <1>2 DEF Then, Running, NodeFields
  <2>3. /\ n.meta = node.meta /\ n.groups = node.groups /\ n.cover = node.cover
        /\ n.written = node.written /\ n.claims = node.claims \o <<fresh, carried>> /\ n.todo = t
        /\ n.table = node.table /\ n.sphincs = node.sphincs /\ n.roots = node.roots
    BY <1>2 DEF Then, Running, NodeFields
  <2> HIDE DEF n
  <2>a. (x.ran => Shows(x.of)) /\ (node.honest => node.hints["proof"] # << >>)
    BY <1>2, ProofTaken
  <2>4. Became(n) /\ GoesOn
    BY <1>1, <1>2, <2>1, <2>2, <2>a, StepGoesOn
  <2>5. /\ Still /\ node'.cover = node.cover /\ node'.written = node.written
        /\ node'.claims = node.claims \o <<fresh, carried>> /\ node'.todo = t
    BY <2>3, <2>4 DEF Became, Steady, Still
  <2>6. Stage(s[1]) = 3 /\ s[1].do = "proof"
    BY <1>1, <1>2 DEF Stage, Writes, Subtasks
  <2>7. Goes(t, s, Len(node.groups))
    <3>1. Todo(s, Len(node.groups)) /\ s[1].do # "publish"
      BY <1>2, <2>6 DEF Working
    <3>2. QED
      BY <3>1, TodoTail
  <2>8. Todo(t, Len(node.groups)) /\ Stage(t[1]) = 4 /\ ~Within(t)
    <3>1. Todo(t, Len(node.groups)) /\ Stage(t[1]) = 4
      BY <2>6, <2>7 DEF Goes
    <3> HIDE DEF t
    <3>2. ~Within(t)
      BY <3>1 DEF Within
    <3>3. QED
      BY <3>1, <3>2
  <2>9. node.meta.children # 0
    <3>1. 1 \in 1 .. Len(s)
      BY <1>2, WorkingTodo
    <3>2. QED
      BY <1>2, <2>6, <3>1 DEF Working
  <2>10. /\ Listing(node'.claims)
         /\ AllHold(node'.claims) => AllHold(node.claims) /\ fresh.holds /\ carried.holds
    <3>1. Listing(node.claims)
      BY <1>2 DEF Working
    <3> HIDE DEF fresh, carried
    <3>2. QED
      BY <2>5, <3>1, TwoMore
  <2>11. fresh.holds => x.ran /\ x.of = node.child
    BY DEF GenVerify, VmVerify
  <2>12. AllHold(node'.claims) => Backed(node.child)
    BY <2>10, <2>11, <2>a DEF Shows
  <2> HIDE DEF fresh, carried, t
  <2>13. AllHold(node'.claims) => \A slot \in node'.cover : Settled(slot)'
    <3>1. SUFFICES ASSUME AllHold(node'.claims), NEW slot \in node'.cover PROVE Settled(slot)'
      OBVIOUS
    <3>2. Settled(slot)
      BY <1>2, <2>5, <2>10, <3>1 DEF Working
    <3>3. Backed(node.child)
      BY <2>12, <3>1
    <3>4. QED
      BY <2>5, <3>2, <3>3, BackedSettles
  <2>14. Steady /\ node'.groups = node.groups /\ node'.meta = node.meta /\ node'.sphincs = node.sphincs
         /\ node'.roots = node.roots
    BY <2>5 DEF Still, Steady
  <2>15. TotalSlots' = TotalSlots
    BY <2>14, Alike
  <2>16. IsFiniteSet(node'.cover) /\ Cardinality(node'.cover) = node'.written /\ node'.cover \subseteq 0 .. TotalSlots' - 1
    BY <1>2, <2>5, <2>15 DEF Working
  <2>17. MetaFits' /\ GroupsFit'
    BY <1>2, <2>14 DEF Working, MetaFits, GroupsFit
  <2>18. Len(node'.groups) = node'.meta.declared + node'.meta.dropped
         /\ node'.meta.children # 0 /\ Listing(node'.sphincs) /\ Listing(node'.roots)
    BY <1>2, <2>9, <2>14 DEF Working
  <2>19. Todo(node'.todo, Len(node'.groups)) /\ ~Within(node'.todo) /\ Stage(node'.todo[1]) # 1
    BY <2>5, <2>8, <2>14
  <2>20. Working'
    BY <2>10, <2>13, <2>16, <2>17, <2>18, <2>19 DEF Working
  <2>21. QED
    BY <2>4, <2>20, WorkingGoesOn
<1>6. QED
  BY <1>4, <1>5

-----------------------------------------------------------------------------
(* The end of a run. *)

\* As many slots as there are, covered each once, are all of them.
LEMMA AllCovered ==
    ASSUME NEW C, NEW T \in Nat, IsFiniteSet(C), Cardinality(C) = T, C \subseteq 0 .. T - 1
    PROVE  C = 0 .. T - 1
<1>1. IsFiniteSet(0 .. T - 1) /\ Cardinality(0 .. T - 1) = T
  <2>1. 0 \in Int /\ T - 1 \in Int
    OBVIOUS
  <2>2. IsFiniteSet(0 .. T - 1) /\ Cardinality(0 .. T - 1) = IF 0 > T - 1 THEN 0 ELSE (T - 1) - 0 + 1
    BY <2>1, FS_Interval
  <2>3. (IF 0 > T - 1 THEN 0 ELSE (T - 1) - 0 + 1) = T
    OBVIOUS
  <2>4. QED
    BY <2>2, <2>3
<1>2. QED
  BY <1>1, FS_Subset

\* What is left to do when all is done.
LEMMA AtPublish ==
    ASSUME Working, node.todo[1].do = "publish"
    PROVE  ~Within(node.todo)
<1>1. Stage(node.todo[1]) = 4
  BY StageIs
<1>2. QED
  BY <1>1 DEF Within

\* Then every slot is of a claim that is backed.
LEMMA XmssBacked ==
    ASSUME Working, ~Within(node.todo), NEW j \in DOMAIN node.groups, NEW slot \in Base(j) .. Base(j) + GroupSlots(j) - 1,
           Settled(slot)
    PROVE  node.groups[j].at \o <<node.table[slot]>> \in XmssSigned
<1>1. RegionsLie /\ Listing(node.groups)
  BY Regions DEF Working, GroupsFit
<1>2. Base(j) \in Nat /\ GroupSlots(j) \in Nat /\ Base(j) + GroupSlots(j) <= XmssSlots /\ XmssSlots \in Nat
      /\ SphincsSlots \in Nat /\ RootSlots \in Nat /\ DaBase = XmssSlots + SphincsSlots
  BY <1>1 DEF RegionsLie
<1>3. slot < XmssSlots /\ slot < DaBase /\ slot \in Nat
  <2> DEFINE b == Base(j)
             g == GroupSlots(j)
             x == XmssSlots
             y == SphincsSlots
             d == DaBase
  <2>1. b \in Nat /\ g \in Nat /\ b + g <= x /\ x \in Nat /\ y \in Nat /\ d = x + y /\ slot \in b .. b + g - 1
    BY <1>2
  <2> HIDE DEF b, g, x, y, d
  <2>2. slot < x /\ slot < d /\ slot \in Nat
    BY <2>1
  <2>3. QED
    BY <2>2 DEF x, d
<1>4. ~SphincsSettled(slot)
  <2>1. ASSUME NEW r \in 0 .. SphincsSlots - 1, slot = XmssSlots + r PROVE FALSE
    <3> DEFINE x == XmssSlots
               y == SphincsSlots
    <3>1. x \in Nat /\ y \in Nat /\ slot < x /\ slot = x + r /\ r \in 0 .. y - 1
      BY <1>2, <1>3, <2>1
    <3> HIDE DEF x, y
    <3>2. QED
      BY <3>1
  <2>2. QED
    BY <2>1 DEF SphincsSettled
<1>5. ~RootSettled(slot)
  <2>1. ASSUME NEW r \in 0 .. RootSlots - 1, slot = DaBase + r PROVE FALSE
    <3> DEFINE x == DaBase
               y == RootSlots
               z == XmssSlots + SphincsSlots
    <3>1. x = z /\ z \in Nat /\ y \in Nat /\ slot < x /\ slot = x + r /\ r \in 0 .. y - 1
      BY <1>2, <1>3, <2>1
    <3> HIDE DEF x, y, z
    <3>2. QED
      BY <3>1
  <2>2. QED
    BY <2>1 DEF RootSettled
<1>6. PICK k \in DOMAIN node.groups :
        slot \in Base(k) .. Base(k) + GroupSlots(k) - 1 /\ node.groups[k].at \o <<node.table[slot]>> \in XmssSigned
  BY <1>4, <1>5 DEF Settled, XmssSettled
<1>7. k = j
  <2>1. j \in Nat /\ k \in Nat
    <3>1. DOMAIN node.groups = 1 .. Len(node.groups) /\ Len(node.groups) \in Nat
      BY <1>1, ListingHas
    <3> DEFINE l == Len(node.groups)
    <3>2. j \in 1 .. l /\ k \in 1 .. l /\ l \in Nat
      BY <1>6, <3>1
    <3> HIDE DEF l
    <3>3. QED
      BY <3>2
  <2>2. /\ j < k => Base(j) + GroupSlots(j) <= Base(k)
        /\ k < j => Base(k) + GroupSlots(k) <= Base(j)
        /\ Base(k) \in Nat /\ GroupSlots(k) \in Nat
    BY <1>1, <1>6 DEF RegionsLie
  <2> DEFINE b == Base(j)
             g == GroupSlots(j)
             c == Base(k)
             h == GroupSlots(k)
  <2>3. /\ b \in Nat /\ g \in Nat /\ c \in Nat /\ h \in Nat /\ slot \in b .. b + g - 1 /\ slot \in c .. c + h - 1
        /\ (j < k => b + g <= c) /\ (k < j => c + h <= b)
    BY <1>2, <1>6, <2>2
  <2> HIDE DEF b, g, c, h
  <2>4. QED
    BY <2>1, <2>3
<1>8. QED
  BY <1>6, <1>7

\* So for the SPHINCS region.
LEMMA SphincsBacked ==
    ASSUME Working, ~Within(node.todo), NEW r \in 0 .. SphincsSlots - 1, NEW slot, slot = XmssSlots + r, Settled(slot)
    PROVE  node.sphincs[r + 1] \in SphincsSigned
<1>1. RegionsLie
  BY Regions DEF Working
<1>2. XmssSlots \in Nat /\ SphincsSlots \in Nat /\ RootSlots \in Nat /\ DaBase = XmssSlots + SphincsSlots
  BY <1>1 DEF RegionsLie
<1>3. ~XmssSettled(slot)
  <2>1. ASSUME NEW j \in DOMAIN node.groups, slot \in Base(j) .. Base(j) + GroupSlots(j) - 1 PROVE FALSE
    <3>1. Base(j) \in Nat /\ GroupSlots(j) \in Nat /\ Base(j) + GroupSlots(j) <= XmssSlots
      BY <1>1 DEF RegionsLie
    <3> DEFINE b == Base(j)
               g == GroupSlots(j)
               x == XmssSlots
               y == SphincsSlots
    <3>2. b \in Nat /\ g \in Nat /\ b + g <= x /\ x \in Nat /\ y \in Nat /\ r \in 0 .. y - 1 /\ slot = x + r
          /\ slot \in b .. b + g - 1
      BY <1>2, <2>1, <3>1
    <3> HIDE DEF b, g, x, y
    <3>3. QED
      BY <3>2
  <2>2. QED
    BY <2>1 DEF XmssSettled
<1>4. ~RootSettled(slot)
  <2>1. ASSUME NEW q \in 0 .. RootSlots - 1, slot = DaBase + q PROVE FALSE
    <3> DEFINE x == XmssSlots
               y == SphincsSlots
               z == RootSlots
    <3>1. x \in Nat /\ y \in Nat /\ z \in Nat /\ r \in 0 .. y - 1 /\ slot = x + r /\ q \in 0 .. z - 1 /\ slot = (x + y) + q
      BY <1>2, <2>1
    <3> HIDE DEF x, y, z
    <3>2. QED
      BY <3>1
  <2>2. QED
    BY <2>1 DEF RootSettled
<1>5. PICK q \in 0 .. SphincsSlots - 1 : slot = XmssSlots + q /\ node.sphincs[q + 1] \in SphincsSigned
  BY <1>3, <1>4 DEF Settled, SphincsSettled
<1>6. q = r
  <2> DEFINE x == XmssSlots
             y == SphincsSlots
  <2>1. x \in Nat /\ y \in Nat /\ q \in 0 .. y - 1 /\ r \in 0 .. y - 1 /\ x + q = x + r
    BY <1>2, <1>5
  <2> HIDE DEF x, y
  <2>2. QED
    BY <2>1
<1>7. QED
  BY <1>5, <1>6

\* So for the roots.
LEMMA RootBacked ==
    ASSUME Working, ~Within(node.todo), NEW r \in 0 .. RootSlots - 1, NEW slot, slot = DaBase + r, Settled(slot)
    PROVE  DaVerify(node.roots[r + 1])
<1>1. RegionsLie
  BY Regions DEF Working
<1>2. XmssSlots \in Nat /\ SphincsSlots \in Nat /\ RootSlots \in Nat /\ DaBase = XmssSlots + SphincsSlots
  BY <1>1 DEF RegionsLie
<1>3. ~XmssSettled(slot)
  <2>1. ASSUME NEW j \in DOMAIN node.groups, slot \in Base(j) .. Base(j) + GroupSlots(j) - 1 PROVE FALSE
    <3>1. Base(j) \in Nat /\ GroupSlots(j) \in Nat /\ Base(j) + GroupSlots(j) <= XmssSlots
      BY <1>1 DEF RegionsLie
    <3> DEFINE b == Base(j)
               g == GroupSlots(j)
               x == XmssSlots
               y == SphincsSlots
               z == RootSlots
    <3>2. b \in Nat /\ g \in Nat /\ b + g <= x /\ x \in Nat /\ y \in Nat /\ z \in Nat /\ r \in 0 .. z - 1
          /\ slot = (x + y) + r /\ slot \in b .. b + g - 1
      BY <1>2, <2>1, <3>1
    <3> HIDE DEF b, g, x, y, z
    <3>3. QED
      BY <3>2
  <2>2. QED
    BY <2>1 DEF XmssSettled
<1>4. ~SphincsSettled(slot)
  <2>1. ASSUME NEW q \in 0 .. SphincsSlots - 1, slot = XmssSlots + q PROVE FALSE
    <3> DEFINE x == XmssSlots
               y == SphincsSlots
               z == RootSlots
    <3>1. x \in Nat /\ y \in Nat /\ z \in Nat /\ q \in 0 .. y - 1 /\ slot = x + q /\ r \in 0 .. z - 1 /\ slot = (x + y) + r
      BY <1>2, <2>1
    <3> HIDE DEF x, y, z
    <3>2. QED
      BY <3>1
  <2>2. QED
    BY <2>1 DEF SphincsSettled
<1>5. PICK q \in 0 .. RootSlots - 1 : slot = DaBase + q /\ DaVerify(node.roots[q + 1])
  BY <1>3, <1>4 DEF Settled, RootSettled
<1>6. q = r
  <2> DEFINE d == XmssSlots + SphincsSlots
             z == RootSlots
  <2>1. d \in Nat /\ z \in Nat /\ q \in 0 .. z - 1 /\ r \in 0 .. z - 1 /\ d + q = d + r
    BY <1>2, <1>5
  <2> HIDE DEF d, z
  <2>2. QED
    BY <2>1
<1>7. QED
  BY <1>5, <1>6

\* A list begins with another.
LEMMA BeginsWith ==
    ASSUME NEW s, NEW n \in Nat
    PROVE  DOMAIN SubSeq(s, 1, n) = 1 .. n /\ \A i \in 1 .. n : SubSeq(s, 1, n)[i] = s[i]
OBVIOUS

\* A node's statement, all slots covered, is backed.
LEMMA OwnStatementShows ==
    ASSUME Working, ~Within(node.todo), node.written = TotalSlots, NEW leaf
    PROVE  Shows(OwnStatement(leaf))
<1> DEFINE S == OwnStatement(leaf)
           D == node.meta.declared
<1>1. MetaFits /\ GroupsFit /\ Len(node.groups) = node.meta.declared + node.meta.dropped
  BY DEF Working
<1>2. D \in Nat /\ node.meta.dropped \in Nat /\ node.meta.sphincs \in Nat /\ node.meta.sphincsDups \in Nat
      /\ node.meta.roots \in Nat /\ node.meta.rootDups \in Nat
  BY <1>1 DEF MetaFits
<1>3. \A j \in 1 .. D : j \in DOMAIN node.groups /\ node.groups[j].n \in Nat /\ node.groups[j].dups \in Nat
  <2>1. DOMAIN node.groups = 1 .. Len(node.groups)
    BY <1>1, ListingHas DEF GroupsFit
  <2> DEFINE l == Len(node.groups)
             o == node.meta.dropped
  <2>2. l = D + o /\ D \in Nat /\ o \in Nat
    BY <1>1, <1>2
  <2> HIDE DEF l, o, D
  <2>3. \A j \in 1 .. D : j \in 1 .. l
    BY <2>2
  <2>4. \A j \in 1 .. D : j \in DOMAIN node.groups
    BY <2>1, <2>3 DEF l
  <2>5. QED
    BY <1>1, <2>4 DEF GroupsFit
<1>4. RegionsLie
  BY <1>1, Regions
<1>5. node.cover = 0 .. TotalSlots - 1
  <2>1. TotalSlots \in Nat
    <3>1. XmssSlots \in Nat /\ SphincsSlots \in Nat /\ RootSlots \in Nat
          /\ DaBase = XmssSlots + SphincsSlots /\ TotalSlots = DaBase + RootSlots
      BY <1>4 DEF RegionsLie
    <3>2. QED
      BY <3>1
  <2>2. IsFiniteSet(node.cover) /\ Cardinality(node.cover) = TotalSlots /\ node.cover \subseteq 0 .. TotalSlots - 1
    BY DEF Working
  <2>3. QED
    BY <2>1, <2>2, AllCovered
<1>6. /\ S.xmss = [j \in 1 .. D |-> [at |-> node.groups[j].at, keys |-> Keys(j)]]
      /\ S.sphincs = SubSeq(node.sphincs, 1, node.meta.sphincs)
      /\ S.roots = SubSeq(node.roots, 1, node.meta.roots)
      /\ S.defer = IF node.meta.children = 0 THEN leaf ELSE Batched(node.claims)
  BY DEF OwnStatement, Statement
<1> HIDE DEF S
<1>7. Listed(S)
  <2>1. Listing(S.xmss) /\ DOMAIN S.xmss = 1 .. D /\ \A j \in 1 .. D : S.xmss[j].keys = Keys(j)
    <3>1. DOMAIN S.xmss = 1 .. D /\ S.xmss = [j \in 1 .. D |-> S.xmss[j]]
      BY <1>6
    <3>2. Listing(S.xmss)
      BY <1>2, <3>1, ListingOf
    <3>3. QED
      BY <1>6, <3>1, <3>2
  <2>2. ASSUME NEW j \in 1 .. D PROVE Listing(Keys(j))
    <3> DEFINE k == Keys(j)
    <3>1. DOMAIN k = 1 .. node.groups[j].n /\ k = [i \in 1 .. node.groups[j].n |-> k[i]] /\ node.groups[j].n \in Nat
      BY <1>3 DEF Keys
    <3> HIDE DEF k
    <3>2. Listing(k)
      BY <3>1, ListingOf
    <3>3. QED
      BY <3>2 DEF k
  <2>3. QED
    BY <2>1, <2>2 DEF Listed
<1>8. S.defer.holds => AllHold(node.claims)
  <2>1. CASE node.meta.children = 0
    <3>1. node.claims = << >>
      BY <2>1 DEF Working
    <3>2. QED
      BY <3>1 DEF AllHold
  <2>2. CASE node.meta.children # 0
    BY <1>6, <2>2 DEF AllHold, Batched
  <2>3. QED
    BY <2>1, <2>2
<1>9. ASSUME S.defer.holds PROVE Backed(S)
  <2>1. \A slot \in 0 .. TotalSlots - 1 : Settled(slot)
    BY <1>5, <1>8, <1>9 DEF Working
  <2>2. ASSUME NEW j \in 1 .. D, NEW i \in 1 .. node.groups[j].n
        PROVE  S.xmss[j].at \o <<S.xmss[j].keys[i]>> \in XmssSigned
    <3>1. PICK slot : slot = Base(j) + i - 1
      OBVIOUS
    <3>2. S.xmss[j].at = node.groups[j].at /\ S.xmss[j].keys[i] = node.table[slot]
      BY <1>6, <3>1 DEF Keys
    <3>3. slot \in Base(j) .. Base(j) + GroupSlots(j) - 1 /\ slot \in 0 .. TotalSlots - 1
      <4>1. Base(j) \in Nat /\ Base(j) + GroupSlots(j) <= XmssSlots /\ XmssSlots \in Nat /\ SphincsSlots \in Nat
            /\ RootSlots \in Nat /\ DaBase = XmssSlots + SphincsSlots /\ TotalSlots = DaBase + RootSlots
        BY <1>3, <1>4 DEF RegionsLie
      <4>2. GroupSlots(j) = node.groups[j].n + node.groups[j].dups
        BY DEF GroupSlots
      <4> DEFINE b == Base(j)
                 g == GroupSlots(j)
                 x == XmssSlots
                 y == SphincsSlots
                 z == RootSlots
                 e == node.groups[j].n
                 o == node.groups[j].dups
                 a == TotalSlots
      <4>3. b \in Nat /\ b + g <= x /\ x \in Nat /\ y \in Nat /\ z \in Nat /\ a = (x + y) + z /\ g = e + o
            /\ e \in Nat /\ o \in Nat /\ i \in 1 .. e /\ slot = b + i - 1
        BY <1>3, <3>1, <4>1, <4>2
      <4> HIDE DEF b, g, x, y, z, e, o, a
      <4>4. slot \in b .. b + g - 1 /\ slot \in 0 .. a - 1
        BY <4>3
      <4>5. QED
        BY <4>4 DEF b, g, a
    <3>4. node.groups[j].at \o <<node.table[slot]>> \in XmssSigned
      BY <1>3, <2>1, <3>3, XmssBacked
    <3>5. QED
      BY <3>2, <3>4
  <2>3. \A j \in DOMAIN S.xmss : \A i \in DOMAIN S.xmss[j].keys : S.xmss[j].at \o <<S.xmss[j].keys[i]>> \in XmssSigned
    <3>1. \A j \in 1 .. D : DOMAIN S.xmss[j].keys = 1 .. node.groups[j].n
      BY <1>6 DEF Keys
    <3>2. DOMAIN S.xmss = 1 .. D
      BY <1>6
    <3>3. QED
      BY <2>2, <3>1, <3>2
  <2>4. \A i \in DOMAIN S.sphincs : S.sphincs[i] \in SphincsSigned
    <3>1. DOMAIN S.sphincs = 1 .. node.meta.sphincs /\ \A i \in 1 .. node.meta.sphincs : S.sphincs[i] = node.sphincs[i]
      BY <1>2, <1>6, BeginsWith
    <3>2. ASSUME NEW i \in 1 .. node.meta.sphincs PROVE node.sphincs[i] \in SphincsSigned
      <4>1. PICK r : r = i - 1
        OBVIOUS
      <4>2. PICK slot : slot = XmssSlots + r
        OBVIOUS
      <4>3. r \in 0 .. SphincsSlots - 1 /\ r + 1 = i /\ slot \in 0 .. TotalSlots - 1
        <5>1. XmssSlots \in Nat /\ SphincsSlots \in Nat
              /\ RootSlots \in Nat /\ DaBase = XmssSlots + SphincsSlots /\ TotalSlots = DaBase + RootSlots
          BY <1>4 DEF RegionsLie
        <5>2. SphincsSlots = node.meta.sphincs + node.meta.sphincsDups
          BY DEF SphincsSlots
        <5> DEFINE x == XmssSlots
                   y == SphincsSlots
                   z == RootSlots
                   e == node.meta.sphincs
                   o == node.meta.sphincsDups
                   a == TotalSlots
        <5>3. x \in Nat /\ y \in Nat /\ z \in Nat /\ a = (x + y) + z /\ y = e + o /\ e \in Nat /\ o \in Nat
              /\ i \in 1 .. e /\ r = i - 1 /\ slot = x + r
          BY <1>2, <4>1, <4>2, <5>1, <5>2
        <5> HIDE DEF x, y, z, e, o, a
        <5>4. r \in 0 .. y - 1 /\ r + 1 = i /\ slot \in 0 .. a - 1
          BY <5>3
        <5>5. QED
          BY <5>4 DEF y, a
      <4>4. node.sphincs[r + 1] \in SphincsSigned
        BY <2>1, <4>2, <4>3, SphincsBacked
      <4>5. QED
        BY <4>3, <4>4
    <3>3. QED
      BY <3>1, <3>2
  <2>5. \A i \in DOMAIN S.roots : DaVerify(S.roots[i])
    <3>1. DOMAIN S.roots = 1 .. node.meta.roots /\ \A i \in 1 .. node.meta.roots : S.roots[i] = node.roots[i]
      BY <1>2, <1>6, BeginsWith
    <3>2. ASSUME NEW i \in 1 .. node.meta.roots PROVE DaVerify(node.roots[i])
      <4>1. PICK r : r = i - 1
        OBVIOUS
      <4>2. PICK slot : slot = DaBase + r
        OBVIOUS
      <4>3. r \in 0 .. RootSlots - 1 /\ r + 1 = i /\ slot \in 0 .. TotalSlots - 1
        <5>1. XmssSlots \in Nat /\ SphincsSlots \in Nat
              /\ RootSlots \in Nat /\ DaBase = XmssSlots + SphincsSlots /\ TotalSlots = DaBase + RootSlots
          BY <1>4 DEF RegionsLie
        <5>2. RootSlots = node.meta.roots + node.meta.rootDups
          BY DEF RootSlots
        <5> DEFINE x == XmssSlots
                   y == SphincsSlots
                   d == DaBase
                   z == RootSlots
                   e == node.meta.roots
                   o == node.meta.rootDups
                   a == TotalSlots
        <5>3. x \in Nat /\ y \in Nat /\ z \in Nat /\ d = x + y /\ a = d + z /\ z = e + o /\ e \in Nat /\ o \in Nat
              /\ i \in 1 .. e /\ r = i - 1 /\ slot = d + r
          BY <1>2, <4>1, <4>2, <5>1, <5>2
        <5> HIDE DEF x, y, z, e, o, a, d
        <5>4. r \in 0 .. z - 1 /\ r + 1 = i /\ slot \in 0 .. a - 1
          BY <5>3
        <5>5. QED
          BY <5>4 DEF z, a
      <4>4. DaVerify(node.roots[r + 1])
        BY <2>1, <4>2, <4>3, RootBacked
      <4>5. QED
        BY <4>3, <4>4
    <3>3. QED
      BY <3>1, <3>2
  <2>6. QED
    BY <2>3, <2>4, <2>5 DEF Backed
<1>10. QED
  BY <1>7, <1>9 DEF Shows, S

\* The proof is made.
LEMMA PublishKeeps == ASSUME AggregationInv, Publish PROVE AggregationInv'
<1>1. node.at = "run" /\ Task.do = "publish"
  BY DEF Publish, Doing
<1>2. Running /\ Working /\ Task = node.todo[1]
  BY <1>1, TaskAtWork
<1>3. PICK leaf :
        \/ /\ node.written = TotalSlots /\ node' = NoRun
           /\ aggregates' = aggregates \cup {Made(OwnStatement(leaf))}
        \/ Fault /\ aggregates' = aggregates
  BY DEF Publish
<1>4. CASE Fault /\ aggregates' = aggregates
  BY <1>4, FaultKeeps
<1>5. CASE node.written = TotalSlots /\ node' = NoRun /\ aggregates' = aggregates \cup {Made(OwnStatement(leaf))}
  <2> DEFINE S == OwnStatement(leaf)
             a == Made(S)
  <2>1. Shows(S)
    <3>1. ~Within(node.todo)
      BY <1>1, <1>2, AtPublish
    <3>2. QED
      BY <1>2, <1>5, <3>1, OwnStatementShows
  <2> HIDE DEF S
  <2>2. DOMAIN a = AggregateFields /\ a.proof.of = S
    BY DEF Made, ProofOf, AggregateFields
  <2>3. \A b \in aggregates : DOMAIN b = AggregateFields /\ (b.proof.ran => Shows(b.proof.of))
    BY <1>2 DEF Running, ProofsShow
  <2>4. aggregates' = aggregates \cup {a}
    BY <1>5 DEF S
  <2> HIDE DEF a
  <2>5. ProofsShow'
    BY <2>1, <2>2, <2>3, <2>4 DEF ProofsShow
  <2>6. QED
    BY <1>5, <2>5 DEF AggregationInv, NodeOk
<1>6. QED
  BY <1>3, <1>4, <1>5

-----------------------------------------------------------------------------
(* Runs begin, and all else. *)

\* A run of the guest that begins.
LEMMA RunBegins ==
    ASSUME AggregationInv, aggregates' = aggregates, NEW honest \in BOOLEAN, NEW hints, NEW announced,
           node' = Run(honest, hints, announced),
           honest => /\ "proof" \in DOMAIN hints /\ Listing(hints["proof"])
                     /\ \A i \in DOMAIN hints["proof"] : \E a \in aggregates : hints["proof"][i] = a.proof
    PROVE  AggregationInv'
<1>1. ProofsShow'
  BY DEF AggregationInv, ProofsShow
<1>2. /\ node'.at = "run" /\ DOMAIN node' = NodeFields /\ node'.honest = honest /\ node'.hints = hints
      /\ node'.cover = {} /\ node'.written = 0 /\ node'.table = << >> /\ node'.sphincs = << >> /\ node'.roots = << >>
      /\ node'.claims = << >> /\ node'.todo = <<[do |-> "meta"]>> /\ node'.groups = << >>
  BY DEF Run, NodeFields
<1>3. HintsFit'
  BY <1>2 DEF HintsFit
<1>4. Listing(<< >>) /\ DOMAIN << >> = {}
  <2>1. << >> \in Seq({}) /\ DOMAIN << >> = {}
    OBVIOUS
  <2>2. Listing(<< >>)
    BY <2>1, ListingIs, Zenon
  <2>3. QED
    BY <2>1, <2>2
<1>5. GroupsFit'
  BY <1>2, <1>4 DEF GroupsFit
<1>6. SettingUp'
  BY <1>2, <1>5 DEF SettingUp
<1>7. QED
  BY <1>1, <1>2, <1>3, <1>6 DEF AggregationInv, NodeOk

\* The proofs that aggregate hints are the children's.
LEMMA ProofHints ==
    ASSUME NEW call, NEW plan, NEW roots
    PROVE  /\ "proof" \in DOMAIN BuildHints(call, plan, roots)
           /\ BuildHints(call, plan, roots)["proof"] = [c \in DOMAIN call.children |-> Subs(call.children)[c].proof]
BY Zenon DEF BuildHints

\* What has come over the wire has its claims and its proof.
LEMMA PartsStay ==
    ASSUME NEW a, DOMAIN a = AggregateFields
    PROVE  /\ FromParts(a).proof = a.proof /\ FromParts(a).xmss = a.xmss /\ FromParts(a).sphincs = a.sphincs
           /\ FromParts(a).roots = a.roots /\ FromParts(a).defer = Recompute(a.defer.point)
BY DEF FromParts, AggregateFields

\* A call of aggregate.
LEMMA AggregateKeeps ==
    ASSUME AggregationInv, NEW c, NEW children \in Children, Aggregate(c, children)
    PROVE  AggregationInv'
<1> DEFINE kids == [k \in DOMAIN children |-> FromParts(children[k])]
           call == Asked(c, kids)
           plan == PlanCoverage(call.xmss, call.sphincs, call.children, call.declare)
           hints == BuildHints(call, plan, RootsOf(call, Available(call)))
<1>1. node = NoRun /\ aggregates' = aggregates /\ Planned(call, plan)
  BY DEF Aggregate
<1>2. call.children = kids
  BY DEF Asked
<1> HIDE DEF plan
<1>3. node' = node \/ node' = Run(TRUE, hints, Announced(call, plan))
  BY <1>1 DEF Planned
<1>4. CASE node' = node
  BY <1>1, <1>4 DEF AggregationInv, NodeOk, ProofsShow
<1>5. CASE node' = Run(TRUE, hints, Announced(call, plan))
  <2>1. Listing(children) /\ \A k \in DOMAIN children : children[k] \in aggregates
    <3>1. children \in Seq(aggregates)
      <4>1. CASE children = << >>
        BY <4>1
      <4>2. CASE \E a \in aggregates : children = <<a>>
        BY <4>2
      <4>3. CASE \E a, b \in aggregates : children = <<a, b>>
        BY <4>3
      <4>4. children \in aggregates \X aggregates => \E a, b \in aggregates : children = <<a, b>>
        OBVIOUS
      <4>5. QED
        BY <4>1, <4>2, <4>3, <4>4 DEF Children
    <3>2. QED
      BY <3>1, ListingIs
  <2>2. \A a \in aggregates : DOMAIN a = AggregateFields
    BY DEF AggregationInv, ProofsShow
  <2>3. DOMAIN children = 1 .. Len(children) /\ Len(children) \in Nat
    BY <2>1, ListingHas
  <2>4. "proof" \in DOMAIN hints /\ hints["proof"] = [k \in DOMAIN kids |-> Subs(kids)[k].proof]
    BY <1>2, ProofHints
  <2>5. \A k \in DOMAIN kids : Subs(kids)[k].proof = kids[k].proof
    BY DEF Subs, GenVerify
  <2>6. \A k \in DOMAIN children : kids[k].proof = children[k].proof
    BY <2>1, <2>2, PartsStay
  <2> DEFINE p == hints["proof"]
  <2>7. DOMAIN p = DOMAIN children /\ \A k \in DOMAIN children : p[k] = children[k].proof
    BY <2>4, <2>5, <2>6
  <2>8. p = [k \in 1 .. Len(children) |-> p[k]]
    BY <2>3, <2>4
  <2> HIDE DEF p
  <2>9. Listing(p)
    BY <2>3, <2>7, <2>8, ListingOf
  <2>10. \A k \in DOMAIN p : \E a \in aggregates : p[k] = a.proof
    BY <2>1, <2>7
  <2> HIDE DEF hints, call
  <2>11. QED
    BY <1>1, <1>5, <2>4, <2>9, <2>10, RunBegins DEF p
<1>6. QED
  BY <1>3, <1>4, <1>5

\* A prover of its own.
LEMMA ForeignKeeps == ASSUME AggregationInv, Foreign PROVE AggregationInv'
<1>1. aggregates' = aggregates /\ \E plot : node' = Run(FALSE, plot, << >>)
  BY DEF Foreign
<1>2. PICK plot : node' = Run(FALSE, plot, << >>)
  BY <1>1
<1>3. QED
  BY <1>1, <1>2, RunBegins

\* Another list on a proof.
LEMMA RelabelKeeps ==
    ASSUME AggregationInv, NEW a \in aggregates, NEW stated, Relabel(a, stated)
    PROVE  AggregationInv'
<1> DEFINE b == [a EXCEPT !.xmss = GroupsOf(ClaimsOf(@) \cup {stated})]
<1>1. node = NoRun /\ node' = node /\ aggregates' = aggregates \cup {b}
  BY DEF Relabel
<1>2. \A d \in aggregates : DOMAIN d = AggregateFields /\ (d.proof.ran => Shows(d.proof.of))
  BY DEF AggregationInv, ProofsShow
<1>3. DOMAIN b = AggregateFields /\ b.proof = a.proof
  BY <1>2 DEF AggregateFields
<1> HIDE DEF b
<1>4. ProofsShow'
  BY <1>1, <1>2, <1>3 DEF ProofsShow
<1>5. QED
  BY <1>1, <1>4 DEF AggregationInv, NodeOk

\* Nothing happens.
LEMMA AggregationStays == ASSUME AggregationInv, UNCHANGED aggregationVars PROVE AggregationInv'
<1>1. node' = node /\ aggregates' = aggregates
  BY DEF aggregationVars
<1>2. ProofsShow' /\ HintsFit' = HintsFit
  BY <1>1 DEF AggregationInv, ProofsShow, HintsFit
<1>3. SettingUp' = SettingUp
  BY <1>1 DEF SettingUp, GroupsFit, MetaFits
<1>4. ASSUME Working PROVE Working'
  <2>1. Steady /\ Still /\ Grows
    BY <1>1 DEF Steady, Still, Grows
  <2>2. \A slot : Settled(slot) => Settled(slot)'
    BY <1>1, <2>1, SettledStays
  <2>3. TotalSlots' = TotalSlots
    BY <2>1, Alike
  <2>4. MetaFits' = MetaFits /\ GroupsFit' = GroupsFit /\ ChildFits' = ChildFits
    BY <1>1 DEF MetaFits, GroupsFit, ChildFits
  <2>5. AllHold(node.claims) => \A slot \in node'.cover : Settled(slot)'
    BY <1>1, <1>4, <2>2 DEF Working
  <2>6. node.cover \subseteq 0 .. TotalSlots' - 1
    BY <1>4, <2>3 DEF Working
  <2>7. QED
    BY <1>1, <1>4, <2>4, <2>5, <2>6 DEF Working
<1>5. NodeOk'
  BY <1>1, <1>2, <1>3, <1>4 DEF AggregationInv, NodeOk
<1>6. QED
  BY <1>2, <1>5 DEF AggregationInv

\* Every step of an aggregation.
LEMMA AggregationStep ==
    ASSUME AggregationAssumption, AggregationInv, AggregationNext
    PROVE  AggregationInv'
<1>1. CASE \E c \in Calls, children \in Children : Aggregate(c, children)
  BY <1>1, AggregateKeeps
<1>2. CASE Meta \/ Group \/ Geometry
  BY <1>2, MetaKeeps, GroupKeeps, GeometryKeeps
<1>3. CASE DaRoot \/ Pubkey \/ DupPubkey \/ SphincsSigner \/ DupSphincs
  BY <1>3, DaRootKeeps, PubkeyKeeps, DupPubkeyKeeps, SphincsSignerKeeps, DupSphincsKeeps
<1>4. CASE RawXmss \/ RawSphincs \/ DirectRoot
  BY <1>4, RawXmssKeeps, RawSphincsKeeps, DirectRootKeeps
<1>5. CASE ChildMeta \/ ChildGroup \/ ChildKey \/ ChildSphincs \/ ChildDefer \/ ChildRoot \/ VerifySub
  BY <1>5, ChildMetaKeeps, ChildGroupKeeps, ChildKeyKeeps, ChildSphincsKeeps, ChildDeferKeeps, ChildRootKeeps, VerifySubKeeps
<1>6. CASE Publish \/ Foreign
  BY <1>6, PublishKeeps, ForeignKeeps
<1>7. CASE \E a \in aggregates, stated \in Unsigned : Relabel(a, stated)
  BY <1>7, RelabelKeeps
<1>8. QED
  BY <1>1, <1>2, <1>3, <1>4, <1>5, <1>6, <1>7 DEF AggregationNext

-----------------------------------------------------------------------------
(* What is accepted is backed. *)

\* The claims of a list whose groups' claims are all of a set.
LEMMA ClaimsIn ==
    ASSUME NEW groups, Listing(groups), NEW S,
           \A j \in DOMAIN groups : Listing(groups[j].keys)
             /\ \A k \in DOMAIN groups[j].keys : groups[j].at \o <<groups[j].keys[k]>> \in S
    PROVE  ClaimsOf(groups) \subseteq S
<1> DEFINE n == Len(groups)
           seqs == [j \in DOMAIN groups |-> GroupClaims(groups[j])]
<1>1. n \in Nat /\ DOMAIN groups = 1 .. n
  BY ListingHas
<1>2. ASSUME NEW j \in DOMAIN groups PROVE GroupClaims(groups[j]) \in Seq(S)
  <2> DEFINE g == groups[j]
             m == Len(g.keys)
  <2>1. m \in Nat /\ DOMAIN g.keys = 1 .. m
    BY ListingHas
  <2>2. \A k \in DOMAIN g.keys : g.at \o <<g.keys[k]>> \in S
    OBVIOUS
  <2> HIDE DEF g, m
  <2>3. GroupClaims(g) \in [1 .. m -> S]
    BY <2>1, <2>2 DEF GroupClaims
  <2>4. GroupClaims(g) \in Seq(S)
    BY <2>1, <2>3
  <2>5. QED
    BY <2>4 DEF g
<1>3. seqs \in [1 .. n -> Seq(S)]
  BY <1>1, <1>2
<1> HIDE DEF n, seqs
<1>4. FlattenSeq(seqs) \in Seq(S)
  BY <1>1, <1>3, FlatIn
<1> DEFINE f == FlattenSeq(seqs)
<1> HIDE DEF f
<1>5. f \in Seq(S)
  BY <1>4 DEF f
<1>6. ToSet(f) \subseteq S
  BY <1>5 DEF ToSet
<1>7. QED
  BY <1>6 DEF ClaimsOf, ClaimList, f, seqs

\* What a verified statement claims.
LEMMA VerifiedIsBacked ==
    ASSUME NEW a, NEW b, b.xmss = a.xmss, b.sphincs = a.sphincs, b.roots = a.roots, Verify(b),
           b.proof.ran => Shows(b.proof.of)
    PROVE  /\ ClaimsOf(a.xmss) \subseteq XmssSigned
           /\ ToSet(a.sphincs) \subseteq SphincsSigned
           /\ ToSet(a.roots) \subseteq Codewords
<1> DEFINE P == PublicInput(b)
<1>1. P.xmss = a.xmss /\ P.sphincs = a.sphincs /\ P.roots = DaList(a.roots) /\ P.defer = b.defer
  BY DEF PublicInput, Statement
<1>2. Shows(P) /\ b.defer.holds
  <2>1. b.proof.ran /\ b.proof.of = P
    BY DEF Verify, VmVerify
  <2>2. b.defer.holds
    BY DEF Verify, Recompute
  <2>3. QED
    BY <2>1, <2>2
<1> HIDE DEF P
<1>3. Listed(P) /\ Backed(P)
  BY <1>1, <1>2 DEF Shows
<1>4. ClaimsOf(a.xmss) \subseteq XmssSigned
  <2>1. Listing(a.xmss) /\ \A j \in DOMAIN a.xmss : Listing(a.xmss[j].keys)
             /\ \A k \in DOMAIN a.xmss[j].keys : a.xmss[j].at \o <<a.xmss[j].keys[k]>> \in XmssSigned
    BY <1>1, <1>3 DEF Listed, Backed
  <2>2. QED
    BY <2>1, ClaimsIn
<1>5. ToSet(a.sphincs) \subseteq SphincsSigned
  BY <1>1, <1>3 DEF Backed, ToSet
<1>6. ToSet(a.roots) \subseteq Codewords
  <2>1. \A i \in DOMAIN a.roots : i \in DOMAIN DaList(a.roots) /\ DaList(a.roots)[i] = DaClaim(a.roots[i])
    BY DEF DaList
  <2>2. \A i \in DOMAIN a.roots : DaVerify(DaClaim(a.roots[i]))
    BY <1>1, <1>3, <2>1 DEF Backed
  <2>3. \A i \in DOMAIN a.roots : a.roots[i] \in Codewords
    BY <2>2 DEF DaVerify, DaClaim
  <2>4. QED
    BY <2>3 DEF ToSet
<1>7. QED
  BY <1>4, <1>5, <1>6

\* The invariant has the property.
LEMMA InvariantBacks == ASSUME AggregationInv PROVE EveryClaimIsBacked
<1>1. ASSUME NEW a \in aggregates, Accepted(a)
      PROVE  /\ ClaimsOf(a.xmss) \subseteq XmssSigned
             /\ ToSet(a.sphincs) \subseteq SphincsSigned
             /\ ToSet(a.roots) \subseteq Codewords
  <2>1. DOMAIN a = AggregateFields /\ (a.proof.ran => Shows(a.proof.of))
    BY DEF AggregationInv, ProofsShow
  <2>2. CASE Verify(a)
    BY <2>1, <2>2, VerifiedIsBacked
  <2>3. CASE Verify(FromParts(a))
    <3> DEFINE b == FromParts(a)
    <3>1. b.xmss = a.xmss /\ b.sphincs = a.sphincs /\ b.roots = a.roots /\ b.proof = a.proof
      BY <2>1, PartsStay
    <3>2. Verify(b)
      BY <2>3
    <3> HIDE DEF b
    <3>3. QED
      BY <2>1, <3>1, <3>2, VerifiedIsBacked
  <2>4. QED
    BY <1>1, <2>2, <2>3 DEF Accepted
<1>2. QED
  BY <1>1 DEF EveryClaimIsBacked

\* Whoever runs the guest and whatever he hints: a proof shows its statement, and
\* of a run that is under way every slot it has covered is of a claim that has its
\* signature or codewords, or of one of the child it is verifying (aggregate, main
\* of lean_ethereum.py).
THEOREM AggregationInvariant == MCSpec => []AggregationInv
<1>1. MCInit => AggregationInv
  <2>1. ASSUME MCInit PROVE AggregationInv
    BY <2>1 DEF MCInit, AggregationInit, AggregationInv, NodeOk, ProofsShow
  <2>2. QED
    BY <2>1
<1>2. AggregationInv /\ [MCNext]_mcvars => AggregationInv'
  <2>1. ASSUME AggregationInv, AggregationNext PROVE AggregationInv'
    BY <2>1, AggregationAssumption, AggregationStep
  <2>2. ASSUME AggregationInv, UNCHANGED aggregationVars PROVE AggregationInv'
    BY <2>2, AggregationStays
  <2>3. [MCNext]_mcvars => AggregationNext \/ UNCHANGED aggregationVars
    BY DEF MCNext, mcvars
  <2>4. QED
    BY <2>1, <2>2, <2>3
<1>3. QED
  BY <1>1, <1>2, PTL DEF MCSpec

\* Of an aggregate that verifies, as it is or as it is received, every XMSS and
\* every SPHINCS claim has its signature and every root its codewords: however
\* many keys, epochs, children and roots there may be, and whatever is hinted.
THEOREM ClaimsAreBacked == MCSpec => []EveryClaimIsBacked
<1>1. AggregationInv => EveryClaimIsBacked
  BY InvariantBacks
<1>2. QED
  BY <1>1, AggregationInvariant, PTL

=============================================================================
