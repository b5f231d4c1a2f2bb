# A TLA+ model of leanVM

leanVM is a hash-based virtual machine with a succinct proof of its execution: a
compiler lowers a small language to six instructions, an interpreter runs them over
write-once memory, the run becomes the columns of six tables, and a prover commits to
them with Merkle trees and convinces a verifier through a Fiat-Shamir transcript.
Proofs of signature checks are aggregated by running the verifier inside the machine.

This directory models that path from end to end: the threads that prove and the memory
they share; the compiler and what its programs do when run; the interpreter's memory and
the way a run is brought to provable size; every message of the proof; the two signature
schemes, and the tree of aggregates over them. The algebra is computed, over fields of 16
and 128 elements (and their cubic extensions) in place of 2^64, so that a message of the
proof or an instruction of a compiled program has its value in the model too. What is
left to mathematics is how rarely a random challenge misses a lie (see *Not modelled*).

Paths below are relative to `src/crates/` unless they say otherwise.

## Inventory

| Part | State | Operations | What is hard |
|---|---|---|---|
| `parallel` | job slot, `generation`, claim `counter`, `working`, `panic`, a park flag per worker | `for_each_chunk`, `map_reduce`, `find_first` and the adapters over them | every interleaving of atomics; park against publish; panics; nesting |
| `zk_alloc` | phase flag and generation; per thread a slab with a cursor, a peak and a free list | `begin_phase`, dropping the guard, allocate, release | releases on other threads and in later phases; lazy resets; merging |
| `fiat_shamir`, sponge | a hash state | `observe`, `sample`, `grind_pow`, `verify_pow_field` | the nonce found must not depend on the schedule |
| `fiat_shamir`, transcript | two cursors over one stream and one list of openings | `add_*`/`next_*`, `hint_merkle`/`next_merkle_batch`, `finish` | prover and verifier in lockstep, through rounds that leave a coefficient out |
| `fiat_shamir`, Merkle | a tree; a set of siblings | `prune`, `open`, raw paths | levels walked twice in the same order; one form per proof |
| `lean_vm` interpreter | cells, states, links, `pc`, `fp`, `next_free`, hints | six instructions, hints | reads before writes, links, back-solving |
| `lean_vm` fill | row counts, the plan, cycles | `filler::plan`, the end of `execute` | counts that feed back into themselves |
| `lean_vm` g-power index | a forward table and a hash index | `note`, `log`, `grow_to` | noted one by one, then densely; grown before and after |
| `lean_vm` proof | columns, bus, sumchecks | `prove`, `verify` | tables of different heights in one sumcheck; message order; a claim at the right point |
| `flock` | the bits of every hash of a run | zerocheck, lincheck | a first round over several variables at once, rows the code has removed |
| `pcs` | a committed vector, folded level by level | commit, batch, ring switch, open | two kinds of claim in one opening, levels of different rates |
| `lean_compiler` | a tree; per function its frame, names, what is known of cells, tasks | parse, lower, assemble | what is known on one path and used on another; frames a callee and the interpreter agree on; hints nothing may depend on |
| `rec_aggregation` | signer sets, deferred claims, a file cache | `aggregate`, the guest program, `verify`, `get_signers` | slots shared by duplicates and children; hints of a prover that is not ours; a file cut off in a write |
| `xmss`, `sphincs` | a key with one cached subtree; a key of top nodes | key generation, sign, prepare, verify | which subtree is cached while another thread signs; tweaks that must not meet |
| `lean_da`, `primitives` | columns | encode; field and hash arithmetic | algebra |

How they meet. Provers hand closures to `parallel`; workers build buffers from the
arena of `zk_alloc` that the dispatcher drops. The dispatch lock and the phase guard
are what lets both do without locks on their hot paths. `fiat_shamir` grinds through
`find_first`. The compiler emits the fill blocks that the interpreter enters by
itself, once the program is over, and hints that run beside instructions and that no
table sees. A proof is one transcript through `lean_vm`, `flock` and `pcs`; `pcs` commits
to rows whose openings travel, pruned, beside the transcript and come back as paths for
the recursive verifier. An aggregate is a run of one guest program, which verifies
signatures and the proofs of its children, but leaves one claim of each child's proof to
whoever verifies the root.

What makes each correct is the list of properties below; `hazards` in `PROJECT.json`
gives for each what could break it, and where.

## Modules

| Module | Models | Composes |
|---|---|---|
| `ParallelFor` | what `parallel` promises: one dispatch at a time, each item at most once, all of them before a normal return | |
| `Pool` | `parallel/src/lib.rs`, `worker_main`, `wait_for_dispatch`, `drain`, `for_each_chunk` | implements `ParallelFor` |
| `Reduce` | `drain_into_slots`, `map_reduce`, `fold_reduce` | over the promise of the pool |
| `Grind` | `find_first` and `grind_pow` | over the promise of the pool |
| `Arena` | `zk_alloc/src/lib.rs` | |
| `WriteOnce` | `Mem` and the instructions of `lean_vm/src/cpu/execute.rs`, for any program | |
| `GPow` | the powers of g and their reverse index, `cpu/hints.rs` | |
| `Machine` | the interpreter as a whole: control, hints, rows and access counts | `Field` |
| `Fill` | `cpu/filler.rs`, the end of `execute`, `lower_filler_blocks` | |
| `Merkle` | `fiat_shamir/src/merkle.rs`, the committer of `pcs/src/merkle.rs` | |
| `Field`, `Multilinear` | `primitives/src/field/`, `multilinear.rs` | |
| `Transcript` | `fiat_shamir/src/transcript.rs` and the binding state | `Multilinear` |
| `Tables` | `lean_vm/src/tables.rs`: columns, bus messages, the filling of rows | `Transcript` |
| `HashCircuit`, `HashArgument` | `flock/src`: the compression function as bits, zerocheck and lincheck | `Multilinear`, `Transcript` |
| `Gkr`, `Bus`, `Constraints` | `gkr.rs`, `leaf.rs` with `cpu/layout.rs` and `witness.rs`, `constraints.rs` | `Tables`, `HashCircuit` |
| `Whir` | `pcs/src/whir.rs`, `whir_induce.rs`, `ntt/`; `stack_open.rs`, `basis.rs`, `ring_switch.rs` | `Transcript` |
| `Proving` | `prove` and `verify` of `cpu/mod.rs` | all of these and `Machine` |
| `Cells`, `Lowering` | `ast.rs`, `parser/subst.rs`, `lower.rs` and `lower/` of `lean_compiler` | `Field` |
| `CompiledRuns` | `lib.rs` of `lean_compiler`: functions lowered one after the other, then laid out and resolved; `cpu/hints.rs`; the result run | `Lowering`, `Machine` |
| `TweakHash`, `Xmss`, `Sphincs` | `xmss/src`, `sphincs/src` | |
| `SignersCache` | `rec_aggregation/src/signers_cache.rs` | |
| `Aggregation` | `rec_aggregation/src/aggregation.rs` and `guests/lean_ethereum.py` | |
| `MerkleProofs`, `ArenaProofs`, `FillProofs` | theorems | each extends its module |
| `SignatureProofs` | theorems about `Xmss`, `Sphincs` and `SignersCache` | `MCSignatures` |
| `PoolAndAggregationProofs` | theorems about `Pool` and about `Aggregation`, which share no name | `Pool`, and `SignatureProofs` for its lemmas about sequences |
| `SharedWorkProofs`, `InterpreterProofs` | theorems about `Grind` and `Reduce`; `WriteOnce` and `GPow` | `MCSharedWork`; both modules |
| `Induction` | lemmas: induction over numbers, as sets | |
| `MC*` | constants, programs, scenes and symmetry for TLC | each extends its module; `MCSharedWork` puts `Grind` and `Reduce` side by side, `MCWriteOnce` `WriteOnce` and `GPow`, `MCSignatures` the two schemes, the cache and aggregation |

Definitions keep the names of the code where they can; `map` in `PROJECT.json` gives
the lines of each. Where the code has a fast version of something and a plain one, or
a version per instruction set, all are mapped to the one definition of what they compute.
The map lists the modules with the most code first, and a small helper whose lines lie
inside those of the definitions that use it has no entry of its own.
A definition commented *Variant*, or with a name of its own and used by nothing, is a
plausible fault of the one after it: it is there to be put in its place, to see the
properties fail.

### Pool

One action is one access to shared memory: `Acquire`, `WriteJob`, `ResetCounter`,
`SetWorking`, `Bump`, a `LoadParked` per worker and `Unpark` for the dispatcher;
`Notice`, `SpinOut`, `Announce`, `Recheck`, `Unblock`, `Unannounce` for a worker that
waits; `FetchJob`, `LoadCounter`, `Claim`, `FinishChunk`, `Leave` for whoever drains.
The accesses the park protocol needs are SeqCst in the code, hence interleaved; a
relaxed load of the claim counter may return any value its thread could still see.
`std::thread::park` is a token, and may wake without one (`SpuriousWakeup`). A task may
panic or dispatch from within (`TaskPanics`, `TaskDispatches`). The spin limit is
abstracted to a choice: a worker may stop spinning after any poll. `ran` and `broken`
are history, for the properties and the refinement.

### Reduce, Grind

Both take the pool at its word (`ParallelFor`, which `Pool` is shown to implement):
claims of any length tile the items and the dispatch returns after all of them. In
`Reduce` the value of a partial is the sequence of items folded into it, so what is
shown holds for any operator. In `Grind` the set of nonces that clear the bits is any
set; a worker's relaxed look at the shared minimum gives any value it has had since the
worker's last look.

### Arena

An allocation and a release touch thread-local state and read the phase, so each is an
action; opening a phase is two stores, so two. A handle may be released by any thread,
in any phase the constant `KeepsStale` allows. Addresses are units of the smallest
request; alignment, the cache line and the least block worth keeping are constants.
The one discipline assumed of callers is that of the code's own comments: no thread
allocates while another is between the two stores (`MayAllocate`), and no buffer is
kept into a later phase unless `KeepsStale`.

### WriteOnce

The memory `Mem` and the effect on it of the six instructions and of hints, over a field
given by operators. The program is any sequence of instructions, so that what is shown
does not depend on the compiler. The tables are filled from the final memory, not from
recorded values; `row` remembers one executed row, any one, which stands for all.

### GPow

The table of powers, the hash index of the exponents that were noted, and its dense form.
The interpreter's ways to use it are actions: a step or an allocation covers, a stored
address is noted, a pointer, a buffer size or the span of a loop is inverted, the last two
growing the table while they miss. The other modules look an exponent up.

### Fill

The chain of the program is one step that halts with any counts; from there on every
row is a step. `Plan`, `Solve`, `Decompose`, `DecomposeJump` and `Cycles` are the
functions of `filler.rs`; `Emitted` is what the compiler lays out; `Dummy` and `Close`
are the rows of a block, with their reads and writes of the cycle's frame. Words are
terms: zero, a power of g, a square, a digest. The blocks' code is one after the other,
the program's own is abstracted to one slot.

### Merkle

The committer builds the tree level by level, the prover prunes level by level, and the
verifier opens level by level. What arrives may be any damage of what was sent: a
sibling more or less, another digest, a row replaced, widened or dropped. The verifier's
queries are its own. A digest is the term it was made from: no collisions.

### The proof: Field to Proving

One step of `Proving` is one message of the prover, or the verifier reading one. A module
of the family has an operator per message for each side, from a record of that side's
local state and transcript to the next; `Proving` has the actions, so that the order in
which messages follow each other is that of `prove` and `verify`. Between the two,
`Deliver` hands the proof over as it is or with one thing changed: a scalar, a row or a
sibling of an opening, an opening more or less, the public input. And the prover may have
run something else than it announces, or may have changed values of its columns before
it committed to them (`lies`), and follows the protocol all the same.

Elements of K are numbers, of E triples of them. The table of the powers and of the
products are constants a configuration gives from definitions of `Field`, so that TLC
computes them once. The hash that drives the transcript is a small mixing function; that
of the circuit is BLAKE2s with shorter words, fewer rounds and its own rotations, as bits,
with the carries the circuit keeps. Grinding takes the first nonce, which is what `Grind`
shows of the parallel search.

### The compiler: Cells to CompiledRuns

The lowering of a function is a machine in the model as it is a recursion in the code: it
has a list of tasks, and a step takes the first, which may emit instructions, bind names
or put further tasks in front. So a statement inside a loop inside a branch is lowered
without recursion, and a state shows what is known at each point. `Cells` has what the
steps are made of: the trees and substitution in them, what is known of a value, cells of
the frame, the instructions that make a value where it is wanted.

`CompiledRuns` resolves labels, frames and the entries of functions once all are lowered,
and runs the result. It parses nothing: a program is a tree, written in `MCCompiledRuns` with what
it means beside it, a predicate on public input and witness. A prover that runs every hint
must get to the end exactly when the predicate holds. A prover need not: it may leave a
hint out (`IgnoreHints`) and put a value of its choice in a cell that is read before it
was written (`Advise`), since the tables only see what memory ended up being. The choices
are a few fixed values and whatever makes a sum come out right. A run that gets to the
end must still be one its meaning allows, for some values of the hints.

### Xmss, Sphincs, SignersCache

A digest is the term of what was hashed: no collisions. A tweak is the tuple of numbers
its bytes are laid out from, so that two uses of one tweak for different inputs show.
`Xmss` has the threads: signing, and preparing a subtree, are several steps around the
mutex of the cached subtree. The digits a digest encodes to are given, some digests have
none, and signing then tries another randomness. `SignersCache` has processes that end at
any point and a file that is written in place, unit by unit, by two of them at once; a
process may find the file of an older build, some of whose signatures no longer verify.

### Aggregation

The module has the plan of `aggregate` (what an aggregate states, and the slot every
signature or claim of a child gets in its node's table), a call of `aggregate`, and the
run of the guest it proves. The guest is a machine like the
compiler's, with tasks; each takes the next value of a stream of hints and asserts what
the program asserts of it. An honest run finds what `aggregate` put there; a foreign
prover takes any value the plot offers, and leaves the value of a cell nothing wrote to
its choice. The proof of a child is verified in one step that lets a wrong proof through
but leaves a claim that does not hold. Claims are batched up the tree and only `Verify` of
an aggregate checks the last; the sumcheck that batches them is abstracted to: the batch
holds when all of its parts do. An aggregate may also be shown with another list of
claims than the one it was made for (`Relabel`).

## Runs

Every configuration fits in a few minutes; the bounds are chosen so that the case a
property is about does happen, which each property's mutant confirms: the fault is put
in place of the definition and the same run finds the violation. Small instances of
independent parts share a run where each alone is quick: a variable `scene` says which
part a behaviour is of.

| Run | Instance | Shows |
|---|---|---|
| `pool_safety` | two workers; two dispatchers with three items each, or one with six; claims of one or two | `TypeOK`, `DisjointClaims`, `JobOutlivesDrain`, `OutcomeIsOfThisDispatch`, `WorkingCountsOwing`, `NoLostWakeup`, `SlotsAreExclusive` |
| `pool_fair` | two dispatchers, one worker, up to four items, claims of one or two, fair | `DispatchReturns`; `ImplementsParallelFor`, the refinement |
| `shared_work` | three workers; two blocks of two batches of two nonces, any hits, fair; or up to six items to fold | `SmallestNonce`, `SearchEnds`; `EachItemOnce` |
| `reduce_order_doc` | three workers, up to six items | the doc's `ReducesInItemOrder` fails |
| `arena` | one phase, four buffers of mixed sizes, one slab of eight units in use; or three threads, two slabs, two phases and two large buffers | `BlocksAreExclusive`, `HeldBlocksAreDead`, `HeldBlocksAreApart`, `OnePhaseInFlight` |
| `arena_stale_doc` | two phases, buffers kept | a comment's `StaleReleaseIsIgnored` fails |
| `write_once` | five cells over GF(16), four instructions; or an index of up to six powers, grown, noted and asked in any order | `RowHoldsToTheEnd`, `LinkedCellsAgree`, `WrittenForGood`; `LogInvertsPow` |
| `fill` | blocks of 4, 2 and 1 rows, up to two rows of each table at the halt | `EndsFilled`, `CyclesClose`, `DummiesRepeat`, `WitnessReaches` |
| `merkle` | eight leaves, two matrices, all lists of one or two queries and some longer | `AcceptedRowsAreCommitted`, `HonestOpens`, `AcceptedIsPruned`, `PathsReachTheRoot` |
| `protocol` | three programs of 8 and 16 instructions over GF(16), honest, with seven lies, and with a change of every first, second or fourth scalar | `HonestIsAccepted`, `OnlyHonestIsAccepted`, `BindTheSame`, `ClaimsAreTrue` |
| `signatures` | keys of up to eight epochs, two threads; hypertree of heights three and two, six messages; two processes and two failures; three aggregates, two of them foreign or relabelled | `WhatIsSignedVerifies`, `OneInputPerTweak`, `ReturnedSignersVerify`, `EveryClaimIsBacked`, `AggregatesAsAsked` |
| `compiler` | 33 programs, 18 of which run, over GF(128) | `RefusesTheMeaningless`, `RunsAsWritten`, `OnlyWhatIsMeant` |

Why the bounds are enough.

- *Pool.* Two dispatchers contend for the lock, two workers can be at different places
  of one dispatch, and the generation wraps after two, so a worker that missed a dispatch
  would take the second next for the one it knows. A wrap this early is harsher than the
  code's. A claim takes the remaining items divided by the number of participants, at most
  two: with three participants two items need a dispatch of six, with two participants
  one of four. In both runs a claim is then of two items or of one, two threads run two
  items each at a time, a stale read of the counter makes a claim of two where a fresh one
  would make it one, and such a claim runs past the last item and is cut short. Two callers
  contending with six items each are out of reach: `pool_safety` has a caller ask for six
  only while the other has not called, and then lets both contend with three
  (`WithinBounds`); `pool_fair` has both ask for anything up to four. Dispatches of one
  item or none, which stay on their caller, come in between.
- *Shared work.* Three workers are the least for claims that are not contiguous per
  worker in more than one way; two blocks cover the hit that is only in the second one,
  and two batches of two nonces the hit in the second half of a batch. Where no nonce
  clears, the search goes on for ever in the code; in the run it stops at `MaxBlocks`.
- *Arena.* Four buffers of one, two and three units (below the least kept block, one line,
  one and a half lines aligned to two) on a slab of eight make a released block with a
  held neighbour on each side, a list that is full at two, and carves that leave a
  remainder or none. Two phases come with fewer buffers and sizes: the list does not
  survive a reset. In both scenes one thread opens the first phase, another may open the
  second and one opens none; slabs and threads are otherwise alike.
- *WriteOnce.* Four instructions are a link of a link, a write through it and a read; the
  operand triples repeat cells and include both public inputs. GF(16) over GF(4) is the
  smallest tower where some words are pointers and some are not in the base field.
- *GPow.* Six powers are enough for the index to be widened twice, before and after it
  turns dense. The mixes make all words meet, wrap at the end of an index of any length,
  meet in pairs or not at all.
- *Fill.* All 729 halting counts. Of these 136 are large enough as they are and 589 are
  padded further; four cannot be filled and fail, as do
  runs that meet the step limit in a dummy or in a closing jump. Three block sizes, with
  a floor of eight for the hash table, give every shape of the decomposition; the eight
  sizes of the code only make the numbers larger.
- *Merkle.* Height three has nodes whose sibling is on a path, is sent, or is the last
  of an odd set, at a level that is neither the leaves nor the root.
- *Protocol.* The programs have every instruction and every addressing mode, a jump back
  and a second frame, and tables of heights nought, one and two, so that one waits in the
  sumcheck while another folds. Words of four bits in a field of 2^4 with E of 2^12,
  memory of eight cells, hashes of one round in 2^8 bits (the least with a carry in every
  gate), a committed vector of 2^9 and two levels of the low-degree argument with
  out-of-domain samples, grinding and shifts of different sizes at each. For each lie
  there is one check that notices it and no other: the sum over the bus, the count of a
  read, the two sides of the bus, the hash, a carry of it. Changes are one at a time; more
  scalars are changed in the programs whose runs are shorter.
- *Compiler.* GF(2^7) has 127 powers of g for addresses, and frames, buffers and input fit
  in 120. Each program is about a few of the constructs together: branches that bind
  a name on both sides, loops that carry it, calls inlined, specialized and returned from
  a loop, matches and dispatches, buffers on the frame and the heap, range checks, bit
  decompositions, hashing. Inputs are on both sides of each program's meaning. One hint is
  left out per run (`MaxLies`); a cell read unwritten gets any of eight values or the one
  that makes the instruction hold.
- *Signatures.* Eight epochs in more than one subtree make a thread find its own subtree
  cached, another's, or none; every range of epochs is a key. Six messages reach
  the same leaf with the same and with other indices. Two processes and two failures are a
  file cut off by a crash and then read by one while the other writes. Two epochs, three
  signed claims and one unsigned, two roots and at most two children are the least that
  share a slot between a raw signature and a child's claim, drop a group, and let a
  claim of the grandchild travel to the root; a foreign prover's hints are varied in one
  of six ways at a time (`Plots`), since all at once is out of reach.

Runs that allow the system to stop say so (`CHECK_DEADLOCK FALSE`): a search that found
its nonce, a reduction that combined, a program that halted or faulted, an opening that
was accepted or refused, a message that was signed, a call or a run that came to its end.
The pool and the arena are checked for deadlock, and so is `protocol`, where a verifier
that waits for a message, or a side that has no step, would be one.

Fairness. `Pool` assumes weak fairness of each thread: the operating system schedules
every thread, and every task ends or panics (weak fairness of the drain). Nothing is
assumed of who gets the mutex, of callers, panics or spurious wake-ups; `DispatchReturns`
is therefore about the dispatch that holds the pool. `Grind` assumes weak fairness of
the next step as a whole, which follows. The other modules have no liveness property:
what they do is sequential, or bounded by the step limit. That an honest proof is
accepted is stated as never being rejected: with no deadlock, and every message sent or
read once, that is the same.

## Proofs

TLAPS checks every theorem for all values of the constants that the modules' assumptions
allow. The inductive invariants are in the proof modules, as conjunctions of named parts.

| Theorem | Says | By |
|---|---|---|
| `PoolAndAggregationProofs!TypeCorrect`, `ClaimsAreDisjoint`, `JobIsStable`, `CompletionIsExact`, `WakeupsAreKept`, `SlotsHaveOneUser`, `OutcomesAreTrue` | the safety invariants of `pool_safety`, for any number of threads, tasks and generations | `PoolInvariant` |
| `PoolAndAggregationProofs!Implementation` | `Pool` implements `ParallelFor`: every step is a step of the promise or a stutter | `PoolInvariant` |
| `ArenaProofs!PhasesNeverNest` | one phase is open at a time, whatever callers keep | `PhaseInv` |
| `ArenaProofs!NoBlockIsServedTwice`, `OnlyDeadBlocksAreHeld`, `HeldBlocksNeverTouch` | no two live blocks overlap, held memory is dead, held blocks do not touch, for any slabs, sizes, alignments, threads and buffers, where no buffer is kept into a later phase | `BlockInvariant` |
| `SharedWorkProofs!SmallestNonceFound` | the nonce is the smallest, for any number of workers and blocks | `GrindInvariant` |
| `SharedWorkProofs!EveryItemOnce` | every item is folded once, for any number of workers and items and any claims | `FoldInvariant` |
| `InterpreterProofs!RowsHold`, `LinksAgree`, `CellsAreWriteOnce` | rows hold in the end, links agree, cells are written once, for any field, any cells, any program | `WriteOnceInvariant` |
| `MerkleProofs!OpeningsAreCommitted` | an accepted opening holds committed rows, for any height, rows and queries | `MerkleInvariant` |
| `MerkleProofs!HonestPhasesOpen`, `PhasesHaveOneForm`, `PathsLeadToTheRoot` | what the prover prunes is accepted, nothing else is for the positions it opened, and the paths expanded from what was accepted lead to the root | `WalkInvariant` |
| `SignatureProofs!SignersVerify` | a call returns the first signers, in order, all verifying, for any number of processes, failed writes and restarts | `CacheInvariant` |
| `SignatureProofs!SignedVerifies` | everything signed verifies under its key, with XMSS and with SPHINCS, for any range of epochs, any heights, any number of threads and layers | `SigningInvariant` |
| `SignatureProofs!TweaksKeepApart` | of one key no tweak hashes two inputs, in all that the key and its signatures were computed from, down to the secrets | `DigestsInv`, `XmssOneEach`, `SphincsOneEach` |
| `FillProofs!PlanIsFound` | the solver finds a plan for any counts and floors, and it takes every table to a power of two | `DecomposeIs`, `DecomposeJumpIs` |
| `FillProofs!EveryCycleCloses`, `DummiesNeverConflict`, `TablesEndFilled`, `WitnessIsLargeEnough` | cycles close, dummies never write a second value, every table ends filled and the witness is as large as planned, for any block sizes that halve down to one, any floors, widths and limits, and any counts at the halt | `FillInvariant` |
| `PoolAndAggregationProofs!ClaimsAreBacked` | of an aggregate that verifies, every claim has its signature and every root its codewords, for any number of keys, epochs, children and roots, any runs and any hints | `AggregationInvariant` |
| `InterpreterProofs!LogsInvertPowers` | a word is found exactly when it is a covered power, as its exponent, for any mix, any sizes and any order of the calls | `GPowInvariant` |

The arguments.

- *Pool.* The claims and the job are safe because of the count of owing workers, and the
  count is right because a worker that drains has taken the current generation:
  `OwingInv` carries both, since neither is inductive alone. `HolderInv` and `JobInv` tie
  the job to the holder of the mutex; `ClaimInv` puts every claim and every finished item
  below the counter; `WakeInv` adds to `NoLostWakeup` that a worker past its announcement
  shows its flag. That a dispatch reports what its own tasks did adds that no flag of a
  panic is left from an earlier one.
- *Pool as ParallelFor.* A dispatch of the promise is active from the write of the job to
  the release of the mutex; what ran and what broke is the history kept for it. All other
  accesses are stutters. Two steps need the invariant: running a task, whose items nobody
  ran before (`ClaimInv`), and the return, where all have run or one panicked, since the
  count of owing workers is zero (`CoverInv`).
- *Grind.* `Covered`: an item that was claimed and holds a hit is at or above the minimum,
  or some worker has yet to try it. `PastInv` bounds what a stale load returns from below
  by the minimum, which is why a claim that is skipped cannot hide a smaller hit.
- *Reduce.* What is folded somewhere is, for each worker, one part: what lies in its
  slot between two claims, or what it took from there, joined with the range it
  works on. Every part has each of its items once, parts do not meet, and all items below
  the counter are in one. So the parts joined in any order have every item once.
- *Arena.* `BlockInv` says where everything lies: a slab is its thread's own, a live block
  lies below the cursor of a slab of its phase, the entries of a free list lie between base
  and cursor, do not touch, and meet no live block. `merge` is a loop with an invariant of
  its own (`MergeOK`): the union grows by blocks that are nobody's, and no entry it has
  passed touches it, which is why one pass is enough. The theorems other than
  `PhasesNeverNest` have `KeepsStale = FALSE` as a hypothesis, the rule for callers in the
  crate's comments; `arena_stale_doc` shows that they need it.
- *WriteOnce.* A memory only grows (`Grows`): a written cell keeps its value, a link lasts
  until both ends are written with one value. `RowStands` says what a row has left behind;
  growth preserves it and it implies the row's equation.
- *Merkle.* `OpenInv` goes from the root down: if the digests at a level are the tree's,
  so are those below, since a digest determines its preimage. The other three compare two
  walks level by level: where a level's siblings begin in the phase is the sum of what the
  levels before took, and prover and verifier take the same (`WalkInvariant`). That a
  phase is accepted follows from the leaves up; that it is the only one, from the root down.
- *SignersCache.* A unit of the file is what belongs in its place, or a hole (`Fits`),
  whoever wrote it and wherever a write stopped: two writers at once write the same units
  at the same places. So what reads as a signer is the one of its index, valid or stale,
  and the prefix that verifies is right.
- *Signatures.* The rest of a chain ends where the whole chain does, and the path of a leaf
  leads to the root; both are shown along the recursion. What a step could break is that
  the path is of the key's own tree. In `XmssInv` a key keeps the nodes above its split, the
  cache holds a subtree of that key, whichever call put it there, and a call that reads
  holds the mutex and the subtree of its own epoch (`CallFits`): another thread replaces it
  only after. Above the seam of the two, a node of the one is the child of a node of the
  other. `SecretOk` says the kept layer of a `Sphincs` key is that of its top tree, so
  what is rebuilt below and above it is the whole tree's (`CachedIs`); then each layer signs
  the root the layer below leads to, and the walk of the verifier comes home. The
  hypotheses `DigitsFit`, `OtsDigitsFit` and `IndicesFit` are about the hash: the digits
  and indices of a digest are in range whatever the digest, since the code masks the one
  (`wots.rs:150`, `ots.rs:68`) and reads the other as so many bits (`sphincs.rs:241`).
- *One input per tweak.* The property follows digests back to their inputs a bounded number
  of times (`HashedIn`), which is enough to come to the secrets: of the bounds in the run
  one more adds nothing. The theorem holds of any bound. The digests of a key are the
  values of its chains below the end, the nodes of its trees and, for XMSS, the fillers for
  siblings out of its range (`XmssDigests`), for SPHINCS the few-time secrets
  (`SphincsDigests`). Each is hashed from others of them or from the secret (`XmssClosed`,
  `SphincsClosed`), and two with one tweak are the same (`XmssOneEach`,
  `SphincsOneEach`): a chain and a step in one number are told apart because a chain is
  shorter than its stride (`OneQuotient`), and a node of an XMSS tree is the same whichever
  epoch leads to it (`OneNode`). `DigestsInv` says that what was returned is of them.
- *GPow.* `IndexOk` is the invariant of a hash table with linear probing and no removal:
  every exponent is entered once and no slot before it on its chain is empty. `Room`: there
  are more slots than exponents, so a search ends, and where it ends decides. Widening
  builds a new table by the same steps. `FullTable` adds that once all are indexed, none
  covered is missing, which is what makes a miss final.
- *Fill.* What is left after each size is less than that size (`DecomposeIs`), and what the
  blocks of `JUMP` leave is never one row, is even after the blocks of two, and nothing
  after those of one (`DecomposeJumpIs`): so every gap but one is closed, and a target
  that is one short is doubled. The padding doubles a floor each time, so the loop ends
  (`FloorsAre`). `FillInv` says which cycle is under way, after how many traversals and
  dummies: the counts are what the cycles before it deliver and that much more
  (`RowsWithin`). Its frame holds what the dummies of its table leave, whichever of them
  have run (`Clean`, `Held`), the frames ahead hold their three words only
  (`Prepared`, `Untouched`): so a row reads the same in each traversal and writes what is
  there (`DummyIs`), and neither length nor other frames change (`FramesKept`).

- *Aggregation.* Nothing is assumed of a foreign prover's hints, so `AggregationInv` says
  of a run only what its guest has asserted so far. `ProofsShow`: the statement of a proof
  is true, unless what it defers does not hold. `Working`: the tasks come in the order of
  the program (`TasksInOrder`): the cells of the table before anything that covers a slot,
  the tasks of a child up to its proof, publishing last. Each covered slot is `Settled`: it
  is that of a claim with its signature, or of one the child under verification claims. No
  slot is covered twice, so as many slots as the guest counts are covered, and when it
  publishes those are all (`AllCovered`). Where the proof of a child is taken, its claims
  turn into signed ones (`ProofTaken`), unless its deferred claim or the one its
  verification leaves does not hold; then the batch that is handed up does not either, the
  invariant asks nothing of the slots (`AllHold`), and the proof of this node shows
  nothing. At the root `Verify` checks the batch, which is all that `VerifiedIsBacked` adds.
  The order is needed because a claim is looked up in the table: a cell written after its
  slot was covered could change what the slot was covered for. `AggregationAssumption`, that
  the limits of the program are numbers, is all that is assumed.

The lemmas about data that these share are in `Induction`: a set with 0 and every successor
has all numbers up to a bound (`UpTo`), steps can be taken one after the other (`Runs`,
`Iterates`), numbers be summed and the sums grow (`Sums`, `SumsGrow`), sequences be joined
(`Concatenated`), powers of two double and divide one another.
They speak of sets and functions instead of predicates, since the provers cannot instantiate
a theorem with an operator; a recursive function is shown equal to such a run, and what
holds along the run is a set that `UpTo` fills.

Only model-checked: liveness (out of reach of the prover), everything about the
proof and the compiler, and that an honest call of `aggregate` is answered with what
it asked for (`AggregatesAsAsked`). The proof's and the compiler's
properties are about what long recursive functions compute on given programs; that a lie is
noticed is not even true for every field and every challenge, only very likely.

## Findings

Two places where a comment says more than the code does; each is a run with a
counterexample. Neither is a fault that the code as a whole can show, since its callers
keep to narrower rules.

- A block of an earlier phase that is released after its thread has reset its slab is
  recycled, not ignored (`zk_alloc/src/lib.rs:485-488`, `arena_stale_doc`). Callers do not
  keep buffers into the next phase.
- `map_reduce` asks for an associative operator only, but combines claims that are not
  contiguous (`parallel/src/lib.rs:511-531`, `reduce_order_doc`): the operator has to be
  commutative too, as those of its callers are.

Two more comments go further than the code on a path that no model here takes, so that no
run is about them: the doc of `aggregate` says that it panics on an invalid raw signature
(`aggregation.rs:2021`), where one that does not decode is answered with an error
(`MalformedRawSignature`, lines 1936 and 1981); and the head of `signers_cache.rs` says that a
file's name binds the key derivation, which `sphincs_footprint` (line 211) leaves out: the
signers of an older derivation would be read back, and pass, as they do verify.

## Not modelled

- How likely it is that a challenge catches a lie, and that a hash has no collisions.
  `protocol` takes the challenges its small hash gives, `Merkle`, `Xmss`, `Sphincs` and
  `Aggregation` take digests for what they hash. `formal/` has Lean proofs of the
  signature schemes, which are not repeated.
- The search for parameters of the low-degree argument that reach a security level: the
  parameters are constants.
- The baby steps and giant steps of `hint_decompose_bits_exponent`, arithmetic on top of
  `GPow`; the `next_free` of the interpreter beyond what `CompiledRuns` needs of it.
- The parser, a pure function of its input; the text of the compiler's refusals; `Print`.
- In aggregation, raw signatures that are malformed, the sizes of data-availability blobs,
  a child index out of range, the seed, and rates. The guest's verification of a
  child's proof is a step, not the run of `Proving`'s verifier.
- `lean_da`: an encoding and its commitment, algebra and Merkle paths again.
- System calls and the CPU topology, which are input and output; start-up of the pool and
  the adapters over `for_each_chunk`, which add no step of their own; growth of an
  `ArenaVec`; byte formats of keys and proofs; the second verifier in Python; benchmarks,
  the command line and the public API, which call the rest.
- The arena assumes that no thread allocates between the two stores that open a phase,
  which the code's own comments ask of callers.

## Plan

What is left, in this order:

1. In `Aggregation`, malformed raw signatures and the refusals that go with them.
