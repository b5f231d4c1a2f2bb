-------------------------------- MODULE Fill --------------------------------
(***************************************************************************)
(* How a run ends: crates/lean_vm cpu/execute.rs (the loop around the      *)
(* instructions), cpu/filler.rs (the plan) and the blocks that             *)
(* crates/lean_compiler lower.rs emits. A table is proven over a power of  *)
(* two rows, so once the program has halted the interpreter solves for     *)
(* what is missing and runs it off: for each kind of block a frame past    *)
(* every cell of the program, and in it as many traversals as the plan     *)
(* asks for. A block is dummies of one table and a JUMP back to the first. *)
(*                                                                         *)
(* The chain of the program is one step: it halts with any row counts.     *)
(* A digest is the term it was made from. A definition commented "Variant" *)
(* is a plausible fault of the one it precedes; it is used by nothing and  *)
(* is there to be swapped in.                                              *)
(***************************************************************************)
EXTENDS Integers, Sequences, SequencesExt

CONSTANTS
    Sizes,       \* SIZES: block sizes, powers of two, descending to 1
    MinRows,     \* MIN_ROWS: the least rows of each table
    Width,       \* committed columns of each table
    MinLogMem,   \* MIN_LOG_MEM
    MinLog,      \* Program::min_log_committed
    MaxLogRows,  \* MAX_LOG_ROWS
    MaxSteps,    \* MAX_STEPS
    MaxBase,     \* bound: rows of a table when the program halts
    MaxMain      \* bound: cells the program has touched by then

\* Stats::TABLES, from 1.
Tables == 1 .. 6
XOR == 1
MUL == 2
SET == 3
DEREF == 4
JUMP == 5
BLAKE2S == 6
PAD_TABLE == SET

ASSUME FillAssumption ==
    /\ Sizes \in Seq(Nat \ {0}) /\ Len(Sizes) >= 2 /\ Last(Sizes) = 1
    /\ \A k \in 1 .. Len(Sizes) - 1 : Sizes[k] = 2 * Sizes[k + 1]
    /\ MinRows \in [Tables -> Nat \ {0}] /\ Width \in [Tables -> Nat]
    /\ {MinLogMem, MinLog, MaxLogRows, MaxSteps, MaxBase, MaxMain} \subseteq Nat
    /\ MaxMain >= 2

VARIABLES
    stage,     \* "chain", "fill", "done" or "failed"
    counts,    \* the rows of each table
    mem,       \* length of the memory, and the values written to it
    steps,
    blocks,    \* Program::filler
    runs,      \* the cycles still to run
    cycle,     \* the current one
    left,      \* its rows still to run
    pc, fp,
    halted     \* history: counts and memory length when the chain halted

vars == <<stage, counts, mem, steps, blocks, runs, cycle, left, pc, fp, halted>>

-----------------------------------------------------------------------------
(***************************************************************************)
(* The plan.                                                               *)
(***************************************************************************)

Log2Ceil(n) == CHOOSE k \in 0 .. n : 2 ^ k >= n /\ \A j \in 0 .. k - 1 : 2 ^ j < n
CeilPow2(n) == 2 ^ Log2Ceil(n)
Total(f) ==
    LET n == Len(f)
        sum[k \in 0 .. n] == IF k = 0 THEN 0 ELSE sum[k - 1] + f[k]
    IN  sum[n]
Larger(x, y) == IF x >= y THEN x ELSE y

None == <<>>

\* Traversals that deliver exactly `fill` rows, the largest blocks first.
Decompose(fill) ==
    LET left_[k \in 0 .. Len(Sizes)] == IF k = 0 THEN fill ELSE left_[k - 1] % Sizes[k]
    IN  [k \in DOMAIN Sizes |-> left_[k - 1] \div Sizes[k]]

\* How often a block of JUMPs, s dummies and its own, is taken from `rows`: never
\* so that one row is left, which no block delivers.
StepsOf(rows, s) ==
    LET n == rows \div (s + 1)
    IN  IF n > 0 /\ rows % (s + 1) = 1 THEN n - 1 ELSE n

DecomposeJump(gap) ==
    LET left_[k \in 0 .. Len(Sizes)] ==
            IF k = 0 THEN gap
            ELSE left_[k - 1] - StepsOf(left_[k - 1], Sizes[k]) * (Sizes[k] + 1)
    IN  IF gap = 1 \/ left_[Len(Sizes)] # 0 THEN None
        ELSE [k \in DOMAIN Sizes |-> StepsOf(left_[k - 1], Sizes[k])]

NoTraversals == [k \in DOMAIN Sizes |-> 0]

\* The kinds of block in their order, all sizes of a table before the next; what a
\* plan asks of one.
Kinds == 1 .. 6 * Len(Sizes)
TableOf(i) == ((i - 1) \div Len(Sizes)) + 1
SizeOf(i) == Sizes[((i - 1) % Len(Sizes)) + 1]
Asked(plan, i) == plan[TableOf(i)][((i - 1) % Len(Sizes)) + 1]

Traversals(plan) == Total([i \in Kinds |-> Asked(plan, i)])

\* Variant: a frame for each traversal.
FramesOfTraversals(plan) == Traversals(plan)

\* One frame for each cycle: every block that is traversed at all.
Frames(plan) == Total([i \in Kinds |-> IF Asked(plan, i) > 0 THEN 1 ELSE 0])

\* The fill, without the closing jumps.
Delivered(plan, t) == Total([i \in Kinds |-> IF TableOf(i) = t THEN Asked(plan, i) * SizeOf(i) ELSE 0])

\* The counts a plan produces: its fill, and one JUMP per traversal.
Filled(base, plan) ==
    [t \in Tables |-> base[t] + Delivered(plan, t) + (IF t = JUMP THEN Traversals(plan) ELSE 0)]

\* Variant: the traversals of the other tables are left out of what JUMP owes.
OwedAtHalt(base, plan) == base[JUMP]

\* What JUMP owes before its own blocks: its rows, and one per traversal.
Owed(base, plan) == base[JUMP] + Traversals(plan)

\* A target of 64 bits is doubled no further.
MaxDoublings == 63

Solve(base, floor) ==
    LET Target(t) == Larger(base[t], Larger(MinRows[t], IF t = PAD_TABLE THEN floor ELSE 0))
        others == [t \in Tables |-> IF t = JUMP THEN NoTraversals
                                    ELSE Decompose(CeilPow2(Target(t)) - base[t])]
        owed == Owed(base, others)
        Settled(k) == DecomposeJump(2 ^ k * CeilPow2(Larger(owed, MinRows[JUMP])) - owed)
        first == CHOOSE k \in 0 .. MaxDoublings :
                    Settled(k) # None /\ \A j \in 0 .. k - 1 : Settled(j) = None
    IN  IF \E k \in 0 .. MaxDoublings : Settled(k) # None
        THEN [others EXCEPT ![JUMP] = Settled(first)] ELSE None

\* committed_log: the stacked witness of that memory and those tables.
CommittedLog(cells, rows) ==
    Log2Ceil(Larger(CeilPow2(cells), 2 ^ MinLogMem)
             + Total([t \in Tables |-> rows[t] * Width[t]]))

CELLS == 12

\* Where the frames start: past every cell the program touched.
FirstFrame(len) == len

\* The natural plan, or the one that grows PAD_TABLE the least to reach MinLog;
\* None if no table is large enough.
Plan(base, start) ==
    LET floor[i \in 0 .. MaxLogRows + 1] ==
            IF i = 0 THEN 0 ELSE 2 * Filled(base, Solve(base, floor[i - 1]))[PAD_TABLE]
        Refused(i) == floor[i] > 2 ^ MaxLogRows \/ Solve(base, floor[i]) = None
        Reaches(i) == LET plan == Solve(base, floor[i])
                      IN  /\ plan # None
                          /\ CommittedLog(start + Frames(plan) * CELLS, Filled(base, plan)) >= MinLog
        last == CHOOSE i \in 0 .. MaxLogRows + 1 :
                    /\ Refused(i) \/ Reaches(i)
                    /\ \A j \in 0 .. i - 1 : ~Refused(j) /\ ~Reaches(j)
    IN  IF Refused(last) THEN None ELSE Solve(base, floor[last])

-----------------------------------------------------------------------------
(***************************************************************************)
(* The blocks and their frames.                                            *)
(***************************************************************************)

\* Offsets in a block's frame.
DEST == 0
NEXT_FP == 1
PTR == 2
ZERO == 3
SCRATCH == 4

\* Variant: one cell for the chaining value, which takes two.
DIGESTClose == 5

DIGEST == 6

\* Per table and per size, one after the other past the code of the program, whose
\* instructions are abstracted to one.
Emitted ==
    LET pc_[i \in Kinds] == IF i = 1 THEN 1 ELSE pc_[i - 1] + SizeOf(i - 1) + 1
    IN  [i \in Kinds |-> [pc |-> pc_[i], size |-> SizeOf(i), table |-> TableOf(i)]]

\* The words that occur: zero, the public input, g^k, a product, a digest.
Zero == [const |-> "zero"]
Pi == [const |-> "pi"]
G(k) == [g |-> k]
Square(x) == IF x = Zero THEN Zero ELSE [square |-> x]

BlockOf(bs, i) == CHOOSE b \in ToSet(bs) : b.table = TableOf(i) /\ b.size = SizeOf(i)

\* The cycles of a plan, in the order of the tables: pc, size, traversals.
Cycles(bs, plan) ==
    LET cycles[i \in 0 .. 6 * Len(Sizes)] ==
            IF i = 0 THEN <<>>
            ELSE IF Asked(plan, i) = 0 THEN cycles[i - 1]
            ELSE Append(cycles[i - 1], [pc |-> BlockOf(bs, i).pc, size |-> SizeOf(i), n |-> Asked(plan, i)])
    IN  cycles[6 * Len(Sizes)]

\* Variant: the dummies only.
RowsOfDummies(n, size) == n * size

\* A whole number of traversals.
RowsOf(n, size) == n * (size + 1)

Init ==
    /\ stage = "chain"
    /\ counts = [t \in Tables |-> 0]
    /\ \E n \in 2 .. MaxMain :
        /\ mem = [len |-> n, val |-> [a \in {0, 1} |-> Pi]]
        /\ halted = [counts |-> [t \in Tables |-> 0], len |-> n]
    /\ steps = 0 /\ left = 0 /\ pc = 0 /\ fp = 0
    /\ blocks \in {Emitted, <<>>}
    /\ runs = <<>>
    /\ cycle = [pc |-> 0, frame |-> 0]

\* A written cell keeps its word.
Put(val, words) ==
    [a \in DOMAIN val \cup DOMAIN words |-> IF a \in DOMAIN val THEN val[a] ELSE words[a]]

\* What the interpreter puts in the frame of each cycle: the first instruction of
\* the block, this frame, cell 0.
FrameAt(start, j) == start + (j - 1) * CELLS
FrameWords(cs, start) ==
    [a \in {FrameAt(start, j) + o : j \in DOMAIN cs, o \in {DEST, NEXT_FP, PTR}} |->
        LET j == ((a - start) \div CELLS) + 1
            o == (a - start) % CELLS
        IN  IF o = DEST THEN G(cs[j].pc) ELSE IF o = NEXT_FP THEN G(FrameAt(start, j)) ELSE G(0)]

\* The frames and runs of the cycles that were planned.
StartFill(cs, start) ==
    /\ stage' = "fill"
    /\ mem' = [len |-> start + Len(cs) * CELLS, val |-> Put(mem.val, FrameWords(cs, start))]
    /\ runs' = [i \in DOMAIN cs |-> [pc |-> cs[i].pc, frame |-> FrameAt(start, i),
                                     rows |-> RowsOf(cs[i].n, cs[i].size)]]

\* The chain is at the last slot, with any counts: outside main is a fault, and so is
\* that no plan is found; a program without blocks fills nothing.
Halt ==
    /\ stage = "chain"
    /\ \E base \in [Tables -> 0 .. MaxBase] :
        /\ Total(base) <= MaxSteps
        /\ counts' = base /\ steps' = Total(base)
        /\ halted' = [halted EXCEPT !.counts = base]
        /\ \/ stage' = "failed" /\ UNCHANGED <<mem, runs>>
           \/ blocks = <<>> /\ stage' = "fill" /\ UNCHANGED <<mem, runs>>
           \/ /\ blocks # <<>>
              /\ \E plan \in {Plan(base, FirstFrame(mem.len))} :
                    IF plan = None THEN stage' = "failed" /\ UNCHANGED <<mem, runs>>
                    ELSE \E cs \in {Cycles(blocks, plan)} : StartFill(cs, FirstFrame(mem.len))
    /\ UNCHANGED <<blocks, cycle, left, pc, fp>>

\* A cycle has run its rows: the next.
EnterCycle ==
    /\ stage = "fill" /\ left = 0 /\ runs # <<>>
    /\ cycle' = [pc |-> Head(runs).pc, frame |-> Head(runs).frame]
    /\ pc' = cycle'.pc /\ fp' = cycle'.frame
    /\ left' = Head(runs).rows
    /\ runs' = Tail(runs)
    /\ UNCHANGED <<stage, counts, mem, steps, blocks, halted>>

Finish ==
    /\ stage = "fill" /\ left = 0 /\ runs = <<>>
    /\ stage' = "done"
    /\ UNCHANGED <<counts, mem, steps, blocks, runs, cycle, left, pc, fp, halted>>

-----------------------------------------------------------------------------
(***************************************************************************)
(* A row of a block.                                                       *)
(***************************************************************************)

\* The block at pc, and whether pc is its closing jump.
BlockAt(p) == CHOOSE b \in ToSet(blocks) : p \in b.pc .. b.pc + b.size
Closes(p) == p = BlockAt(p).pc + BlockAt(p).size

\* The word at an offset: zero if nothing has written it.
At(o) == IF fp + o \in DOMAIN mem.val THEN mem.val[fp + o] ELSE Zero

ReadBy(t) ==
    CASE t \in {XOR, MUL} -> {SCRATCH}
      [] t = SET -> {}
      [] t = DEREF -> {PTR}
      [] t = JUMP -> {ZERO}
      [] t = BLAKE2S -> {ZERO, SCRATCH, SCRATCH + 1} \cup DIGEST + 2 .. DIGEST + 5

WrittenBy(t) ==
    CASE t \in {XOR, SET} -> [o \in {SCRATCH} |-> Zero]
      [] t = MUL -> [o \in {SCRATCH} |-> Square(At(SCRATCH))]
      [] t = DEREF -> [o \in {SCRATCH} |-> mem.val[At(PTR).g]]
      [] t = JUMP -> [o \in {} |-> Zero]
      [] t = BLAKE2S ->
            LET message == [o \in DIGEST + 2 .. DIGEST + 5 |-> At(o)]
                chain == <<At(SCRATCH), At(SCRATCH + 1)>>
            IN  [o \in {DIGEST, DIGEST + 1} |->
                    [half |-> o - DIGEST, of |-> <<message, chain, At(ZERO)>>]]

\* Reads pin zero in what is unwritten; a write of another value is a conflict.
Touched(reads, writes) ==
    LET cells == {fp + o : o \in reads \cup DOMAIN writes}
        pinned == Put(mem.val, [a \in {fp + o : o \in reads} |-> Zero])
        put == [a \in {fp + o : o \in DOMAIN writes} |-> writes[a - fp]]
        beyond == {a \in cells : a >= mem.len}
    IN  [conflict |-> \E a \in DOMAIN put \cap DOMAIN pinned : put[a] # pinned[a],
         mem |-> [len |-> IF beyond = {} THEN mem.len
                          ELSE 1 + CHOOSE a \in beyond : \A b \in beyond : b <= a,
                  val |-> Put(pinned, put)]]

Fail ==
    /\ stage' = "failed"
    /\ UNCHANGED <<counts, mem, steps, blocks, runs, cycle, left, pc, fp, halted>>

Dummy ==
    /\ stage = "fill" /\ left > 0 /\ ~Closes(pc)
    /\ LET t == BlockAt(pc).table
           touched == Touched(ReadBy(t), WrittenBy(t))
       IN  IF steps >= MaxSteps \/ touched.conflict
           THEN Fail
           ELSE /\ mem' = touched.mem
                /\ counts' = [counts EXCEPT ![t] = @ + 1]
                /\ steps' = steps + 1 /\ left' = left - 1
                /\ pc' = pc + 1
                /\ UNCHANGED <<stage, blocks, runs, cycle, fp, halted>>

\* Back to the top: the destination doubles as the condition.
Close ==
    /\ stage = "fill" /\ left > 0 /\ Closes(pc)
    /\ IF steps >= MaxSteps
       THEN Fail
       ELSE /\ counts' = [counts EXCEPT ![JUMP] = @ + 1]
            /\ steps' = steps + 1 /\ left' = left - 1
            /\ pc' = At(DEST).g /\ fp' = At(NEXT_FP).g
            /\ UNCHANGED <<stage, mem, blocks, runs, cycle, halted>>

Next == Halt \/ EnterCycle \/ Finish \/ Dummy \/ Close

Spec == Init /\ [][Next]_vars

-----------------------------------------------------------------------------
(***************************************************************************)
(* Properties.                                                             *)
(***************************************************************************)

\* is_filled, of the rows that were run and not of the plan: every table is a power
\* of two, at or above its floor. Tables other than JUMP and the one that pads are no
\* higher than they have to be.
EndsFilled ==
    stage = "done" /\ blocks # <<>> =>
        \A t \in Tables :
            /\ counts[t] >= halted.counts[t] /\ counts[t] >= MinRows[t]
            /\ counts[t] = CeilPow2(counts[t])
            /\ t \notin {JUMP, PAD_TABLE} =>
                  counts[t] < 2 * Larger(halted.counts[t], MinRows[t])

\* "The state tuples it pushes are exactly the ones it pulls": a cycle is left where
\* it was entered, in the same frame.
CyclesClose ==
    left = 0 => pc = cycle.pc /\ fp = cycle.frame

\* "Any number of times in one frame, given write-once memory": no dummy ever
\* writes a second value, so a fill fails at the step limit only.
DummiesRepeat ==
    stage = "failed" /\ left > 0 => steps = MaxSteps

\* "The memory the fill leaves is known before it runs": the witness is as large as
\* the plan was solved for.
WitnessReaches ==
    stage = "done" /\ blocks # <<>> => CommittedLog(mem.len, counts) >= MinLog

=============================================================================
