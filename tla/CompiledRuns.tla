---------------------------- MODULE CompiledRuns ----------------------------
(***************************************************************************)
(* Source programs compiled and run: every function lowered (module        *)
(* Lowering), labels and entries resolved, and the interpreter on what it  *)
(* made, with the hints.  A prover need not run a hint: it can leave one   *)
(* out, and put what it likes in a cell that is read before anything is    *)
(* written there.  No instruction can be left out.                         *)
(*                                                                         *)
(* What a program means is stated beside it (Means), independently of what *)
(* it is compiled to.                                                      *)
(***************************************************************************)
EXTENDS Lowering, Machine
LOCAL INSTANCE SequencesExt
LOCAL INSTANCE FiniteSetsExt

CONSTANTS Sources,  \* program name -> [ast, refused, trials, claims]: trials to
                    \* run it on, each [pi, wit], and the values its hints may be claimed to give
          Means(_, _, _), \* of a program, a public input and the values its hints give:
                    \* that it runs to its end
          Advice,   \* values a prover that lies puts in cells
          MaxLies,  \* bounds the hints it leaves out
          MaxSteps  \* bounds the instructions of a run

VARIABLES name,     \* the program
          stage,    \* "compile", "run"
          compiling,
          program,  \* what the compiler made
          trial, run,
          hinted,   \* the hints of the instruction at run.pc are dealt with
          lies, steps

vars == <<name, stage, compiling, program, trial, run, hinted, lies, steps>>

-----------------------------------------------------------------------------
(***************************************************************************)
(* The compilation of a program (lean_compiler/src/lib.rs): its functions   *)
(* are lowered one after the other, main first, and the lowering of one     *)
(* may queue others (the helpers of loops, copies made for Const            *)
(* arguments).  Then they are laid out in that order and what their         *)
(* instructions and hints name is resolved: entries, frame sizes, the last  *)
(* slot of the bytecode.  No blocks to fill tables with are added.          *)
(***************************************************************************)

\* A source program: its functions, and its constant arrays by name.
StartCompiling(ast) ==
  LET main   == FuncIn(ast.funcs, "main")
      others == SelectSeq(ast.funcs, LAMBDA f : f.name # "main")
      whole  == [queue |-> <<main>> \o others, loopBounds |-> << >>, loopCtr |-> 0,
                 defs |-> ast.funcs, constArrays |-> ast.constArrays]
  IN  [now |-> IF HasConstParams(main) \/ main.inline THEN Fail(StartOf(main, whole)) ELSE StartOf(main, whole),
       at |-> 1, lowered |-> << >>]

\* Functions with Const parameters, and inline ones, have no code of their own.
NextFunctions(c) ==
  {i \in c.at + 1..Len(c.now.queue) : ~HasConstParams(c.now.queue[i]) /\ ~c.now.queue[i].inline}

Refused(c)  == c.now.failed
Compiled(c) == ~Refused(c) /\ c.at > Len(c.now.queue)

Goto(c, i) == [c EXCEPT !.at = i, !.now = IF i > Len(@.queue) THEN @ ELSE StartOf(@.queue[i], @)]

CompileStep(c) ==
  IF ~Lowered(c.now) THEN [c EXCEPT !.now = LowerStep(@)]
  ELSE Goto([c EXCEPT !.lowered = Append(@, [name |-> c.now.fnName, code |-> c.now.code, frame |-> c.now.next])],
            IF NextFunctions(c) = {} THEN Len(c.now.queue) + 1 ELSE Min(NextFunctions(c)))

-----------------------------------------------------------------------------
(* What the code is resolved against. *)

CodeLen(ls) == FoldLeft(LAMBDA n, l : n + Len(l.code), 0, ls)
EntryAt(ls, i) == CodeLen(SubSeq(ls, 1, i - 1))
Named(ls, f)   == CHOOSE i \in 1..Len(ls) : ls[i].name = f
FrameOf(ls, f) == ls[Named(ls, f)].frame

\* The program ends in the last slot of a power of two.
BytecodeSize(ls) == CHOOSE n \in {2^k : k \in 0..KBits} : CodeLen(ls) + 1 <= n /\ n < 2 * (CodeLen(ls) + 1)

ResolveValue(ls, i, k) ==
  CASE k[1] = "Const" -> k[2]
    [] k[1] = "FrameSize" -> GPowOf(ls[i].frame)
    [] k[1] = "Entry" -> GPowOf(EntryAt(ls, Named(ls, k[2])))
    [] k[1] = "End"   -> GPowOf(BytecodeSize(ls) - 1)
    [] k[1] = "Local" -> GPowOf(EntryAt(ls, i) + k[2])

\* The frame that follows this one starts a frame size further.
ResolveOp(ls, i, op) ==
  CASE op.op = "NEXT" -> ArithOp("MUL", op.a, op.b, ls[i].frame + op.c)
    [] op.op = "SET"  -> SetOp(op.o, ResolveValue(ls, i, op.k))
    [] OTHER -> op

Alloc(ptr, size) == [hint |-> "Alloc", ptr |-> ptr, size |-> size]

ResolveLoopFrames(ls, h) ==
  IF h.count[1] = "Constant" THEN Alloc(h.ptr, FrameOf(ls, h.callee) * h.count[2])
  ELSE [hint |-> "AllocFrames", ptr |-> h.ptr, size |-> FrameOf(ls, h.callee), end |-> h.count[2],
        startInverse |-> EInv(GPowOf(h.count[3]))]

ResolveHint(ls, i, h) ==
  CASE h.hint = "NextFrameAddress" -> [hint |-> "FrameAddress", offset |-> ls[i].frame]
    [] h.hint = "AllocLoopFrames"  -> ResolveLoopFrames(ls, h)
    [] h.hint = "AllocFrame"       -> Alloc(h.ptr, FrameOf(ls, h.callee))
    [] h.hint = "AllocFrameMax"    -> Alloc(h.ptr, Max({FrameOf(ls, h.callees[j]) : j \in 1..Len(h.callees)}))
    [] h.hint = "AllocBuffer"      -> Alloc(h.ptr, h.size)
    [] h.hint = "AllocBufferDyn"   -> [hint |-> "AllocDyn", ptr |-> h.ptr, size |-> h.size]
    [] OTHER -> h

ResolveCode(ls, i) ==
  [j \in 1..Len(ls[i].code) |->
     [op |-> ResolveOp(ls, i, ls[i].code[j].op),
      hints |-> [k \in 1..Len(ls[i].code[j].hints) |-> ResolveHint(ls, i, ls[i].code[j].hints[k])] \o << >>]] \o << >>

Padding == [op |-> SetOp(0, EZero), hints |-> << >>]

\* The bytecode, the hints that run before each instruction, and main's frame.
ProgramOf(ls) ==
  LET code == FlattenSeq([i \in 1..Len(ls) |-> ResolveCode(ls, i)])
      all  == code \o [j \in 1..BytecodeSize(ls) - Len(code) |-> Padding]
  IN  [prog  |-> [j \in 1..Len(all) |-> all[j].op] \o << >>,
       hints |-> [j \in 1..Len(all) |-> all[j].hints] \o << >>,
       mainFrame |-> FrameOf(ls, "main")]

-----------------------------------------------------------------------------
(* The hints that run before an instruction (lean_vm/src/cpu/hints.rs and   *)
(* the hint half of execute.rs): the prover's own computations, which no    *)
(* table sees.  They choose where frames and buffers are, take the values   *)
(* of the witness streams, and compute bits, limbs and inverses.  An        *)
(* execution has the streams, and how many entries were taken of each.      *)

WithWitness(e, witness) ==
  [pc |-> e.pc, fp |-> e.fp, fault |-> e.fault, cells |-> e.cells, status |-> e.status, count |-> e.count,
   pcCount |-> e.pcCount, links |-> e.links, unread |-> e.unread, nextFree |-> e.nextFree, rows |-> e.rows,
   witness |-> witness, taken |-> [s \in DOMAIN witness |-> 0]]

\* The value of a cell as it is, zero when the memory does not reach it.
Peek(e, cell) == IF cell \in Addresses THEN e.cells[cell] ELSE EZero
At(e, o)      == Peek(e, e.fp + o)

Order == 2^KBits - 1

\* Fresh cells, from the first that is free; a pointer that is there stays.
Allocate(e, ptr, size) ==
  IF e.fp + ptr \in Addresses /\ Written(e, e.fp + ptr) THEN e
  ELSE IF e.nextFree + size >= Cells THEN Fault(e, "out of memory")
  ELSE Put([e EXCEPT !.nextFree = @ + size], e.fp + ptr, Lift(GPow(e.nextFree)))

\* One frame more than the loop has iterations: the bound over the start is a
\* power of g, and its exponent says.
AllocFrames(e, h) ==
  LET span == EMul(At(e, h.end), h.startInverse)
      n    == LogBelow(span[1], Cells - e.nextFree)
  IN  IF ~InK(At(e, h.end)) THEN Fault(e, "not in K")
      ELSE IF span = EZero THEN Fault(e, "not a g-power")
      ELSE IF n < 0 THEN Fault(e, "out of memory")
      ELSE Allocate(e, h.ptr, h.size * (n + 1))

AllocDyn(e, h) ==
  LET n == LogBelow(At(e, h.size)[1], Order)
  IN  IF ~InK(At(e, h.size)) THEN Fault(e, "not in K")
      ELSE IF n < 0 THEN Fault(e, "not a g-power")
      ELSE Allocate(e, h.ptr, n)

PutAll(e, start, values) ==
  LET put[i \in 0..Len(values)] == IF i = 0 THEN e ELSE Put(put[i - 1], start + i - 1, values[i])
  IN  put[Len(values)]

\* The next entry of a stream, which has to have the length asked for.
PopWitness(e, h, start) ==
  LET s == h.stream
      k == e.taken[s] + 1
  IN  IF s \notin DOMAIN e.witness THEN Fault(e, "no witness")
      ELSE IF k > Len(e.witness[s]) THEN Fault(e, "no witness")
      ELSE IF Len(e.witness[s][k]) # h.len THEN Fault(e, "no witness")
      ELSE PutAll([e EXCEPT !.taken[s] = k], start, e.witness[s][k])

\* Where bits are: in the frame, or behind a pointer.
BitsBase(e, dest) == IF dest[1] = "Stack" THEN e.fp + dest[2] ELSE AddressOf(At(e, dest[2]))

AtBits(e, dest, Fill(_)) == IF BitsBase(e, dest) < 0 THEN Fault(e, "not a g-power") ELSE Fill(BitsBase(e, dest))

CeilLog2(n) == CHOOSE k \in 0..n : n <= 2^k /\ \A j \in 0..k - 1 : 2^j < n

Log2CeilHint(e, h, base) ==
  LET bit(j) == IF Peek(e, base + j) = EZero THEN 0 ELSE 2^j
      word[j \in 0..h.nbits] == IF j = 0 THEN 0 ELSE word[j - 1] + bit(j - 1)
      log == IF word[h.nbits] <= 1 THEN 0 ELSE CeilLog2(word[h.nbits])
  IN  Put(e, e.fp + h.dst, Lift(GPow(IF log < h.floor THEN h.floor ELSE log)))

Bits(n, nbits) == [j \in 1..nbits |-> Lift(BitOf(n, j - 1))] \o << >>

\* The bits of an element of E, limb after limb.
WordBits(v, nbits) == [j \in 1..nbits |-> Lift(BitOf(v[1 + (j - 1) \div KBits], (j - 1) % KBits))] \o << >>

DecomposeExp(e, h) ==
  LET n == LogBelow(At(e, h.value)[1], Order)
  IN  IF ~InK(At(e, h.value)) THEN Fault(e, "not in K")
      ELSE IF n < 0 THEN Fault(e, "not a g-power")
      ELSE AtBits(e, h.bits, LAMBDA base : PutAll(e, base, Bits(n, h.nbits)))

RunHint(e, h) ==
  CASE h.hint \in {"FrameAddress", "Print"} -> e
    [] h.hint = "Alloc" -> Allocate(e, h.ptr, h.size)
    [] h.hint = "AllocFrames" -> AllocFrames(e, h)
    [] h.hint = "AllocDyn" -> AllocDyn(e, h)
    [] h.hint = "WitnessStack" -> PopWitness(e, h, e.fp + h.base)
    [] h.hint = "WitnessHeap" ->
         AtBits(e, <<"Heap", h.ptr>>, LAMBDA base : PopWitness(e, h, base + h.lo))
    [] h.hint = "Log2Ceil" -> AtBits(e, h.bits, LAMBDA base : Log2CeilHint(e, h, base))
    [] h.hint = "BitDecompose" ->
         AtBits(e, h.bits, LAMBDA base : PutAll(e, base, WordBits(At(e, h.value), h.nbits)))
    [] h.hint = "BitDecomposeExp" -> DecomposeExp(e, h)
    [] h.hint = "FieldLimbs" ->
         PutAll(e, e.fp + h.base, [j \in 1..h.len |-> Lift(At(e, h.value)[j])] \o << >>)
    [] h.hint = "Inverse" ->
         Put(e, e.fp + h.dst, IF At(e, h.value) = EZero THEN EZero ELSE EInv(At(e, h.value)))

\* A hint that fails ends the run.
RunHints(e, hs) ==
  LET after[i \in 0..Len(hs)] ==
        IF i = 0 THEN e ELSE IF after[i - 1].fault # "none" THEN after[i - 1] ELSE RunHint(after[i - 1], hs[i])
  IN  after[Len(hs)]

\* A program ends in main's frame.
HaltsOutsideMain(e, prog) == Halted(e, prog) /\ e.fp # 0

\* (named again because TLC evaluates a definition once, a constant it is given
\* an operator for at every use)
Programs == Sources
Values   == Advice

Nothing == [none |-> TRUE]

Init ==
  /\ name \in DOMAIN Programs
  /\ stage = "compile" /\ compiling = Nothing
  /\ program = Nothing /\ trial = Nothing /\ run = Nothing
  /\ hinted = FALSE /\ lies = 0 /\ steps = 0

Parse ==
  /\ stage = "compile" /\ compiling = Nothing
  /\ compiling' = StartCompiling(Programs[name].ast)
  /\ UNCHANGED <<name, stage, program, trial, run, hinted, lies, steps>>

\* A step of the compiler, which stops when it refuses the program.
Compile ==
  /\ stage = "compile" /\ compiling # Nothing /\ ~Refused(compiling) /\ ~Compiled(compiling)
  /\ compiling' = CompileStep(compiling)
  /\ UNCHANGED <<name, stage, program, trial, run, hinted, lies, steps>>

Assemble ==
  /\ stage = "compile" /\ compiling # Nothing /\ Compiled(compiling)
  /\ program' = ProgramOf(compiling.lowered)
  /\ stage' = "run" /\ compiling' = Nothing
  /\ UNCHANGED <<name, trial, run, hinted, lies, steps>>

Start ==
  /\ stage = "run" /\ run = Nothing
  /\ \E t \in Programs[name].trials :
       /\ trial' = t
       /\ run' = WithWitness(StartExecution(program.prog, t.pi, program.mainFrame), t.wit)
  /\ UNCHANGED <<name, stage, compiling, program, hinted, lies, steps>>

Running ==
  /\ stage = "run" /\ run # Nothing
  /\ run.fault = "none" /\ ~Halted(run, program.prog) /\ steps < MaxSteps

HintsHere == program.hints[run.pc + 1]
OpHere    == program.prog[run.pc + 1]

TakeHints ==
  /\ Running /\ ~hinted /\ HintsHere # << >>
  /\ run' = RunHints(run, HintsHere)
  /\ hinted' = TRUE
  /\ UNCHANGED <<name, stage, compiling, program, trial, lies, steps>>

IgnoreHints ==
  /\ Running /\ ~hinted /\ HintsHere # << >> /\ lies < MaxLies
  /\ hinted' = TRUE /\ lies' = lies + 1
  /\ UNCHANGED <<name, stage, compiling, program, trial, run, steps>>

\* The cells of the frame an instruction reads.
ReadBy(op) ==
  CASE op.op \in {"XOR", "MUL"} -> {op.a, op.b}
    [] op.op = "SET" -> {}
    [] op.op = "DEREF" -> {op.o1}
    [] op.op = "JUMP" -> {op.oc, op.od, op.of}
    [] op.op = "BLAKE2S" -> {op.ins[i] : i \in 1..4} \cup {op.cv, op.cv + 1, op.md}

Holds(o) == Written(run, run.fp + o)

\* A product is solved for the operand that is missing.
Solved(op) == op.op = "MUL" /\ Holds(op.c) /\ Holds(op.a) # Holds(op.b)
              /\ EZero \notin {run.cells[run.fp + o] : o \in {x \in {op.a, op.b} : Holds(x)}}

Free(op) ==
  IF \E o \in ReadBy(op) : run.fp + o \notin Addresses THEN {}
  ELSE IF op.op \in {"XOR", "MUL"} /\ (run.fp + op.c \notin Addresses \/ Solved(op)) THEN {}
  ELSE {o \in ReadBy(op) : ~Holds(o)}

\* What makes a sum right is a choice too.
OutcomesOf(op) ==
  Values \cup (IF op.op = "XOR" /\ Holds(op.c)
               THEN {EAdd(run.cells[run.fp + op.c], run.cells[run.fp + o]) : o \in {x \in {op.a, op.b} : Holds(x)}}
               ELSE {})

Settled == hinted \/ HintsHere = << >>

Advise ==
  /\ Running /\ Settled /\ lies > 0
  /\ \E o \in Free(OpHere), v \in OutcomesOf(OpHere) :
       /\ \A p \in Free(OpHere) : o <= p
       /\ run' = Put(run, run.fp + o, v)
  /\ UNCHANGED <<name, stage, compiling, program, trial, hinted, lies, steps>>

Step ==
  /\ Running /\ Settled /\ (lies > 0 => Free(OpHere) = {})
  /\ run' = ExecuteStep(run, program.prog)
  /\ hinted' = FALSE /\ steps' = steps + 1
  /\ UNCHANGED <<name, stage, compiling, program, trial, lies>>

Next == Parse \/ Compile \/ Assemble \/ Start \/ TakeHints \/ IgnoreHints \/ Advise \/ Step

Spec == Init /\ [][Next]_vars

-----------------------------------------------------------------------------

Ended == stage = "run" /\ run # Nothing /\ ~Running
Finished ==
  Ended /\ run.fault = "none" /\ Halted(run, program.prog) /\ ~HaltsOutsideMain(run, program.prog)

\* The compiler refuses the programs the language has no meaning for, and no
\* others.  (The checks of the lowering: a buffer's bounds, a name a loop cannot
\* take along, a value that has to be known.)
RefusesTheMeaningless ==
  /\ (stage = "compile" /\ compiling # Nothing) =>
       (Refused(compiling) => Programs[name].refused)
  /\ stage = "run" => ~Programs[name].refused

\* A prover that runs every hint gets to the end of the program exactly when
\* what it was written to say holds, and no cell is read before it is written:
\* nothing computed on one path, or left for one instruction, is used on
\* another.
RunsAsWritten ==
  (Ended /\ lies = 0) =>
    /\ Finished <=> Means(name, trial.pi, trial.wit)
    /\ Finished => run.unread = << >>

\* Whatever a prover leaves out or puts in, a run that gets to the end is one of
\* a program that says so of some values of its hints: no assertion, bound,
\* branch or return depends on a hint being run.
OnlyWhatIsMeant ==
  (Finished /\ lies > 0) => \E wit \in Programs[name].claims : Means(name, trial.pi, wit)
=============================================================================
