------------------------------- MODULE Cells -------------------------------
(***************************************************************************)
(* What the lowering of one function is made of (lean_compiler/src/        *)
(* lower.rs, lower/eval.rs, lower/mem.rs): what is known of an expression, *)
(* tasks, instructions, cells of the frame, names and addresses.  Whatever *)
(* is already known of a value, an integer, an element of E, an address    *)
(* g^exp or cell * g^exp, is folded instead of computed.                   *)
(*                                                                         *)
(* A lowering is a record s.  What is left to do is its list of tasks, and *)
(* a task may put others before the ones that follow it: the calls the     *)
(* compiler nests are tasks in sequence here.  What a task yields, a cell  *)
(* mostly, it pushes on vals, and the ones after it take it from there.    *)
(* A lowering that meets a program it refuses has failed.                  *)
(***************************************************************************)
EXTENDS Field, Integers, Sequences, FiniteSets, TLC
LOCAL INSTANCE SequencesExt

CONSTANTS MinLogMem,  \* log2 of the smallest memory: a compile-time range check holds at any
          IndexBound, \* bounds an index (2^32 in the program)
          IvCells     \* the two words of the standard chaining value

None == -1

FoldMax == 2^MinLogMem
IntBound == 2^(2 * KBits)  \* integers are of two limbs (u128)

-----------------------------------------------------------------------------
(***************************************************************************)
(* Source programs as the parser hands them to the compiler                *)
(* (lean_compiler/src/ast.rs), and the walks over them that need no        *)
(* lowering state: which names a loop body mentions and binds, what may be *)
(* expanded in place, and the substitution of a compile-time value for a   *)
(* name (parser/subst.rs).                                                 *)
(*                                                                         *)
(* An expression is a tuple: its kind, then its operands.  A leaf holds a  *)
(* number or a name, a call and a keyword argument a name before theirs.   *)
(* A statement is a record whose field "do" is its kind.  A shape is a     *)
(* number of cells, 0 for a scalar (which takes one); a parameter          *)
(* [name, const, shape]; a function [name, params, returns, body, inline]. *)
(***************************************************************************)

Var(v) == <<"Var", v>>
Lit(n) == <<"Lit", n>>

CellsOf(shape) == IF shape = 0 THEN 1 ELSE shape

HasConstParams(f) == \E i \in 1..Len(f.params) : f.params[i].const

IsLeaf(e) == e[1] \in {"Lit", "Gen", "GPow", "Var", "HeapBuf", "StackBuf"}

\* The positions of the operands in the tuple of e.
Operands(e) ==
  IF IsLeaf(e) THEN {} ELSE (IF e[1] \in {"Call", "Kw"} THEN 3 ELSE 2)..Len(e)

-----------------------------------------------------------------------------
(* Names. *)

\* What e mentions, in order.
RECURSIVE FreeVars(_)
FreeVars(e) ==
  IF e[1] = "Var" THEN <<e[2]>>
  ELSE FlattenSeq([i \in 1..Len(e) |-> IF i \in Operands(e) THEN FreeVars(e[i]) ELSE << >>])

RuntimeBound(b) == IF b[1] = "Runtime" THEN <<b[2]>> ELSE << >>

IsName(e) == e[1] = "Var"

\* The expressions a statement evaluates itself, in order.
Evaluated(s) ==
  CASE s.do = "Let" -> <<s.e>>
    [] s.do \in {"LetTuple", "Call"} -> s.args
    [] s.do \in {"AssertEq", "AssertNe", "If"} -> <<s.a, s.b>>
    [] s.do = "AssertLt" -> <<s.e>> \o RuntimeBound(s.bound)
    [] s.do = "HintWitness" -> <<s.dest>>
    [] s.do = "LetHintWitness" -> << >>
    [] s.do = "Print" -> <<s.value>>
    [] s.do = "Match" -> <<s.x>> \o s.arms \o SelectSeq(s.targets, LAMBDA t : ~IsName(t))
    [] s.do = "CallIfNe" -> <<s.a, s.b>> \o s.args
    [] s.do = "Store" -> <<s.arr, s.idx, s.val>>
    [] s.do = "Return" -> s.es
    [] s.do = "For" -> RuntimeBound(s.hi)
    [] s.do = "Unroll" -> <<s.lo, s.hi>>

\* The statements inside s.
Inside(s) ==
  CASE s.do = "If" -> s.then \o s.els
    [] s.do \in {"For", "Unroll"} -> s.body
    [] OTHER -> << >>

\* The names s binds where it stands.
Binds(s) ==
  CASE s.do \in {"Let", "LetHintWitness"} -> {s.name}
    [] s.do = "LetTuple" -> ToSet(s.names)
    [] s.do = "Match" -> {s.targets[i][2] : i \in {j \in 1..Len(s.targets) : IsName(s.targets[j])}}
    [] OTHER -> {}

\* The names bound anywhere in body, loop variables with them.
RECURSIVE BindsAnywhere(_)
BindsAnywhere(body) ==
  UNION {Binds(body[i]) \cup BindsAnywhere(Inside(body[i]))
           \cup (IF body[i].do \in {"For", "Unroll"} THEN {body[i].var} ELSE {}) : i \in 1..Len(body)}

\* A branch decided while compiling is straight-line code: what it binds stays.
IsFolded(s) == s.do = "If" /\ (s.const \/ (s.a[1] = "Lit" /\ s.b[1] = "Lit"))

\* What a body mentions, in order, and the names that are its own.
RECURSIVE Mentions(_)
Mentions(body) ==
  LET inner == [i \in 1..Len(body) |-> Mentions(Inside(body[i]))]
      own(i) == FlattenSeq([j \in 1..Len(Evaluated(body[i])) |-> FreeVars(Evaluated(body[i])[j])])
      kept(i) == IF body[i].do = "Unroll" THEN {body[i].var} \cup inner[i].bound
                 ELSE IF IsFolded(body[i]) THEN inner[i].bound ELSE {}
  IN  [refs  |-> FlattenSeq([i \in 1..Len(body) |-> own(i) \o inner[i].refs]),
       bound |-> UNION {Binds(body[i]) \cup kept(i) : i \in 1..Len(body)}]

RECURSIVE ContainsReturn(_)
ContainsReturn(body) ==
  \E i \in 1..Len(body) : body[i].do = "Return" \/ ContainsReturn(Inside(body[i]))

-----------------------------------------------------------------------------
(* What an inline function may hold: one return, its last statement, and    *)
(* no statement that needs a frame of its own.                              *)

RECURSIVE StmtsInlineSafe(_)
StmtsInlineSafe(body) ==
  \A i \in 1..Len(body) :
    /\ body[i].do \notin {"Return", "LetTuple", "For", "Match", "CallIfNe"}
    /\ StmtsInlineSafe(Inside(body[i]))

BodyInlinable(body) ==
  /\ body # << >>
  /\ Last(body).do = "Return"
  /\ StmtsInlineSafe(Front(body))

-----------------------------------------------------------------------------
(* Substitution: up to the statement that binds the name again. *)

RECURSIVE SubstVar(_, _, _)
SubstVar(e, name, to) ==
  IF e[1] = "Var" THEN IF e[2] = name THEN to ELSE e
  ELSE [i \in 1..Len(e) |-> IF i \in Operands(e) THEN SubstVar(e[i], name, to) ELSE e[i]] \o << >>

SubstAll(es, name, to) == [i \in 1..Len(es) |-> SubstVar(es[i], name, to)] \o << >>

SubstBound(b, name, to) == IF b[1] = "Runtime" THEN <<"Runtime", SubstVar(b[2], name, to)>> ELSE b

RECURSIVE SubstStmts(_, _, _)
SubstStmt(s, name, to) ==
  LET E(e)  == SubstVar(e, name, to)
      Es(e) == SubstAll(e, name, to)
      Loop  == IF s.var = name THEN s.body ELSE SubstStmts(s.body, name, to)
  IN  CASE s.do = "Let" -> [s EXCEPT !.e = E(@)]
        [] s.do \in {"LetTuple", "Call"} -> [s EXCEPT !.args = Es(@)]
        [] s.do \in {"AssertEq", "AssertNe"} -> [s EXCEPT !.a = E(@), !.b = E(@)]
        [] s.do = "AssertLt" -> [s EXCEPT !.e = E(@), !.bound = SubstBound(@, name, to)]
        [] s.do = "HintWitness" -> [s EXCEPT !.dest = E(@)]
        [] s.do = "LetHintWitness" -> s
        [] s.do = "Print" -> [s EXCEPT !.value = E(@)]
        [] s.do = "Store" -> [s EXCEPT !.arr = E(@), !.idx = E(@), !.val = E(@)]
        [] s.do = "Return" -> [s EXCEPT !.es = Es(@)]
        [] s.do = "CallIfNe" -> [s EXCEPT !.a = E(@), !.b = E(@), !.args = Es(@)]
        [] s.do = "For" -> [s EXCEPT !.hi = SubstBound(@, name, to), !.body = Loop]
        [] s.do = "Unroll" -> [s EXCEPT !.lo = E(@), !.hi = E(@), !.body = Loop]
        [] s.do = "If" -> [s EXCEPT !.a = E(@), !.b = E(@), !.then = SubstStmts(@, name, to),
                                    !.els = SubstStmts(@, name, to)]
        [] s.do = "Match" ->
             [s EXCEPT !.x = E(@), !.arms = Es(@),
                       !.targets = [i \in 1..Len(@) |-> IF IsName(@[i]) THEN @[i] ELSE E(@[i])] \o << >>]

SubstStmts(body, name, to) ==
  LET rebinding == {i \in 1..Len(body) : name \in Binds(body[i])}
      last == IF rebinding = {} THEN Len(body) ELSE CHOOSE i \in rebinding : \A j \in rebinding : i <= j
  IN  [i \in 1..Len(body) |-> IF i <= last THEN SubstStmt(body[i], name, to) ELSE body[i]] \o << >>

-----------------------------------------------------------------------------
(* What is known of an expression while compiling. *)

NoAddr == [base |-> None, exp |-> None, run |-> << >>]
GAddr(base, exp) == [base |-> base, exp |-> exp, run |-> << >>]

Unknown == [int |-> None, field |-> << >>, addr |-> NoAddr, bad |-> FALSE]

LitField(n) == <<n % 2^KBits, n \div 2^KBits, 0>>

\* g^e for any e: the order of g is 2^KBits - 1.
GPowOf(e) == Lift(GPow(e % (2^KBits - 1)))

IsPowerOfTwo(n) == \E j \in 0..2 * KBits - 1 : n = 2^j
Log2Of(n) == CHOOSE j \in 0..2 * KBits - 1 : n = 2^j

IntReading(n) == [Unknown EXCEPT !.int = n, !.field = LitField(n)]
PowerReading(exp) == [Unknown EXCEPT !.field = GPowOf(exp), !.addr = GAddr(None, exp)]

\* An integer that can be an index, None otherwise.
AsIndex(n) == IF n \in 0..IndexBound - 1 THEN n ELSE None

RECURSIVE FieldPow(_, _)
FieldPow(b, k) ==
  IF k = 0 THEN EOne
  ELSE LET half == FieldPow(EMul(b, b), k \div 2) IN IF k % 2 = 1 THEN EMul(b, half) ELSE half

\* n^k, None beyond two limbs.
RECURSIVE IntPow(_, _)
IntPow(n, k) ==
  IF k = 0 THEN 1
  ELSE LET below == IntPow(n, k - 1)
       IN  IF below = None \/ n * below >= IntBound THEN None ELSE n * below

\* A product of addresses has one base at most.
AddrMul(a, b) ==
  IF a.exp = None \/ b.exp = None \/ (a.base # None /\ b.base # None) \/ a.exp + b.exp >= IntBound
  THEN NoAddr
  ELSE [base |-> IF a.base = None THEN b.base ELSE a.base,
        exp |-> a.exp + b.exp,
        run |-> IF a.run = << >> THEN b.run ELSE a.run]

Checked(n) == IF n \in 0..IntBound - 1 THEN n ELSE None

\* An operation on two readings: as integers, as elements of E, as addresses.
CombinedReading(op, x, y) ==
  LET both == x.int # None /\ y.int # None
      ints == CASE op = "Add" -> Checked(x.int + y.int)
                [] op = "Sub" -> Checked(x.int - y.int)
                [] op = "Mul" -> Checked(x.int * y.int)
                [] op = "Div" -> x.int \div y.int
                [] op = "Mod" -> x.int % y.int
      fields == x.field # << >> /\ y.field # << >>
  IN  IF x.bad \/ y.bad \/ (op \in {"Div", "Mod"} /\ y.int = 0) THEN [Unknown EXCEPT !.bad = TRUE]
      ELSE [int   |-> IF both THEN ints ELSE None,
            field |-> CASE op = "Add" /\ fields -> EAdd(x.field, y.field)
                        [] op = "Mul" /\ fields -> EMul(x.field, y.field)
                        [] OTHER -> << >>,
            addr  |-> IF op = "Mul" THEN AddrMul(x.addr, y.addr) ELSE NoAddr,
            bad   |-> FALSE]

PowReading(x, y) ==
  LET k == AsIndex(y.int)
  IN  [Unknown EXCEPT !.int = IF x.int = None \/ k = None THEN None ELSE IntPow(x.int, k),
                      !.field = IF x.field = << >> \/ k = None THEN << >> ELSE FieldPow(x.field, k),
                      !.bad = x.bad \/ y.bad]

\* The two readings of a value differ: n as an integer is not what its cell holds.
Diverges(known) == known.int # None /\ known.field # << >> /\ known.field # LitField(known.int)

IsBound(s, v) == v \in DOMAIN s.scope.names

NameReading(b) ==
  CASE b.kind = "FConst" -> [Unknown EXCEPT !.int = b.int, !.field = b.v]
    [] b.kind = "Gaddr" ->
         [Unknown EXCEPT !.int = b.int, !.addr = b.ga,
                         !.field = IF b.ga.base = None THEN GPowOf(b.ga.exp) ELSE << >>]
    [] b.kind = "Scalar" -> [Unknown EXCEPT !.int = b.int, !.addr = GAddr(b.cell, 0)]
    [] b.kind = "Stack" -> [Unknown EXCEPT !.int = b.int]

RECURSIVE Eval(_, _), ConstLeavesAgree(_, _)
Eval(s, e) ==
  CASE e[1] = "Lit" ->
         [IntReading(e[2]) EXCEPT
            !.addr = IF e[2] < 2^KBits /\ IsPowerOfTwo(e[2]) THEN GAddr(None, Log2Of(e[2])) ELSE NoAddr]
    [] e[1] = "Gen"  -> PowerReading(1)
    [] e[1] = "GPow" -> PowerReading(e[2])
    [] e[1] = "GenPow" ->
         LET x == Eval(s, e[2])
         IN  IF AsIndex(x.int) = None THEN [Unknown EXCEPT !.bad = x.bad] ELSE PowerReading(x.int)
    [] e[1] = "Var" -> IF IsBound(s, e[2]) THEN NameReading(s.scope.names[e[2]]) ELSE Unknown
    [] e[1] \in {"Add", "Sub", "Mul", "Div", "Mod"} ->
         CombinedReading(e[1], Eval(s, e[2]), Eval(s, e[3]))
    [] e[1] = "Pow" -> PowReading(Eval(s, e[2]), Eval(s, e[3]))
    [] e[1] = "Index" /\ IsName(e[2]) ->
         IF e[2][2] \notin DOMAIN s.constArrays THEN Unknown
         ELSE LET i == AsIndex(Eval(s, e[3]).int)
                  a == s.constArrays[e[2][2]]
              IN  IF i = None THEN Unknown
                  ELSE IF i >= Len(a) THEN [Unknown EXCEPT !.bad = TRUE]
                  ELSE LET v == a[i + 1]
                       IN  [Unknown EXCEPT !.field = v,
                                           !.int = IF v[3] = 0 THEN v[1] + v[2] * 2^KBits ELSE None]
    [] e[1] = "Call" /\ e[2] = "f192" /\ Len(e) = 5 ->
         IF \A i \in 3..5 : e[i][1] = "Lit" /\ e[i][2] < 2^KBits
         THEN [Unknown EXCEPT !.field = <<e[3][2], e[4][2], e[5][2]>>] ELSE Unknown
    [] e[1] = "Call" /\ e[2] = "const" /\ Len(e) = 3 ->
         IF ~ConstLeavesAgree(s, e[3]) THEN [Unknown EXCEPT !.bad = TRUE]
         ELSE IF Eval(s, e[3]).int = None THEN Unknown ELSE IntReading(Eval(s, e[3]).int)
    [] e[1] = "Call" /\ e[2] = "len" /\ Len(e) = 3 /\ IsName(e[3]) ->
         IF e[3][2] \in DOMAIN s.constArrays THEN IntReading(Len(s.constArrays[e[3][2]])) ELSE Unknown
    [] OTHER -> Unknown

\* const(...) reads operators as integer arithmetic: its leaves must mean the
\* same number either way.
ConstLeavesAgree(s, e) ==
  IF e[1] \in {"Add", "Sub", "Mul", "Div", "Mod", "Pow"}
  THEN ConstLeavesAgree(s, e[2]) /\ ConstLeavesAgree(s, e[3])
  ELSE IF e[1] = "Call" /\ e[2] = "const" /\ Len(e) = 3 THEN ConstLeavesAgree(s, e[3])
  ELSE ~Diverges(Eval(s, e))

IndexOf(s, e) == AsIndex(Eval(s, e).int)
IsField(s, e, v) == Eval(s, e).field = v

\* A literal, or a name that reads as one.
LitOf(s, e) ==
  LET n == CASE e[1] = "Lit" -> e[2]
             [] e[1] = "Var" -> IF IsBound(s, e[2]) THEN s.scope.names[e[2]].int ELSE None
             [] e[1] = "GPow" -> IF e[2] = 0 THEN 1 ELSE None
             [] OTHER -> None
  IN  IF n < 2^KBits THEN n ELSE None

\* The exponent of a known power of g that an instruction can hold.
GPowRead(k) ==
  IF k.addr.exp # None /\ k.addr.base = None /\ k.addr.exp <= FoldMax THEN k.addr.exp
  ELSE IF k.int # None /\ k.int < 2^KBits /\ IsPowerOfTwo(k.int)
  THEN IF Log2Of(k.int) <= FoldMax /\ k.field = GPowOf(Log2Of(k.int)) THEN Log2Of(k.int) ELSE None
  ELSE None

ConstGPow(s, e) == GPowRead(Eval(s, e))

IsStack(s, e) == IsName(e) /\ IsBound(s, e[2]) /\ s.scope.names[e[2]].kind = "Stack"
StackOf(s, e) == s.scope.names[e[2]]

-----------------------------------------------------------------------------
(* Tasks, values, cells and instructions. *)

Fail(s)       == [s EXCEPT !.failed = TRUE, !.todo = << >>]
Run(s, tasks) == [s EXCEPT !.todo = tasks \o @]

Push(s, v) == [s EXCEPT !.vals = <<v>> \o @]
Drop(s, n) == [s EXCEPT !.vals = SubSeq(@, n + 1, Len(@))]

\* The n values pushed last, in the order they were.
LastPushed(s, n) == Reverse(SubSeq(s.vals, 1, n))

\* n cells, the first of them s.next.
Take(s, n) == [s EXCEPT !.next = @ + n]

Queue(s, hint) == [s EXCEPT !.pending = Append(@, hint)]

SetOp(o, k)       == [op |-> "SET", o |-> o, k |-> k]
ArithOp(op, a, b, c) == [op |-> op, a |-> a, b |-> b, c |-> c]
DerefOp(o1, o2, o3, mode) == [op |-> "DEREF", o1 |-> o1, o2 |-> o2, o3 |-> o3, mode |-> mode]
JumpOp(oc, od, of) == [op |-> "JUMP", oc |-> oc, od |-> od, of |-> of]

Noted(f, key, v) == IF key \in DOMAIN f THEN f ELSE f @@ (key :> v)

\* The hints queued so far run before the instruction emitted next.  A load or
\* store ties a heap cell to a frame cell: reads can use the latter.
Emit(s, op) ==
  [s EXCEPT !.code = Append(@, [op |-> op, hints |-> s.pending]), !.pending = << >>,
            !.scope.load = IF op.op = "DEREF" /\ op.mode = "Cell" THEN Noted(@, <<op.o1, op.o2>>, op.o3) ELSE @]

EmitAll(s, ops) == FoldLeft(Emit, s, ops)

SetConst(s, o, v) == Emit(s, SetOp(o, <<"Const", v>>))

\* An instruction that does nothing, to hang a queued hint on.
Anchor(s) == SetConst(Take(s, 1), s.next, EZero)

\* The cell of a constant, set once in a scope.
ConstCell(s, v) ==
  IF v \in DOMAIN s.scope.const THEN Push(s, s.scope.const[v])
  ELSE Push([SetConst(Take(s, 1), s.next, v) EXCEPT !.scope.const = @ @@ (v :> s.next)], s.next)

One(s) == ConstCell(s, EOne)

\* The cell of a op b, for the two cells pushed last: computed once in a scope.
Pure(s, op) ==
  LET b   == s.vals[1]
      a   == s.vals[2]
      key == IF a <= b THEN <<op, a, b>> ELSE <<op, b, a>>
      t   == Drop(s, 2)
  IN  IF key \in DOMAIN s.scope.pure THEN Push(t, s.scope.pure[key])
      ELSE Push([Emit(Take(t, 1), ArithOp(op, a, b, s.next)) EXCEPT !.scope.pure = @ @@ (key :> s.next)],
                s.next)

\* a op b into c, for the three cells pushed last.
Emit3(s, op) == Emit(Drop(s, 3), ArithOp(op, s.vals[3], s.vals[2], s.vals[1]))

\* The frame's own address: g^0 in main, elsewhere stored and read back.
SelfFp(s) ==
  IF s.isMain THEN One(s)
  ELSE IF s.scope.selfFp # None THEN Push(s, s.scope.selfFp)
  ELSE [Push(EmitAll(Queue(Take(s, 2), [hint |-> "AllocBuffer", ptr |-> s.next, size |-> 1]),
                     <<DerefOp(s.next, 0, 0, "Fp"), DerefOp(s.next, 0, s.next + 1, "Cell")>>),
             s.next + 1)
        EXCEPT !.scope.selfFp = s.next + 1]

\* Instructions are numbered from 0; Local names one of this function's.
Patch(s, i, target) == [s EXCEPT !.code[i + 1].op.k = <<"Local", target>>]
Here(s) == Len(s.code)

\* Variant: what one path computed is taken as known after the join.
JoinKnowing(s, scope) == IF s.pending # << >> THEN Anchor(s) ELSE s

\* The join after a branch: what it computed is not known to the other path.
Join(s, scope) ==
  [(IF s.pending # << >> THEN Anchor(s) ELSE s) EXCEPT !.scope = scope]

\* Tasks the operators below hand out.
Ev(e)        == <<"Ev", e>>
EvAll(es)    == [i \in 1..Len(es) |-> Ev(es[i])] \o << >>
Into(e, dst) == <<"Into", e, dst>>
Cell(c)      == <<"Cell", c>>
Const(v)     == <<"Const", v>>
XorOf(a, b)  == <<Ev(a), Ev(b), <<"Pure", "XOR">>>>
Copy(src, dst) == <<Cell(src), Const(EOne), Cell(dst), <<"Emit3", "MUL">>>>
CopyRun(src, dst, n) == FlattenSeq([k \in 1..n |-> Copy(src + k - 1, dst + k - 1)])
Stmts(body)  == [i \in 1..Len(body) |-> <<"Stmt", body[i], FALSE>>] \o << >>

-----------------------------------------------------------------------------
(* Names. *)

ScalarAt(cell)       == [kind |-> "Scalar", cell |-> cell, int |-> None]
StackAt(base, size)  == [kind |-> "Stack", base |-> base, size |-> size, int |-> None]
GaddrOf(ga)          == [kind |-> "Gaddr", ga |-> ga, int |-> None]
FConstOf(v)          == [kind |-> "FConst", v |-> v, int |-> None]
SameStack(s, e)      == StackAt(StackOf(s, e).base, StackOf(s, e).size)

\* The name of a constant array is reserved.
Rebind(s, name, b) ==
  IF name \in DOMAIN s.constArrays THEN Fail(s)
  ELSE [s EXCEPT !.scope.names = (name :> b) @@ @]

RebindAll(s, binds) == FoldLeft(LAMBDA acc, b : Rebind(acc, b[1], b[2]), s, binds)

\* How a returned value is bound: as an alias, or as the cell it went to.
RetBinding(binds, i, dst) ==
  IF binds # << >> /\ i <= Len(binds[1]) /\ binds[1][i].kind \in {"Stack", "Gaddr"} THEN binds[1][i]
  ELSE ScalarAt(dst)

\* A function of the program, else a generated one.
IsDefined(s, f) == \E i \in 1..Len(s.defs) : s.defs[i].name = f
IsQueued(s, f)  == \E i \in 1..Len(s.queue) : s.queue[i].name = f
IsCallee(s, f)  == IsDefined(s, f) \/ IsQueued(s, f)
FuncIn(fs, f)   == fs[CHOOSE i \in 1..Len(fs) : fs[i].name = f]
Def(s, f)       == FuncIn(s.defs, f)
CalleeDef(s, f) == IF IsDefined(s, f) THEN Def(s, f) ELSE FuncIn(s.queue, f)
IsInline(s, f)  == IsDefined(s, f) /\ Def(s, f).inline

Shapes(params) == [i \in 1..Len(params) |-> params[i].shape] \o << >>

-----------------------------------------------------------------------------
(* The frame: where to return, the frame to return to, the arguments, the   *)
(* returned values; then, in a loop, its own address; then everything else. *)

RetPc == 0
RetFp == 1

RECURSIVE Width(_)
Width(shapes) == IF shapes = << >> THEN 0 ELSE CellsOf(shapes[1]) + Width(Tail(shapes))

\* Where the i-th of some values is, the first one being at start.
PlaceOf(start, shapes, i) == start + Width(SubSeq(shapes, 1, i - 1))

ArgAt(shapes, i)    == PlaceOf(2, shapes, i)
RetAt(argCells, i)  == 2 + argCells + i
AbiEnd(argCells, n) == RetAt(argCells, n)

-----------------------------------------------------------------------------
(* Addresses (lower/mem.rs). *)

\* A known address: its base cell, times g^exp when that is not one.
Materialize(s, ga) ==
  IF ga.base = None THEN ConstCell(s, GPowOf(ga.exp))
  ELSE IF ga.exp = 0 THEN Push(s, ga.base)
  ELSE Pure(ConstCell(Push(s, ga.base), GPowOf(ga.exp)), "MUL")

\* Variant: the index after the last one is taken.
FrameCellPastEnd(s, arr, idx) ==
  LET k == IndexOf(s, idx)
  IN  IF k = None \/ k > StackOf(s, arr).size THEN None ELSE StackOf(s, arr).base + k

\* The element of a frame buffer at a compile-time index, None if it has none.
FrameCell(s, arr, idx) ==
  LET k == IndexOf(s, idx)
  IN  IF k = None \/ k >= StackOf(s, arr).size THEN None ELSE StackOf(s, arr).base + k

\* An access at a known distance into a buffer of known length has to stay in it.
Bounded(s, ga, exp, span) ==
  (ga.exp # None /\ ga.base # None) =>
     IF ga.run # << >> THEN ga.run[1] <= exp /\ exp + span <= ga.run[1] + ga.run[2]
     ELSE ga.base \in DOMAIN s.heapSizes => exp + span <= s.heapSizes[ga.base]

InHeapBound(s, arr, extra, span) ==
  LET ga == Eval(s, arr).addr IN Bounded(s, ga, ga.exp + extra, span)

\* addr(buf), once the frame's address is pushed: where the buffer is in memory.
IsAddrOf(s, args) == Len(args) = 1 /\ IsStack(s, args[1])
StackAddr(own, buf) == [base |-> own, exp |-> buf.base, run |-> <<buf.base, buf.size>>]

\* arr * g^extra as an instruction addresses it: a pointer cell and an offset.
HeapBase(s, arr, extra) ==
  LET ga == Eval(s, arr).addr
  IN  IF ~InHeapBound(s, arr, extra, 1) THEN Fail(s)
      ELSE IF ga.exp # None /\ ga.base # None /\ ga.exp + extra <= FoldMax
      THEN Push(s, <<ga.base, ga.exp + extra>>)
      ELSE Run(s, <<Ev(arr)>> \o (IF extra = 0 THEN << >> ELSE <<Const(GPowOf(extra)), <<"Pure", "MUL">>>>)
                    \o <<<<"At", 0>>>>)

\* arr * idx at run time, a constant factor of idx left to the instruction.
ArrayPtr(s, arr, idx) ==
  LET by(e, k) == Run(s, <<Ev(arr), Ev(e), <<"Pure", "MUL">>, <<"At", k>>>>)
      split(k, l) == IF k # None THEN by(idx[3], k) ELSE IF l # None THEN by(idx[2], l) ELSE by(idx, 0)
  IN  IF idx[1] = "Mul" THEN split(ConstGPow(s, idx[2]), ConstGPow(s, idx[3])) ELSE by(idx, 0)

\* A bare integer other than 1 names no heap cell: an index is a power of g.
IsNoIndex(s, idx, known) ==
  known.bad \/ (known.field # << >> /\ (LitOf(s, idx) \notin {None, 1} \/ known.addr.exp = None))

HeapAddrAt(s, arr, idx, known, ab) ==
  IF IsNoIndex(s, idx, known) THEN Fail(s)
  ELSE IF known.addr.exp # None /\ known.addr.base = None THEN HeapBase(s, arr, known.addr.exp)
  ELSE IF known.addr.exp # None /\ ab.exp # None /\ ab.base # None /\ ab.exp + known.addr.exp <= FoldMax
  THEN Run(s, <<Cell(ab.base), Cell(known.addr.base), <<"Pure", "MUL">>, <<"At", ab.exp + known.addr.exp>>>>)
  ELSE ArrayPtr(s, arr, idx)

HeapAddr(s, arr, idx) == HeapAddrAt(s, arr, idx, Eval(s, idx), Eval(s, arr).addr)

\* The constant k of a slice i : i + k, None when it is not one.
PlusK(lo, hi) ==
  IF hi[1] # "Add" THEN None
  ELSE IF hi[2][1] = "Lit" /\ hi[3] = lo THEN hi[2][2]
  ELSE IF hi[3][1] = "Lit" /\ hi[2] = lo THEN hi[3][2]
  ELSE None

\* A run of cells, of the length wanted if there is one (a hash takes pairs).
StackRun(base, len) == [at |-> "Stack", base |-> base, len |-> len]
PushRun(s, run, want) == IF want \in {None, run.len} THEN Push(s, run) ELSE Fail(s)

ConstSlice(s, arr, lo, hi, want) ==
  IF lo >= hi THEN Fail(s)
  ELSE IF IsStack(s, arr)
  THEN IF hi > StackOf(s, arr).size THEN Fail(s)
       ELSE PushRun(s, StackRun(StackOf(s, arr).base + lo, hi - lo), want)
  ELSE IF ~InHeapBound(s, arr, lo, hi - lo) THEN Fail(s)
  ELSE Run(s, <<<<"HeapBase", arr, lo>>, <<"HeapRun", hi - lo, want>>>>)

RuntimeSlice(s, arr, lo, hi, want) ==
  LET k    == AsIndex(PlusK(lo, hi))
      from == Eval(s, lo).addr
  IN  IF IsStack(s, arr) \/ k \in {None, 0} THEN Fail(s)
      ELSE IF from.exp # None /\ from.base = None /\ ~InHeapBound(s, arr, from.exp, k) THEN Fail(s)
      ELSE Run(s, <<<<"Addr", arr, lo>>, <<"HeapRun", k, want>>>>)

CellRun(s, e, want) ==
  CASE IsStack(s, e) -> PushRun(s, StackRun(StackOf(s, e).base, StackOf(s, e).size), want)
    [] e[1] = "Slice" ->
         IF IndexOf(s, e[3]) # None /\ IndexOf(s, e[4]) # None
         THEN ConstSlice(s, e[2], IndexOf(s, e[3]), IndexOf(s, e[4]), want)
         ELSE RuntimeSlice(s, e[2], e[3], e[4], want)
    [] OTHER -> Fail(s)

HeapRun(s, len, want) ==
  PushRun(Drop(s, 1), [at |-> "Heap", ptr |-> s.vals[1][1], lo |-> s.vals[1][2], len |-> len], want)
=============================================================================
