----------------------------- MODULE Lowering -----------------------------
(***************************************************************************)
(* The lowering of one function (lean_compiler/src/lower.rs and lower/):   *)
(* expressions, statements, calls, branches and loops become instructions  *)
(* over cells of the frame.                                                *)
(***************************************************************************)
EXTENDS Cells
LOCAL INSTANCE SequencesExt

-----------------------------------------------------------------------------
(* Expressions. *)

IsZero(s, e) == Eval(s, e).field = EZero
IsOne(s, e)  == Eval(s, e).field = EOne

\* x + 0 and x * 1 are x: the operand left, if one is.
Simpler(s, e) ==
  LET Neutral(x) == IF e[1] = "Add" THEN IsZero(s, x) ELSE IsOne(s, x)
  IN  IF Neutral(e[2]) THEN <<e[3]>> ELSE IF Neutral(e[3]) THEN <<e[2]>> ELSE << >>

ArithFor(e) == IF e[1] = "Add" THEN "XOR" ELSE "MUL"

\* base^k by squaring, from the bit below the top one of k.
PowChain(s, k) ==
  LET base == s.vals[1]
      top  == CHOOSE j \in 0..2 * KBits : 2^j <= k /\ k < 2^(j + 1)
      step(bit) == <<<<"Dup">>, <<"Pure", "MUL">>>>
                   \o (IF BitOf(k, bit) = 1 THEN <<Cell(base), <<"Pure", "MUL">>>> ELSE << >>)
  IN  Run(s, FlattenSeq([i \in 1..top |-> step(top - i)]))

PowExpr(s, b, e) ==
  LET k == IndexOf(s, e)
  IN  IF k = None THEN Fail(s)
      ELSE IF k = 0 THEN Push(SetConst(Take(s, 1), s.next, EOne), s.next)
      ELSE Run(s, <<Ev(b), <<"PowChain", k>>>>)

\* The product that defines the quotient has it for its one unwritten operand.
Quotient(s) ==
  Push(Emit(Take(Drop(s, 2), 1), ArithOp("MUL", s.next, s.vals[1], s.vals[2])), s.next)

\* The cell of what a call returned: an alias, or where it went.
RetCell(s, dst) ==
  LET b == s.inlineStackRet[1][1]
      t == [s EXCEPT !.inlineStackRet = << >>]
  IN  IF s.inlineStackRet = << >> \/ s.inlineStackRet[1] = << >> THEN Push(t, dst)
      ELSE CASE b.kind = "Gaddr" -> Materialize(t, b.ga)
             [] b.kind = "Stack" -> IF b.size = 1 THEN Push(t, b.base) ELSE Fail(s)
             [] b.kind = "Scalar" -> Push(t, dst)

\* The tasks of a call for n results, and where these will be.
CallFor(s, f, args, n) == <<<<"CallFor", f, args, n>>>>
RetShapes(s, f, n) ==
  IF IsDefined(s, f) /\ ~IsInline(s, f) THEN Def(s, f).returns ELSE [i \in 1..n |-> 0] \o << >>
Homes(s, f, n) == [i \in 1..n |-> PlaceOf(s.next, RetShapes(s, f, n), i)] \o << >>

CallExpr(s, f, args) ==
  CASE f \in {"f192", "const"} -> Fail(s)
    [] f = "addr" -> IF IsAddrOf(s, args) THEN Run(s, <<<<"SelfFp">>, <<"AddrOf", args[1]>>>>) ELSE Fail(s)
    [] f = "hint_log2_ceil" ->
         IF Len(args) # 3 \/ IndexOf(s, args[2]) = None \/ IndexOf(s, args[3]) = None THEN Fail(s)
         ELSE Run(s, <<<<"BitsDest", args[1], IndexOf(s, args[2])>>,
                       <<"Log2Ceil", IndexOf(s, args[2]), IndexOf(s, args[3])>>>>)
    [] OTHER -> Run(s, CallFor(s, f, args, 1) \o <<<<"RetCell", Homes(s, f, 1)[1]>>>>)

AddrOf(s, e) == Materialize(Drop(s, 1), StackAddr(s.vals[1], StackOf(s, e)))

NewHeapBuf(s, n) ==
  Push(Queue([Take(s, 1) EXCEPT !.heapSizes = (s.next :> n) @@ @],
             [hint |-> "AllocBuffer", ptr |-> s.next, size |-> n]), s.next)

NewHeapBufDyn(s) ==
  Push(Queue(Take(Drop(s, 1), 1), [hint |-> "AllocBufferDyn", ptr |-> s.next, size |-> s.vals[1]]), s.next)

IndexExpr(s, arr, idx) ==
  IF ~IsStack(s, arr) THEN Run(s, <<<<"Addr", arr, idx>>, <<"Load">>>>)
  ELSE IF FrameCell(s, arr, idx) = None THEN Fail(s)
  ELSE Push(s, FrameCell(s, arr, idx))

\* A heap cell already tied to a frame cell is not loaded again.
Load(s) ==
  LET at == s.vals[1]
      t  == Drop(s, 1)
  IN  IF at \in DOMAIN s.scope.load THEN Push(t, s.scope.load[at])
      ELSE Push(Emit(Take(t, 1), DerefOp(at[1], at[2], s.next, "Cell")), s.next)

VarExpr(s, v) ==
  LET b == s.scope.names[v]
  IN  IF ~IsBound(s, v) THEN Fail(s)
      ELSE CASE b.kind = "Gaddr"  -> Materialize(s, b.ga)
             [] b.kind = "Scalar" -> Push(s, b.cell)
             [] OTHER -> Fail(s)

\* The cell that holds e.  What is known is set, once in a scope.
Expr(s, e) ==
  LET known == Eval(s, e)
  IN  IF known.bad THEN Fail(s)
      ELSE IF known.field # << >> THEN ConstCell(s, known.field)
      ELSE CASE e[1] = "Var" -> VarExpr(s, e[2])
             [] e[1] = "Pow" -> PowExpr(s, e[2], e[3])
             [] e[1] \in {"Add", "Mul"} ->
                  IF Simpler(s, e) # << >> THEN Run(s, <<Ev(Simpler(s, e)[1])>>)
                  ELSE Run(s, <<Ev(e[2]), Ev(e[3]), <<"Pure", ArithFor(e)>>>>)
             [] e[1] = "FieldDiv" -> Run(s, <<Ev(e[2]), Ev(e[3]), <<"Quotient">>>>)
             [] e[1] = "Call" -> CallExpr(s, e[2], SubSeq(e, 3, Len(e)))
             [] e[1] = "HeapBuf" -> NewHeapBuf(s, e[2])
             [] e[1] = "HeapBufDyn" -> Run(s, <<Ev(e[2]), <<"NewHeapBufDyn">>>>)
             [] e[1] = "Index" -> IndexExpr(s, e[2], e[3])
             [] OTHER -> Fail(s)

IndexInto(s, arr, idx, dst) ==
  IF ~IsStack(s, arr) THEN Run(s, <<<<"Addr", arr, idx>>, <<"LoadTo", dst>>>>)
  ELSE IF FrameCell(s, arr, idx) = None THEN Fail(s)
  ELSE Run(s, Copy(FrameCell(s, arr, idx), dst))

LoadTo(s, dst) == Emit(Drop(s, 1), DerefOp(s.vals[1][1], s.vals[1][2], dst, "Cell"))

MoveTo(s, dst) == IF s.vals[1] = dst THEN Drop(s, 1) ELSE Run(Drop(s, 1), Copy(s.vals[1], dst))

\* e into a cell of the caller's choice, which may be written already: then the
\* write asserts.  So nothing computed earlier stands in for it.
ExprInto(s, e, dst) ==
  LET known == Eval(s, e)
  IN  IF known.bad THEN Fail(s)
      ELSE IF known.field # << >> THEN SetConst(s, dst, known.field)
      ELSE CASE e[1] = "Index" -> IndexInto(s, e[2], e[3], dst)
             [] e[1] \in {"Add", "Mul"} ->
                  IF Simpler(s, e) # << >> THEN Run(s, <<Into(Simpler(s, e)[1], dst)>>)
                  ELSE Run(s, <<Ev(e[2]), Ev(e[3]), Cell(dst), <<"Emit3", ArithFor(e)>>>>)
             [] e[1] = "Call" ->
                  Run([s EXCEPT !.inlineStackRet = << >>],
                      <<<<"CallInto", e[2], SubSeq(e, 3, Len(e)), <<dst>>>>, <<"RetCell", dst>>, <<"MoveTo", dst>>>>)
             [] OTHER -> Run(s, <<Ev(e), <<"CopyTo", dst>>>>)

CopyTo(s, dst) == Run(Drop(s, 1), Copy(s.vals[1], dst))

-----------------------------------------------------------------------------
(* The statements that are built in (lower/builtins.rs). *)

\* The two cells of an input: a pair of the frame as it is, one of the heap loaded.
HashInput(e) ==
  IF e[1] = "ListLit" THEN <<<<"PairOf", Tail(e)>>>> ELSE <<<<"CellRun", e, 2>>, <<"LoadPair">>>>

PairOf(s, es) == IF Len(es) # 2 THEN Fail(s) ELSE Run(s, <<Ev(es[1]), Ev(es[2]), <<"Pair">>>>)
Pair(s) == Push(Drop(s, 2), <<s.vals[2], s.vals[1]>>)

LoadPair(s) ==
  LET run == s.vals[1]
      t   == s.next
  IN  IF run.at = "Stack" THEN Push(Drop(s, 1), <<run.base, run.base + 1>>)
      ELSE Push(EmitAll(Take(Drop(s, 1), 2), <<DerefOp(run.ptr, run.lo, t, "Cell"),
                                              DerefOp(run.ptr, run.lo + 1, t + 1, "Cell")>>), <<t, t + 1>>)

\* A chaining value is named by its first cell: two cells apart are copied together.
ChainCell(s) ==
  LET pair == s.vals[1]
      cv   == s.next
  IN  IF pair[2] = pair[1] + 1 THEN Push(Drop(s, 1), pair[1])
      ELSE Run(Take(Drop(s, 1), 2), Copy(pair[1], cv) \o Copy(pair[2], cv + 1) \o <<Cell(cv)>>)

DefaultCv(s) ==
  LET o == s.next
  IN  IF s.scope.iv # None THEN Push(s, s.scope.iv)
      ELSE Push([SetConst(SetConst(Take(s, 2), o, IvCells[1]), o + 1, IvCells[2]) EXCEPT
                   !.scope.iv = o,
                   !.scope.const = Noted(Noted(@, IvCells[1], o), IvCells[2], o + 1)], o)

HashKeys == {"cv", "counter", "final", "last_node", "md"}

\* Bytes hashed so far, and the two flags.
Metadata(counter, final, last) ==
  <<counter, (IF final # 0 THEN 1 ELSE 0) + (IF last # 0 THEN 2 ELSE 0), 0>>

LowerBlake2s(s, args) ==
  LET kws    == {i \in 1..Len(args) : args[i][1] = "Kw"}
      given  == {args[i][2] : i \in kws}
      kw(k)  == args[CHOOSE i \in kws : args[i][2] = k][3]
      custom == given \cap {"counter", "final", "last_node"} # {}
      known(k, default) == IF k \in given THEN Eval(s, kw(k)).int ELSE default
      words  == <<known("counter", 64), known("final", IF custom THEN 0 ELSE 1), known("last_node", 0)>>
  IN  IF \/ Len(args) < 3 \/ kws # 4..Len(args) \/ Cardinality(given) # Cardinality(kws)
         \/ ~(given \subseteq HashKeys) \/ ("md" \in given /\ custom)
         \/ ("cv" \in given /\ ~custom /\ "md" \notin given)
         \/ ("md" \notin given /\ (None \in {words[i] : i \in 1..3} \/ words[1] >= 2^KBits))
      THEN Fail(s)
      ELSE Run(s, HashInput(args[1]) \o HashInput(args[2])
                  \o <<<<"CellRun", args[3], 2>>, <<"HashOut">>>>
                  \o (IF "cv" \in given THEN HashInput(kw("cv")) \o <<<<"ChainCell">>>> ELSE <<<<"DefaultCv">>>>)
                  \o <<IF "md" \in given THEN Ev(kw("md")) ELSE Const(Metadata(words[1], words[2], words[3])),
                       <<"Hash", "md" \in given>>>>)

\* The digest goes to the frame: to the cells it is meant for, or to two that
\* are stored from.
HashOut(s) ==
  IF s.vals[1].at = "Stack" THEN Push(s, s.vals[1].base) ELSE Push(Take(s, 2), s.next)

\* A metadata word computed at run time is not the digest it is hashed into.
Hash(s, runtimeMd) ==
  LET md  == s.vals[1]
      cv  == s.vals[2]
      c   == s.vals[3]
      run == s.vals[4]
      hashed == Emit(Drop(s, 6), [op |-> "BLAKE2S", ins |-> s.vals[6] \o s.vals[5], cv |-> cv, out |-> c, md |-> md])
  IN  IF runtimeMd /\ md \in {c, c + 1} THEN Fail(s)
      ELSE IF run.at = "Stack" THEN hashed
      ELSE EmitAll(hashed, <<DerefOp(run.ptr, run.lo, c, "Cell"), DerefOp(run.ptr, run.lo + 1, c + 1, "Cell")>>)

\* Where bits are hinted to: cells of the frame, or a heap pointer.
BitsDest(s, e, nbits) ==
  IF IsStack(s, e)
  THEN IF StackOf(s, e).size < nbits THEN Fail(s) ELSE Push(s, <<"Stack", StackOf(s, e).base>>)
  ELSE IF ~InHeapBound(s, e, 0, nbits) THEN Fail(s) ELSE Run(s, <<Ev(e), <<"HeapDest">>>>)

HeapDest(s) == Push(Drop(s, 1), <<"Heap", s.vals[1]>>)

Log2Ceil(s, nbits, floor) ==
  Push(Queue(Take(Drop(s, 1), 1), [hint |-> "Log2Ceil", bits |-> s.vals[1], dst |-> s.next, nbits |-> nbits,
                                   floor |-> floor]), s.next)

LowerDecompose(s, f, args) ==
  LET nbits == IndexOf(s, args[3])
  IN  IF Len(args) # 3 \/ nbits = None THEN Fail(s)
      ELSE Run(s, <<<<"BitsDest", args[1], nbits>>, Ev(args[2]), <<"Decompose", f, nbits>>>>)

Decompose(s, f, nbits) ==
  Queue(Drop(s, 2), [hint |-> IF f = "hint_decompose_bits" THEN "BitDecompose" ELSE "BitDecomposeExp",
                     value |-> s.vals[1], bits |-> s.vals[2], nbits |-> nbits])

\* A jump not taken, whose two other operands have to be in K to be read.
LowerAssertInK(s, args) ==
  IF Len(args) # 2 THEN Fail(s) ELSE Run(s, EvAll(args) \o <<Const(EZero), <<"NoJump">>>>)

NoJump(s) == Emit(Drop(s, 3), JumpOp(s.vals[1], s.vals[3], s.vals[2]))

LowerLimbs(s, args) ==
  IF Len(args) # 2 \/ ~IsStack(s, args[1]) \/ StackOf(s, args[1]).size \notin 1..3 THEN Fail(s)
  ELSE Run(s, <<Ev(args[2]), <<"Limbs", StackOf(s, args[1]).base, StackOf(s, args[1]).size>>>>)

Limbs(s, base, len) ==
  Queue(Drop(s, 1), [hint |-> "FieldLimbs", value |-> s.vals[1], base |-> base, len |-> len])

Builtins == {"hint_decompose_bits", "hint_decompose_bits_exponent", "blake2s", "assert_in_k", "hint_f192_limbs"}

LowerBuiltin(s, f, args) ==
  CASE f \in {"hint_decompose_bits", "hint_decompose_bits_exponent"} -> LowerDecompose(s, f, args)
    [] f = "blake2s" -> LowerBlake2s(s, args)
    [] f = "assert_in_k" -> LowerAssertInK(s, args)
    [] f = "hint_f192_limbs" -> LowerLimbs(s, args)

\* The prover's values go straight to the cells, which nothing else writes.
HintWitness(s, stream) ==
  LET run == s.vals[1]
  IN  Queue(Drop(s, 1),
            IF run.at = "Stack" THEN [hint |-> "WitnessStack", stream |-> stream, base |-> run.base, len |-> run.len]
            ELSE [hint |-> "WitnessHeap", stream |-> stream, ptr |-> run.ptr, lo |-> run.lo, len |-> run.len])

-----------------------------------------------------------------------------
(* Assertions. *)

\* The zero cell is written again: that is the assertion.
LowerAssertEq(s, a, b) == Run(s, <<Ev(a), Ev(b), Const(EZero), <<"Emit3", "XOR">>>>)

LowerAssertNe(s, a, b) ==
  IF a[1] = "Lit" /\ b[1] = "Lit" THEN (IF a[2] = b[2] THEN Fail(s) ELSE s)
  ELSE Run(s, XorOf(a, b) \o <<<<"NonZero">>>>)

\* Variant: the product is not claimed to be 1.
NonZeroUnclaimed(s) ==
  LET inv == s.next
  IN  Emit(Queue(Take(Drop(s, 1), 2), [hint |-> "Inverse", value |-> s.vals[1], dst |-> inv]),
           ArithOp("MUL", s.vals[1], inv, s.next + 1))

\* x times its hinted inverse is written twice, the second time as 1.  The
\* product's cell is never shared: the write is the assertion.
NonZero(s) ==
  LET x   == s.vals[1]
      inv == s.next
      p   == s.next + 1
  IN  EmitAll(Queue(Take(Drop(s, 1), 2), [hint |-> "Inverse", value |-> x, dst |-> inv]),
              <<ArithOp("MUL", x, inv, p), SetOp(p, Const(EOne))>>)

\* g^(k-1), for the bound k or the run-time bound g^k.
LowerAssertLt(s, e, bound) ==
  LET k == bound[2]
  IN  IF bound[1] = "Const"
      THEN IF k < 1 \/ k > FoldMax THEN Fail(s) ELSE Run(s, <<Const(GPowOf(k - 1)), Ev(e), <<"InRange">>>>)
      ELSE IF Eval(s, k).field # << >> THEN Fail(s)
      ELSE Run(s, <<Ev(k), Const(Lift(KInverse[GPow(1)])), <<"Product">>, Ev(e), <<"InRange">>>>)

Product(s) == Push(Emit(Take(Drop(s, 2), 1), ArithOp("MUL", s.vals[2], s.vals[1], s.next)), s.next)

\* Variant: only x is shown to be an address.
InRangeOneSided(s) ==
  LET x == s.vals[1]
      y == s.next
  IN  EmitAll(Take(Drop(s, 2), 3), <<DerefOp(x, 0, y + 1, "Cell"), ArithOp("MUL", x, y, s.vals[2])>>)

\* Two accesses show that x and the y with x * y = g^(k-1) are both addresses.
InRange(s) ==
  LET x == s.vals[1]
      y == s.next
  IN  EmitAll(Take(Drop(s, 2), 3), <<DerefOp(x, 0, y + 1, "Cell"), ArithOp("MUL", x, y, s.vals[2]),
                                    DerefOp(y, 0, y + 2, "Cell")>>)

-----------------------------------------------------------------------------
(* Calls (lower/call.rs). *)

\* A Const argument, as the value substituted for the parameter: << >> when it
\* is not known while compiling.
ConstArg(s, a) ==
  CASE a[1] \in {"Lit", "GPow"} -> <<a>>
    [] a[1] = "Gen" -> << <<"GPow", 1>> >>
    [] OTHER -> IF IndexOf(s, a) = None THEN << >> ELSE <<Lit(IndexOf(s, a))>>

ConstsKnown(s, def, args) ==
  /\ Len(args) = Len(def.params)
  /\ \A i \in 1..Len(args) : def.params[i].const => ConstArg(s, args[i]) # << >>

\* The body with its Const parameters substituted, the first one first.
Specialized(s, def, args) ==
  LET body[i \in 0..Len(args)] ==
        IF i = 0 THEN def.body
        ELSE IF def.params[i].const THEN SubstStmts(body[i - 1], def.params[i].name, ConstArg(s, args[i])[1])
        ELSE body[i - 1]
  IN  body[Len(args)]

SpecializedName(s, def, args) ==
  LET name[i \in 0..Len(args)] ==
        IF i = 0 THEN def.name \o "_"
        ELSE IF def.params[i].const
        THEN LET c == ConstArg(s, args[i])[1]
             IN  name[i - 1] \o (IF c[1] = "Lit" THEN "_L" ELSE "_G") \o ToString(c[2])
        ELSE name[i - 1]
  IN  name[Len(args)]

\* The arguments, or parameters, that are left at run time.
AtRunTime(def, xs) ==
  LET left[i \in 0..Len(xs)] ==
        IF i = 0 THEN << >> ELSE IF def.params[i].const THEN left[i - 1] ELSE Append(left[i - 1], xs[i])
  IN  left[Len(xs)]

HasConsts(s, f) == IsDefined(s, f) /\ HasConstParams(Def(s, f))

\* What a call is a call of, and with what: a function with Const parameters
\* goes to a copy made for these arguments, once.
Target(s, f, args) ==
  IF HasConsts(s, f) THEN [f |-> SpecializedName(s, Def(s, f), args), args |-> AtRunTime(Def(s, f), args)]
  ELSE [f |-> f, args |-> args]

Specialize(s, f, args) ==
  LET def  == Def(s, f)
      name == SpecializedName(s, def, args)
  IN  IF ~HasConsts(s, f) THEN s
      ELSE IF ~ConstsKnown(s, def, args) THEN Fail(s)
      ELSE IF IsQueued(s, name) THEN s
      ELSE [s EXCEPT !.queue = Append(@, [name |-> name, params |-> AtRunTime(def, def.params),
                                          returns |-> def.returns, body |-> Specialized(s, def, args),
                                          inline |-> FALSE])]

\* The cell of an argument, or the cells of a buffer that is one.
ArgTasks(s, a, shape) ==
  IF shape = 0 THEN <<Ev(a)>> ELSE [k \in 1..shape |-> Cell(StackOf(s, a).base + k - 1)] \o << >>

\* A call, taken when the cell cond is not zero (always when there is none).
LowerCall(s, callee, args, cond, dsts, tail) ==
  IF ~IsCallee(s, callee) \/ Len(args) # Len(CalleeDef(s, callee).params) THEN Fail(s)
  ELSE Run(s, <<<<"Specialize", callee, args>>, <<"Pass", callee, args, cond, dsts, tail>>>>)

Pass(s, to, cond, dsts, tail) ==
  LET shapes  == Shapes(CalleeDef(s, to.f).params)
      fits(i) == shapes[i] # 0 => IsStack(s, to.args[i]) /\ StackOf(s, to.args[i]).size = shapes[i]
  IN  IF \E i \in 1..Len(shapes) : ~fits(i) THEN Fail(s)
      ELSE Run(s, FlattenSeq([i \in 1..Len(shapes) |-> ArgTasks(s, to.args[i], shapes[i])])
                  \o <<<<"Frame", to.f, cond, Width(shapes), dsts, tail>>>>)

DerefsFrom(ptr, offs) == [i \in 1..Len(offs) |-> DerefOp(ptr, offs[i][1], offs[i][2], "Cell")] \o << >>
Args(cells)           == [i \in 1..Len(cells) |-> <<1 + i, cells[i]>>] \o << >>
Results(args, dsts)   == [i \in 1..Len(dsts) |-> <<RetAt(args, i - 1), dsts[i]>>] \o << >>

\* The back edge of a loop whose frames are reserved together: the next frame is
\* one frame size on, and takes the arguments, its own address and where to return.
BackEdge(s, f, cond, cells) ==
  Run(SelfFp(Drop(s, Len(cells))), <<<<"FrameSize">>, <<"Pure", "MUL">>, <<"NextFrame", f, cond, cells>>>>)

FrameSize(s) ==
  Push(Queue(Emit(Take(s, 1), SetOp(s.next, <<"FrameSize">>)), [hint |-> "NextFrameAddress"]), s.next)

EnterNext(s, entry, f, cond, cells) ==
  LET one  == s.vals[1]
      nfp  == s.vals[2]
      offs == Args(cells) \o <<<<AbiEnd(Len(cells), 0), nfp>>, <<RetFp, RetFp>>, <<RetPc, RetPc>>>>
  IN  EmitAll(Drop(s, 2),
              <<SetOp(entry, <<"Entry", f>>)>>
              \o [i \in 1..Len(offs) |-> ArithOp("NEXT", offs[i][2], one, offs[i][1])]
              \o <<JumpOp(IF cond = None THEN one ELSE cond, entry, nfp)>>)

NextFrame(s, f, cond, cells) == EnterNext(One(Take(s, 1)), s.next, f, cond, cells)

\* Variant: as many frames as iterations.
LoopCountShort(s, f, cells) ==
  LET b == s.loopBounds[f]
  IN  IF b[2] # None THEN <<"Constant", b[2] - b[1]>> ELSE <<"Bound", cells[2], b[1]>>

\* How many frames a loop is given: one more than it has iterations.
LoopCount(s, f, cells) ==
  LET b == s.loopBounds[f]
  IN  IF b[2] # None THEN <<"Constant", b[2] - b[1] + 1>> ELSE <<"Bound", cells[2], b[1]>>

AllocHint(s, f, nfp, cells) ==
  IF f \in DOMAIN s.loopBounds
  THEN [hint |-> "AllocLoopFrames", ptr |-> nfp, callee |-> f, count |-> LoopCount(s, f, cells)]
  ELSE [hint |-> "AllocFrame", ptr |-> nfp, callee |-> f]

Entered(s, nfp, f, oc, cells, dsts, tail) ==
  LET n    == Len(cells)
      own  == IF f \in DOMAIN s.loopBounds THEN <<DerefOp(nfp, AbiEnd(n, 0), nfp, "Cell")>> ELSE << >>
      back == IF tail THEN <<DerefOp(nfp, RetFp, RetFp, "Cell"), DerefOp(nfp, RetPc, RetPc, "Cell")>>
              ELSE <<DerefOp(nfp, RetFp, 0, "Fp"), DerefOp(nfp, RetPc, 0, "Pc")>>
  IN  EmitAll(Queue(Emit(s, SetOp(nfp + 1, <<"Entry", f>>)), AllocHint(s, f, nfp, cells)),
              DerefsFrom(nfp, Args(cells)) \o own \o back \o <<JumpOp(oc, nfp + 1, nfp)>>
              \o DerefsFrom(nfp, Results(n, dsts)))

OrdinaryCall(s, f, cond, cells, dsts, tail) ==
  LET t == Take(Drop(s, Len(cells)), 2)
      o == One(t)
  IN  IF cond # None THEN Entered(t, s.next, f, cond, cells, dsts, tail)
      ELSE Entered(Drop(o, 1), s.next, f, o.vals[1], cells, dsts, tail)

Frame(s, f, cond, n, dsts, tail) ==
  IF tail /\ f = s.fnName /\ f \in DOMAIN s.loopBounds
  THEN BackEdge(s, f, cond, LastPushed(s, n))
  ELSE OrdinaryCall(s, f, cond, LastPushed(s, n), dsts, tail)

\* The parameter of an inline call: an alias of the argument where it can be.
InlineArg(s, a) ==
  LET ga == Eval(s, a).addr
  IN  IF IsStack(s, a) THEN Push(s, SameStack(s, a))
      ELSE IF ga.exp # None THEN Push(s, GaddrOf(ga))
      ELSE Run(s, <<Ev(a), <<"AsScalar">>>>)

AsScalar(s) == Push(Drop(s, 1), ScalarAt(s.vals[1]))

\* The body of an inline function, in this frame, over its own names.
Inline(s, f, args, dsts) ==
  LET def  == Def(s, f)
      body == Specialized(s, def, args)
      left == AtRunTime(def, args)
  IN  IF ~ConstsKnown(s, def, args) THEN Fail(s)
      ELSE IF Len(def.returns) # Len(dsts) \/ ~BodyInlinable(body) \/ f \in ToSet(s.inlineCalls) THEN Fail(s)
      ELSE Run(s, [i \in 1..Len(left) |-> <<"InlineArg", left[i]>>]
                  \o <<<<"Enter", f, AtRunTime(def, def.params), dsts, body>>>>)

Enter(s, f, params, dsts, body) ==
  LET binds == LastPushed(s, Len(params))
  IN  Run(RebindAll([Drop(s, Len(params)) EXCEPT !.scope.names = << >>, !.inlineRet = <<dsts>>,
                                                 !.inlineCalls = Append(@, f)],
                    [i \in 1..Len(params) |-> <<params[i].name, binds[i]>>]),
          Stmts(body) \o <<<<"Leave", s.scope.names, s.inlineRet, s.inlineCalls>>>>)

Leave(s, names, inlineRet, inlineCalls) ==
  [s EXCEPT !.scope.names = names, !.inlineRet = inlineRet, !.inlineCalls = inlineCalls]

\* A call whose results go to the cells dsts.
CallInto(s, f, args, dsts) ==
  IF f = "blake2s" THEN Fail(s)
  ELSE IF IsInline(s, f) THEN Inline(s, f, args, dsts)
  ELSE IF IsDefined(s, f) /\ (\/ Len(Def(s, f).returns) # Len(dsts)
                              \/ \E i \in 1..Len(dsts) : Def(s, f).returns[i] # 0)
  THEN Fail(s)
  ELSE Run(s, <<<<"Call", f, args, None, dsts, FALSE>>>>)

\* A call for n results, each in a fresh home; then how each is bound is known.
CallForHomes(s, f, args, n) ==
  LET shapes == RetShapes(s, f, n)
      homes  == Homes(s, f, n)
      t      == [Take(s, Width(shapes)) EXCEPT !.inlineStackRet = << >>]
      bind(i) == IF shapes[i] = 0 THEN ScalarAt(homes[i]) ELSE StackAt(homes[i], shapes[i])
  IN  IF f = "blake2s" THEN Fail(s)
      ELSE IF IsInline(s, f) THEN Run(t, <<<<"CallInto", f, args, homes>>>>)
      ELSE IF Len(shapes) # n THEN Fail(s)
      ELSE Run(t, <<<<"Call", f, args, None, [k \in 1..Width(shapes) |-> s.next + k - 1] \o << >>, FALSE>>,
                    <<"Returned", [i \in 1..n |-> bind(i)] \o << >>>>>>)

Returned(s, binds) == [s EXCEPT !.inlineStackRet = <<binds>>]

\* An inlined return binds its results rather than leave: an alias where it can.
ReturnInline(s, es) ==
  LET dsts == s.inlineRet[1]
      n    == IF Len(es) < Len(dsts) THEN Len(es) ELSE Len(dsts)
  IN  Run([s EXCEPT !.inlineRet = << >>],
          [i \in 1..n |-> <<"ReturnedAs", es[i], dsts[i]>>] \o <<<<"ReturnBound", n>>>>)

ReturnedAs(s, e, dst) ==
  LET ga == Eval(s, e).addr
  IN  IF IsStack(s, e) THEN Push(s, SameStack(s, e))
      ELSE IF ga.exp # None THEN Push(s, GaddrOf(ga))
      ELSE Run(s, <<Into(e, dst), <<"ReturnedIn", dst>>>>)

ReturnBound(s, n) == Returned(Drop(s, n), LastPushed(s, n))

\* A value to the caller: one cell, or the cells of a buffer.
ReturnCells(s, e, shape, at) ==
  IF shape = 0 THEN <<Into(e, at)>> ELSE CopyRun(StackOf(s, e).base, at, shape)

LowerReturn(s, es) ==
  LET fits(i) == s.returns[i] # 0 => IsStack(s, es[i]) /\ StackOf(s, es[i]).size = s.returns[i]
  IN  IF s.inlineRet # << >> THEN ReturnInline(s, es)
      ELSE IF s.isMain THEN s
      ELSE IF Len(es) # Len(s.returns) THEN Fail(s)
      ELSE IF \E i \in 1..Len(es) : ~fits(i) THEN Fail(s)
      ELSE Run(s, FlattenSeq([i \in 1..Len(es) |->
                    ReturnCells(s, es[i], s.returns[i], PlaceOf(RetAt(s.argCells, 0), s.returns, i))])
                  \o <<Const(EOne), <<"JumpBack">>>>)

JumpBack(s) == Emit(Drop(s, 1), JumpOp(s.vals[1], RetPc, RetFp))

-----------------------------------------------------------------------------
(* Dispatch: the cell x is g^j, and slot j of a table of jumps is two        *)
(* instructions on from slot j - 1.                                          *)

\* Where a match, or a call dispatched by one, leaves its results: elements of
\* frame buffers, and fresh cells for the names.
FreshBefore(targets, i) == Cardinality({j \in 1..i - 1 : IsName(targets[j])})
TargetCells(s, targets) ==
  [i \in 1..Len(targets) |->
     IF IsName(targets[i]) THEN s.next + FreshBefore(targets, i)
     ELSE IF targets[i][1] = "Index" /\ IsStack(s, targets[i][2])
     THEN FrameCell(s, targets[i][2], targets[i][3]) ELSE None] \o << >>

TakeTargets(s, targets) ==
  IF None \in ToSet(TargetCells(s, targets)) THEN Fail(s)
  ELSE Take(s, FreshBefore(targets, Len(targets) + 1))

Targets(s, targets) == Push(TakeTargets(s, targets), TargetCells(s, targets))

BindTargets(s, targets, cells) ==
  FoldLeft(LAMBDA acc, i : IF IsName(targets[i]) THEN Rebind(acc, targets[i][2], ScalarAt(cells[i])) ELSE acc,
           s, [i \in 1..Len(targets) |-> i])

\* The jump to base * x^2, where base is the address of the table that follows:
\* r holds the cell and the instruction that set it.  The slots jump on, each
\* with its own destination.
Slots(s, r, of, dests) ==
  LET d    == s.next
      c    == s.next + 1
      jump == EmitAll(Take(Drop(s, 1), 2), <<ArithOp("MUL", r.k, s.vals[1], d), JumpOp(r.one, d, r.fp)>>)
  IN  EmitAll(Patch(jump, r.kset, Here(jump)),
              FlattenSeq([j \in 1..Len(dests) |-> <<SetOp(c, dests[j]), JumpOp(r.one, c, of)>>]))

\* Arms inlined where they stand: x, its targets, the frame's address and one are
\* pushed.
LowerMatchDispatch(s, targets, arms) ==
  LET r == [one |-> s.vals[1], fp |-> s.vals[2], join |-> s.next, jset |-> Here(s), k |-> s.next + 1,
            kset |-> Here(s) + 1, cells |-> s.vals[3], targets |-> targets, arms |-> arms]
      x == s.vals[4]
  IN  Run(EmitAll(Take(Drop(s, 4), 2), <<SetOp(s.next, <<"Local", 0>>), SetOp(s.next + 1, <<"Local", 0>>)>>),
          <<Cell(x), Cell(x), <<"Pure", "MUL">>, <<"Arms", r>>>>)

Arms(s, r) ==
  LET t == Slots(s, r, r.fp, [j \in 1..Len(r.arms) |-> <<"Local", 0>>])
  IN  Run(t, <<<<"Arm", r @@ [base |-> t.next, end |-> t.next, slots |-> Here(t) - 2 * Len(r.arms)], 0>>>>)

\* Arm j.  The cells of the arms overlap: one of them runs.
Arm(s, r, j) ==
  LET arm == r.arms[j + 1]
  IN  IF Len(r.cells) # 1 /\ arm[1] # "Call" THEN Fail(s)
      ELSE Run(Patch([s EXCEPT !.next = r.base], r.slots + 2 * j, Here(s)),
               (IF Len(r.cells) = 1 THEN <<Into(arm, r.cells[1])>>
                ELSE <<<<"Forget">>, <<"CallInto", arm[2], SubSeq(arm, 3, Len(arm)), r.cells>>,
                       <<"CopyBinds", r.cells>>>>)
               \o <<<<"Join", s.scope>>, <<"ArmEnd", r, j>>>>)

Forget(s) == [s EXCEPT !.inlineStackRet = << >>]

\* The results of an inlined arm that were bound elsewhere, brought to their cells.
CopyBinds(s, cells) ==
  LET binds == s.inlineStackRet[1]
      n     == IF Len(binds) < Len(cells) THEN Len(binds) ELSE Len(cells)
      put(i) == CASE binds[i].kind = "Gaddr" -> <<<<"Materialize", binds[i].ga>>, <<"CopyTo", cells[i]>>>>
                  [] binds[i].kind = "Stack" -> Copy(binds[i].base, cells[i])
                  [] binds[i].kind = "Scalar" -> << >>
  IN  IF s.inlineStackRet = << >> THEN s
      ELSE IF \E i \in 1..n : binds[i].kind = "Stack" /\ binds[i].size # 1 THEN Fail(s)
      ELSE Run(Forget(s), FlattenSeq([i \in 1..n |-> put(i)]))

ArmEnd(s, r, j) ==
  LET last == j + 1 = Len(r.arms)
      end  == IF s.next > r.end THEN s.next ELSE r.end
      left == IF last THEN s ELSE Emit(s, JumpOp(r.one, r.join, r.fp))
      done == [left EXCEPT !.heapSizes = [c \in {k \in DOMAIN @ : k < r.base} |-> @[c]]]
  IN  IF ~last THEN Run(done, <<<<"Arm", [r EXCEPT !.end = end], j + 1>>>>)
      ELSE BindTargets(Patch([done EXCEPT !.next = end], r.jset, Here(done)), r.targets, r.cells)

\* One frame and one set of arguments for whichever callee is dispatched to,
\* which returns to the instruction after the table.
DispatchFits(s, f, n, targets) ==
  /\ Len(CalleeDef(s, f).params) = n
  /\ \A i \in 1..n : CalleeDef(s, f).params[i].shape = 0
  /\ Len(CalleeDef(s, f).returns) = Len(targets)
  /\ \A i \in 1..Len(targets) : CalleeDef(s, f).returns[i] = 0

LowerDispatchedCall(s, targets, x, callees, args) ==
  IF \E i \in 1..Len(callees) : ~(IsCallee(s, callees[i]) /\ DispatchFits(s, callees[i], Len(args), targets))
  THEN Fail(s)
  ELSE Run(TakeTargets(s, targets),
           EvAll(args) \o <<Ev(x), Const(EOne), <<"SelfFp">>,
                            <<"DispatchFrame", targets, TargetCells(s, targets), callees, Len(args)>>>>)

DispatchFrame(s, targets, cells, callees, n) ==
  LET x    == s.vals[3]
      given == LastPushed(Drop(s, 3), n)
      nfp  == s.next
      join == s.next + 1
      call == EmitAll(Queue(Take(Drop(s, n + 3), 3), [hint |-> "AllocFrameMax", ptr |-> nfp, callees |-> callees]),
                      DerefsFrom(nfp, Args(given))
                      \o <<DerefOp(nfp, RetFp, 0, "Fp"), SetOp(join, <<"Local", 0>>),
                           DerefOp(nfp, RetPc, join, "Cell"), SetOp(join + 1, <<"Local", 0>>)>>)
      r    == [one |-> s.vals[2], fp |-> s.vals[1], nfp |-> nfp, jset |-> Here(s) + n + 1, k |-> join + 1,
               kset |-> Here(s) + n + 3, n |-> n, targets |-> targets, cells |-> cells, callees |-> callees]
  IN  Run(call, <<Cell(x), Cell(x), <<"Pure", "MUL">>, <<"DispatchTable", r>>>>)

DispatchTable(s, r) ==
  LET t == Slots(s, r, r.nfp, [j \in 1..Len(r.callees) |-> <<"Entry", r.callees[j]>>])
  IN  BindTargets(EmitAll(Patch(t, r.jset, Here(t)), DerefsFrom(r.nfp, Results(r.n, r.cells))), r.targets, r.cells)

LowerMatch(s, targets, x, arms) ==
  LET call(i)   == arms[i][1] = "Call"
      args(i)   == SubSeq(arms[i], 3, Len(arms[i]))
      fused     == \A i \in 1..Len(arms) : call(i) /\ ~IsInline(s, arms[i][2])
      buffers(i) == /\ call(i) /\ IsDefined(s, arms[i][2]) /\ ~IsInline(s, arms[i][2])
                    /\ \E j \in 1..Len(Def(s, arms[i][2]).returns) : Def(s, arms[i][2]).returns[j] # 0
  IN  IF \E i \in 1..Len(arms) : buffers(i) THEN Fail(s)
      ELSE Run(s, (IF fused THEN [i \in 1..Len(arms) |-> <<"Specialize", arms[i][2], args(i)>>] ELSE << >>)
                  \o <<<<"MatchOn", targets, x, arms, fused>>>>)

\* Calls left with the same run-time arguments share one.
MatchOn(s, targets, x, arms, to) ==
  IF to # << >> /\ \A i \in 1..Len(to) : to[i].args = to[1].args
  THEN LowerDispatchedCall(s, targets, x, [i \in 1..Len(to) |-> to[i].f] \o << >>, to[1].args)
  ELSE Run(s, <<Ev(x), <<"Targets", targets>>, <<"SelfFp">>, Const(EOne), <<"Dispatch", targets, arms>>>>)

ArmTargets(s, arms) == [i \in 1..Len(arms) |-> Target(s, arms[i][2], SubSeq(arms[i], 3, Len(arms[i])))] \o << >>

-----------------------------------------------------------------------------
(* Branches. *)

\* The cell that is zero when a = b.
DifferenceOf(s, a, b) ==
  IF LitOf(s, b) = 0 THEN <<Ev(a)>> ELSE IF LitOf(s, a) = 0 THEN <<Ev(b)>> ELSE XorOf(a, b)

\* A when the cell is zero, else B, to which the first jump leads.
Branch(s, st) ==
  LET A == IF st.eq THEN st.then ELSE st.els
      B == IF st.eq THEN st.els ELSE st.then
      r == [one |-> s.vals[1], fp |-> s.vals[2], bset |-> Here(s), B |-> B]
  IN  Run(EmitAll(Take(Drop(s, 3), 1), <<SetOp(s.next, <<"Local", 0>>), JumpOp(s.vals[3], s.next, s.vals[2])>>),
          Stmts(A) \o <<<<"Join", s.scope>>, <<"Else", r>>>>)

Else(s, r) ==
  LET over == EmitAll(Take(s, 1), <<SetOp(s.next, <<"Local", 0>>), JumpOp(r.one, s.next, r.fp)>>)
  IN  IF r.B = << >> THEN Patch(s, r.bset, Here(s))
      ELSE Run(Patch(over, r.bset, Here(over)),
               Stmts(r.B) \o <<<<"Join", s.scope>>, <<"PatchHere", Here(s)>>>>)

LowerIf(s, st) ==
  LET a == Eval(s, st.a)
      b == Eval(s, st.b)
      Taken(same) == Run(s, Stmts(IF same = st.eq THEN st.then ELSE st.els))
  IN  IF a.bad \/ b.bad THEN Fail(s)
      ELSE IF AsIndex(a.int) # None /\ AsIndex(b.int) # None
      THEN IF ~st.const /\ (Diverges(a) \/ Diverges(b)) THEN Fail(s) ELSE Taken(a.int = b.int)
      ELSE IF st.const
      THEN IF a.field # << >> /\ b.field # << >> THEN Taken(a.field = b.field) ELSE Fail(s)
      ELSE Run(s, DifferenceOf(s, st.a, st.b) \o <<<<"SelfFp">>, Const(EOne), <<"Branch", st>>>>)

-----------------------------------------------------------------------------
(* Loops: a function of its own, that calls itself. *)

LoopName(id)  == "__loop" \o ToString(id)
BoundName(id) == "__bound" \o ToString(id)
NextName(id)  == "__next" \o ToString(id)

ScalarParam(name) == [name |-> name, const |-> FALSE, shape |-> 0]

\* The names of the enclosing scope that the body uses, each once, in order.
Captures(s, st) ==
  LET m    == Mentions(st.body)
      free == SelectSeq(m.refs, LAMBDA v : v \notin m.bound \cup {st.var} /\ IsBound(s, v)
                                            /\ s.scope.names[v].kind # "Stack")
      first == {i \in 1..Len(free) : \A j \in 1..i - 1 : free[j] # free[i]}
      caps[i \in 0..Len(free)] ==
        IF i = 0 THEN << >> ELSE IF i \in first THEN Append(caps[i - 1], free[i]) ELSE caps[i - 1]
  IN  caps[Len(free)]

\* A frame buffer cannot follow the loop into its helper's frames.
CapturesBuffer(s, st) ==
  LET m == Mentions(st.body)
  IN  \E i \in 1..Len(m.refs) :
        /\ m.refs[i] \notin m.bound \cup {st.var} \cup BindsAnywhere(st.body)
        /\ IsStack(s, Var(m.refs[i]))

Vars(names) == [i \in 1..Len(names) |-> Var(names[i])] \o << >>

\* The body, then the next index, then the same again unless the bound is reached.
LoopHelper(st, id, caps) ==
  LET own   == <<st.var>> \o (IF st.hi[1] = "Runtime" THEN <<BoundName(id)>> ELSE << >>) \o caps
      after == <<NextName(id)>> \o Tail(own)
      exit  == IF st.hi[1] = "Runtime" THEN Var(BoundName(id)) ELSE <<"GPow", st.hi[2]>>
  IN  [name |-> LoopName(id), params |-> [i \in 1..Len(own) |-> ScalarParam(own[i])] \o << >>,
       returns |-> << >>, inline |-> FALSE,
       body |-> st.body \o
         <<[do |-> "Let", name |-> NextName(id), e |-> <<"Mul", Var(st.var), <<"Gen">>>>],
           [do |-> "CallIfNe", a |-> Var(NextName(id)), b |-> exit, f |-> LoopName(id), args |-> Vars(after)],
           [do |-> "Return", es |-> << >>]>>]

\* A loop that cannot leave early runs in frames reserved together.
LoopQueued(s, st, caps) ==
  [s EXCEPT !.loopCtr = @ + 1, !.queue = Append(@, LoopHelper(st, s.loopCtr, caps)),
            !.loopBounds = IF ContainsReturn(st.body) \/ st.var \in BindsAnywhere(st.body) THEN @
                           ELSE (LoopName(s.loopCtr) :> <<st.lo, IF st.hi[1] = "Runtime" THEN None ELSE st.hi[2]>>) @@ @]

Loop(s, st, f, start, caps) ==
  IF st.hi[1] = "Runtime"
  THEN Run(LoopQueued(s, st, caps), XorOf(start, st.hi[2])
                                    \o <<<<"CallIf", f, <<start, st.hi[2]>> \o Vars(caps), FALSE>>>>)
  ELSE IF st.lo = st.hi[2] THEN LoopQueued(s, st, caps)
  ELSE Run(LoopQueued(s, st, caps), CallFor(s, f, <<start>> \o Vars(caps), 0))

LowerFor(s, st) ==
  IF CapturesBuffer(s, st) THEN Fail(s)
  ELSE Loop(s, st, LoopName(s.loopCtr), <<"GPow", st.lo>>, Captures(s, st))

LowerUnroll(s, st) ==
  LET lo == IndexOf(s, st.lo)
      hi == IndexOf(s, st.hi)
  IN  IF lo = None \/ hi = None \/ lo > hi THEN Fail(s)
      ELSE Run(s, FlattenSeq([j \in 1..hi - lo |-> Stmts(SubstStmts(st.body, st.var, Lit(lo + j - 1)))]))

-----------------------------------------------------------------------------
(* Statements. *)

Name(s, name) == Rebind(Drop(s, 1), name, s.vals[1])

\* What the name of a Let stands for, when its value is known: that comes before
\* any cell.
KnownBinding(known) ==
  [(IF known.addr.exp # None THEN GaddrOf(known.addr)
    ELSE FConstOf(IF known.field # << >> THEN known.field ELSE LitField(known.int)))
   EXCEPT !.int = known.int]

LowerLet(s, name, e) ==
  LET known == Eval(s, e)
      args  == SubSeq(e, 3, Len(e))
  IN  CASE e[1] = "StackBuf" -> Rebind(Take(s, e[2]), name, StackAt(s.next, e[2]))
        [] e[1] = "ListLit"  ->
             Run(Take(s, Len(e) - 1), [i \in 1..Len(e) - 1 |-> Into(e[i + 1], s.next + i - 1)]
                                      \o <<Cell(StackAt(s.next, Len(e) - 1)), <<"Name", name>>>>)
        [] e[1] = "Call" /\ e[2] = "addr" ->
             IF ~IsAddrOf(s, args) THEN Fail(s)
             ELSE Run(s, <<<<"SelfFp">>, <<"Within", StackOf(s, args[1])>>, <<"Name", name>>>>)
        [] IsStack(s, e) -> Rebind(s, name, SameStack(s, e))
        [] known.bad -> Fail(s)
        [] ~known.bad /\ (known.addr.exp # None \/ known.field # << >> \/ known.int # None) ->
             Rebind(s, name, KnownBinding(known))
        [] e[1] = "Call" /\ e[2] # "addr" /\ IsDefined(s, e[2]) ->
             Run(s, CallFor(s, e[2], args, 1) \o <<<<"NameReturns", <<name>>, Homes(s, e[2], 1)>>>>)
        [] OTHER -> Run(s, <<Ev(e), <<"AsScalar">>, <<"Name", name>>>>)

Within(s, buf) == Push(Drop(s, 1), GaddrOf(StackAddr(s.vals[1], buf)))

NameReturns(s, names, homes) ==
  RebindAll(Forget(s), [i \in 1..Len(names) |-> <<names[i], RetBinding(s.inlineStackRet, i, homes[i])>>])

LowerLetTuple(s, names, f, args) ==
  Run(s, CallFor(s, f, args, Len(names)) \o <<<<"NameReturns", names, Homes(s, f, Len(names))>>>>)

\* Only the next instruction pops the stream, into a cell of its own.
LowerLetHintWitness(s, name, stream) ==
  Rebind(Queue(Take(s, 1), [hint |-> "WitnessStack", stream |-> stream, base |-> s.next, len |-> 1]),
         name, ScalarAt(s.next))

Printed(s) == Anchor(Queue(Drop(s, 1), [hint |-> "Print", cell |-> s.vals[1]]))

\* A store writes the element: a second one to the same element asserts equality.
LowerStore(s, arr, idx, val) ==
  IF ~IsStack(s, arr) THEN Run(s, <<Ev(val), <<"Addr", arr, idx>>, <<"StoreAt">>>>)
  ELSE IF FrameCell(s, arr, idx) = None THEN Fail(s)
  ELSE Run(s, <<Into(val, FrameCell(s, arr, idx))>>)

StoreAt(s) == Emit(Drop(s, 2), DerefOp(s.vals[1][1], s.vals[1][2], s.vals[2], "Cell"))

LowerStmt(s, st, tail) ==
  CASE st.do = "Let" -> LowerLet(s, st.name, st.e)
    [] st.do = "LetTuple" -> LowerLetTuple(s, st.names, st.f, st.args)
    [] st.do = "AssertEq" -> LowerAssertEq(s, st.a, st.b)
    [] st.do = "AssertNe" -> LowerAssertNe(s, st.a, st.b)
    [] st.do = "AssertLt" -> LowerAssertLt(s, st.e, st.bound)
    [] st.do = "HintWitness" -> Run(s, <<<<"CellRun", st.dest, None>>, <<"HintWitness", st.stream>>>>)
    [] st.do = "LetHintWitness" -> LowerLetHintWitness(s, st.name, st.stream)
    [] st.do = "Print" -> Run(s, <<Ev(st.value), <<"Print">>>>)
    [] st.do = "If" -> LowerIf(s, st)
    [] st.do = "Match" -> LowerMatch(s, st.targets, st.x, st.arms)
    [] st.do = "Call" -> IF st.f \in Builtins THEN LowerBuiltin(s, st.f, st.args)
                         ELSE Run(s, CallFor(s, st.f, st.args, 0))
    [] st.do = "Store" -> LowerStore(s, st.arr, st.idx, st.val)
    [] st.do = "Return" -> LowerReturn(s, st.es)
    [] st.do = "CallIfNe" -> Run(s, XorOf(st.a, st.b) \o <<<<"CallIf", st.f, st.args, tail>>>>)
    [] st.do = "For" -> LowerFor(s, st)
    [] st.do = "Unroll" -> LowerUnroll(s, st)

CallIf(s, f, args, tail) == Run(Drop(s, 1), <<<<"Call", f, args, s.vals[1], << >>, tail>>>>)

-----------------------------------------------------------------------------
(* One function. *)

\* main ends by jumping to the sentinel, its frame pointer what it is.
Halt(s) == EmitAll(Take(Drop(s, 1), 1), <<SetOp(s.next, <<"End">>), JumpOp(s.vals[1], s.next, s.vals[1])>>)

End(s, body) ==
  IF s.isMain THEN Run(s, <<Const(EOne), <<"Halt">>>>)
  ELSE IF body = << >> \/ Last(body).do # "Return"
  THEN Run(s, <<<<"Stmt", [do |-> "Return", es |-> << >>], FALSE>>>>)
  ELSE s

\* A conditional call right before an empty return hands its own return on.
IsTail(f, i) ==
  /\ f.name # "main" /\ f.returns = << >> /\ i < Len(f.body)
  /\ f.body[i].do = "CallIfNe" /\ f.body[i + 1].do = "Return"
  /\ f.body[i + 1].es = << >>

\* whole: what the functions of a program share while it is compiled.
StartOf(f, whole) ==
  LET shapes == Shapes(f.params)
      isLoop == f.name \in DOMAIN whole.loopBounds
      abi    == AbiEnd(Width(shapes), Width(f.returns))
      param(i) == IF shapes[i] = 0 THEN ScalarAt(ArgAt(shapes, i)) ELSE StackAt(ArgAt(shapes, i), shapes[i])
  IN  [scope |-> [names |-> [v \in {f.params[i].name : i \in 1..Len(f.params)} |->
                              param(CHOOSE i \in 1..Len(f.params) : f.params[i].name = v)],
                  selfFp |-> IF isLoop THEN abi ELSE None,
                  pure |-> << >>, load |-> << >>, const |-> << >>, iv |-> None],
       next |-> abi + (IF isLoop THEN 1 ELSE 0),
       argCells |-> Width(shapes), returns |-> f.returns,
       isMain |-> f.name = "main", fnName |-> f.name,
       code |-> << >>, pending |-> << >>, heapSizes |-> << >>,
       inlineRet |-> << >>, inlineStackRet |-> << >>, inlineCalls |-> << >>,
       loopBounds |-> whole.loopBounds, queue |-> whole.queue, loopCtr |-> whole.loopCtr,
       defs |-> whole.defs, constArrays |-> whole.constArrays,
       failed |-> \E i \in 1..Len(f.params) : f.params[i].name \in DOMAIN whole.constArrays,
       vals |-> << >>,
       todo |-> [i \in 1..Len(f.body) |-> <<"Stmt", f.body[i], IsTail(f, i)>>] \o <<<<"End", f.body>>>>]

Lowered(s) == s.failed \/ s.todo = << >>

Do(s, t) ==
  CASE t[1] = "Stmt" -> LowerStmt(s, t[2], t[3])
    [] t[1] = "Ev" -> Expr(s, t[2])
    [] t[1] = "Into" -> ExprInto(s, t[2], t[3])
    [] t[1] = "Cell" -> Push(s, t[2])
    [] t[1] = "Const" -> ConstCell(s, t[2])
    [] t[1] = "Pure" -> Pure(s, t[2])
    [] t[1] = "Emit3" -> Emit3(s, t[2])
    [] t[1] = "Dup" -> Push(s, s.vals[1])
    [] t[1] = "At" -> Push(Drop(s, 1), <<s.vals[1], t[2]>>)
    [] t[1] = "Addr" -> HeapAddr(s, t[2], t[3])
    [] t[1] = "HeapBase" -> HeapBase(s, t[2], t[3])
    [] t[1] = "HeapRun" -> HeapRun(s, t[2], t[3])
    [] t[1] = "CellRun" -> CellRun(s, t[2], t[3])
    [] t[1] = "PowChain" -> PowChain(s, t[2])
    [] t[1] = "Quotient" -> Quotient(s)
    [] t[1] = "NewHeapBufDyn" -> NewHeapBufDyn(s)
    [] t[1] = "Load" -> Load(s)
    [] t[1] = "LoadTo" -> LoadTo(s, t[2])
    [] t[1] = "MoveTo" -> MoveTo(s, t[2])
    [] t[1] = "CopyTo" -> CopyTo(s, t[2])
    [] t[1] = "StoreAt" -> StoreAt(s)
    [] t[1] = "SelfFp" -> SelfFp(s)
    [] t[1] = "AddrOf" -> AddrOf(s, t[2])
    [] t[1] = "Materialize" -> Materialize(s, t[2])
    [] t[1] = "Name" -> Name(s, t[2])
    [] t[1] = "NameReturns" -> NameReturns(s, t[2], t[3])
    [] t[1] = "Within" -> Within(s, t[2])
    [] t[1] = "AsScalar" -> AsScalar(s)
    [] t[1] = "CallFor" -> CallForHomes(s, t[2], t[3], t[4])
    [] t[1] = "CallInto" -> CallInto(s, t[2], t[3], t[4])
    [] t[1] = "CallIf" -> CallIf(s, t[2], t[3], t[4])
    [] t[1] = "RetCell" -> RetCell(s, t[2])
    [] t[1] = "Returned" -> Returned(s, t[2])
    [] t[1] = "Call" -> LowerCall(s, t[2], t[3], t[4], t[5], t[6])
    [] t[1] = "Pass" -> Pass(s, Target(s, t[2], t[3]), t[4], t[5], t[6])
    [] t[1] = "Frame" -> Frame(s, t[2], t[3], t[4], t[5], t[6])
    [] t[1] = "FrameSize" -> FrameSize(s)
    [] t[1] = "NextFrame" -> NextFrame(s, t[2], t[3], t[4])
    [] t[1] = "InlineArg" -> InlineArg(s, t[2])
    [] t[1] = "Enter" -> Enter(s, t[2], t[3], t[4], t[5])
    [] t[1] = "Leave" -> Leave(s, t[2], t[3], t[4])
    [] t[1] = "ReturnedAs" -> ReturnedAs(s, t[2], t[3])
    [] t[1] = "ReturnedIn" -> Push(s, ScalarAt(t[2]))
    [] t[1] = "ReturnBound" -> ReturnBound(s, t[2])
    [] t[1] = "JumpBack" -> JumpBack(s)
    [] t[1] = "Specialize" -> Specialize(s, t[2], t[3])
    [] t[1] = "MatchOn" -> MatchOn(s, t[2], t[3], t[4], IF t[5] THEN ArmTargets(s, t[4]) ELSE << >>)
    [] t[1] = "Targets" -> Targets(s, t[2])
    [] t[1] = "Dispatch" -> LowerMatchDispatch(s, t[2], t[3])
    [] t[1] = "Arms" -> Arms(s, t[2])
    [] t[1] = "Arm" -> Arm(s, t[2], t[3])
    [] t[1] = "ArmEnd" -> ArmEnd(s, t[2], t[3])
    [] t[1] = "Forget" -> Forget(s)
    [] t[1] = "CopyBinds" -> CopyBinds(s, t[2])
    [] t[1] = "DispatchFrame" -> DispatchFrame(s, t[2], t[3], t[4], t[5])
    [] t[1] = "DispatchTable" -> DispatchTable(s, t[2])
    [] t[1] = "Branch" -> Branch(s, t[2])
    [] t[1] = "Join" -> Join(s, t[2])
    [] t[1] = "Else" -> Else(s, t[2])
    [] t[1] = "PatchHere" -> Patch(s, t[2], Here(s))
    [] t[1] = "PairOf" -> PairOf(s, t[2])
    [] t[1] = "Pair" -> Pair(s)
    [] t[1] = "LoadPair" -> LoadPair(s)
    [] t[1] = "ChainCell" -> ChainCell(s)
    [] t[1] = "DefaultCv" -> DefaultCv(s)
    [] t[1] = "HashOut" -> HashOut(s)
    [] t[1] = "Hash" -> Hash(s, t[2])
    [] t[1] = "BitsDest" -> BitsDest(s, t[2], t[3])
    [] t[1] = "HeapDest" -> HeapDest(s)
    [] t[1] = "Log2Ceil" -> Log2Ceil(s, t[2], t[3])
    [] t[1] = "Decompose" -> Decompose(s, t[2], t[3])
    [] t[1] = "Limbs" -> Limbs(s, t[2], t[3])
    [] t[1] = "NoJump" -> NoJump(s)
    [] t[1] = "HintWitness" -> HintWitness(s, t[2])
    [] t[1] = "Print" -> Printed(s)
    [] t[1] = "NonZero" -> NonZero(s)
    [] t[1] = "Product" -> Product(s)
    [] t[1] = "InRange" -> InRange(s)
    [] t[1] = "End" -> End(s, t[2])
    [] t[1] = "Halt" -> Halt(s)

\* The next task.
LowerStep(s) == Do([s EXCEPT !.todo = Tail(@)], s.todo[1])
=============================================================================
