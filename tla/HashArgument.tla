---------------------------- MODULE HashArgument ----------------------------
(***************************************************************************)
(* The argument that a committed vector of bits satisfies HashCircuit      *)
(* (crates/flock/src: zerocheck.rs and zerocheck/, lincheck.rs, hash.rs).  *)
(* The zerocheck shows the product of the forms to be the bit at every     *)
(* position: a first round over the LogSkip lowest variables at once, sent *)
(* as values at nodes outside the ones the bits sit on, then a round per   *)
(* variable.  The lincheck ties the three values it ends in to the bits,   *)
(* through the matrices, and leaves 2^LogSkip partial values of the bits.  *)
(***************************************************************************)
EXTENDS HashCircuit, Transcript
LOCAL INSTANCE SequencesExt

CONSTANTS LogSkip,        \* variables of the first round
          MinBlocksLog,   \* least log of the instances
          FixedChallenges \* the equality challenges that are not drawn

\* The log of the instances proved: the least power of two that holds them.
InstancesLog(n) == LET k == Log2Ceil(n) IN IF k < MinBlocksLog THEN MinBlocksLog ELSE k

\* The equality point: fixed coordinates, then drawn ones.
DrawnEq(m) == m - LogSkip - Len(FixedChallenges)

\* Weights that extend 2^LogSkip values on the first nodes to the next ones.
ExtensionWeights ==
  [i \in 1..2^LogSkip |-> LagrangeWeights(0, 2^LogSkip, Phi(2^LogSkip + i - 1))]

\* Row x of a table of bits, extended to every further node.
SkipRow(bits, x) == SubSeq(bits, 2^LogSkip * (x - 1) + 1, 2^LogSkip * x)
Extended(bits, x, weights) ==
  Table(2^LogSkip, LAMBDA i : DotBase(weights[i], SkipRow(bits, x)))

\* The value at z of what the first round sent, zero on the first nodes.
CombinedAt(values, z) ==
  LagrangeEval(0, [i \in 1..2^LogSkip |-> EZero] \o values, z)

\* Bits folded at z over the lowest variables.
FoldSkip(bits, z) ==
  LET weights == LagrangeWeights(0, 2^LogSkip, z)
  IN  Table(Len(bits) \div 2^LogSkip, LAMBDA x : DotBase(weights, SkipRow(bits, x)))

-----------------------------------------------------------------------------
(* The zerocheck: bits a, b, c of 2^m positions. *)

ZcStart(t, m) ==
  [t |-> AfterSamples(t, DrawnEq(m)), m |-> m, eq |-> FixedChallenges \o Sampled(t, DrawnEq(m)),
   running |-> EZero, z |-> EZero, chis |-> << >>,
   a |-> << >>, b |-> << >>, c |-> << >>]

ZcSkipped(s, bits, values) ==
  LET sent == Send(s.t, values)
      z    == Sample(sent)
  IN  [s EXCEPT !.t = AfterSamples(sent, 1), !.z = z, !.running = CombinedAt(values, z),
                !.a = FoldSkip(bits.a, z), !.b = FoldSkip(bits.b, z), !.c = FoldSkip(bits.c, z)]

ZcFirst(s, bits) ==
  LET rows    == 2^(s.m - LogSkip)
      eq      == EqTable(s.eq)
      weights == ExtensionWeights \o << >>
      part(v) == Table(rows, LAMBDA x : Extended(v, x, weights))
      a == part(bits.a)
      b == part(bits.b)
      c == part(bits.c)
      value(i) == ESum(LAMBDA x : EMul(eq[x], EAdd(EMul(a[x][i], b[x][i]), c[x][i])), 1, rows)
  IN  ZcSkipped(s, bits, Table(2^LogSkip, value))

ZcFolded(s, poly) ==
  LET sent == SendRoundPoly(s.t, poly, TRUE)
      chi  == Sample(sent)
  IN  [s EXCEPT !.t = AfterSamples(sent, 1), !.running = PolyEval(poly, chi),
                !.chis = Append(@, chi),
                !.a = FoldLow(@, chi), !.b = FoldLow(@, chi), !.c = FoldLow(@, chi)]

\* The round's quadratic from its value at one and its top coefficient; the
\* claim gives its value at zero.
ZcRound(s) ==
  LET i    == Len(s.chis) + 1
      half == Len(s.a) \div 2
      eq   == EqTable(SubSeq(s.eq, i + 1, Len(s.eq)))
      g1   == ESum(LAMBDA x : EMul(eq[x], EAdd(EMul(s.a[2 * x], s.b[2 * x]), s.c[2 * x])), 1, half)
      gInf == ESum(LAMBDA x : EMul(eq[x], EMul(EAdd(s.a[2 * x - 1], s.a[2 * x]),
                                               EAdd(s.b[2 * x - 1], s.b[2 * x]))), 1, half)
      g0   == EMul(EAdd(s.running, EMul(s.eq[i], g1)), EInv(EAdd(EOne, s.eq[i])))
  IN  ZcFolded(s, <<g0, ESum3(g0, g1, gInf), gInf>>)

ZcRoundsDone(s) == Len(s.chis) = s.m - LogSkip

ZcClaim(t, s, aEval, bEval) ==
  [t |-> t, z |-> s.z, chis |-> s.chis, aEval |-> aEval, bEval |-> bEval,
   cEval |-> EAdd(s.running, EMul(aEval, bEval))]

ZcEnd(s) == ZcClaim(Send(s.t, <<s.a[1], s.b[1]>>), s, s.a[1], s.b[1])

ZcVFirst(s) ==
  LET u == Receive(s.t, 2^LogSkip)
      z == Sample(u)
  IN  [s EXCEPT !.t = AfterSamples(u, 1), !.z = z, !.running = CombinedAt(Peek(s.t, 2^LogSkip), z)]

ZcVRound(s) ==
  LET g   == PeekEqRoundPoly(s.t, 3, s.running, s.eq[Len(s.chis) + 1])
      u   == ReceiveRoundPoly(s.t, 3)
      chi == Sample(u)
  IN  [s EXCEPT !.t = AfterSamples(u, 1), !.running = PolyEval(g, chi), !.chis = Append(@, chi)]

ZcVEnd(s) == LET x == Peek(s.t, 2) IN ZcClaim(Receive(s.t, 2), s, x[1], x[2])

-----------------------------------------------------------------------------
(* The lincheck, at the point the zerocheck left. *)

InnerRest(zc) == SubSeq(zc.chis, 1, HashLog - LogSkip)
Outer(zc)     == SubSeq(zc.chis, HashLog - LogSkip + 1, Len(zc.chis))

OuterProduct(hi, lo) ==
  Table(Len(hi) * Len(lo), LAMBDA i :
    EMul(hi[(i - 1) \div Len(lo) + 1], lo[((i - 1) % Len(lo)) + 1]))

InnerEq(zc) == OuterProduct(EqTable(InnerRest(zc)), LagrangeWeights(0, 2^LogSkip, zc.z))

\* The bits of all instances folded into one block.
FoldInstances(bits, point) ==
  LET eq == EqTable(point)
  IN  Table(2^HashLog, LAMBDA i :
        DotBase(eq, Table(Len(eq), LAMBDA t : bits[2^HashLog * (t - 1) + i])))

LcOpened(zc, comb, z) ==
  [t |-> AfterSamples(zc.t, 1), zc |-> zc, comb |-> comb, z |-> z,
   running |-> Dot(comb, z), rs |-> << >>]

\* alpha draws the three claims and the constant together.
LcWeights(alpha, eq, rows) ==
  LET sq == EMul(alpha, alpha)
  IN  Table(2^HashLog, LAMBDA i :
        ESum3(rows[i], EMul(sq, eq[i]), IF i = ConstPos + 1 THEN EMul(sq, alpha) ELSE EZero))

LcStart(zc, bits) ==
  LET alpha == Sample(zc.t)
      eq    == InnerEq(zc)
  IN  LcOpened(zc, LcWeights(alpha, eq, Marginal(alpha, eq)), FoldInstances(bits.c, Outer(zc)))

LcFolded(s, poly) ==
  LET sent == SendRoundPoly(s.t, poly, FALSE)
      r    == Sample(sent)
  IN  [s EXCEPT !.t = AfterSamples(sent, 1), !.running = PolyEval(poly, r), !.rs = Append(@, r),
                !.comb = FoldHigh(@, r), !.z = FoldHigh(@, r)]

LcRound(s) ==
  LET half == Len(s.z) \div 2
      e1   == ESum(LAMBDA i : EMul(s.comb[half + i], s.z[half + i]), 1, half)
      eInf == ESum(LAMBDA i : EMul(EAdd(s.comb[i], s.comb[half + i]), EAdd(s.z[i], s.z[half + i])), 1, half)
      e0   == EAdd(s.running, e1)
  IN  LcFolded(s, <<e0, ESum3(e0, e1, eInf), eInf>>)

LcRoundsDone(s) == Len(s.rs) = HashLog - LogSkip

\* What is left to show of the bits: these values of their slices at point.
SliceClaim(t, s, slices) ==
  [t |-> t, point |-> Reverse(s.rs) \o Outer(s.zc), slices |-> slices]

LcEnd(s) == SliceClaim(Send(s.t, s.z), s, s.z)

LcVStart(zc) ==
  LET alpha == Sample(zc.t)
  IN  [t |-> AfterSamples(zc.t, 1), zc |-> zc, alpha |-> alpha, rs |-> << >>,
       running |-> PolyEval(<<zc.aEval, zc.bEval, zc.cEval, EOne>>, alpha)]

LcVRound(s) ==
  LET q == PeekRoundPoly(s.t, 3, s.running)
      u == ReceiveRoundPoly(s.t, 3)
      r == Sample(u)
  IN  [s EXCEPT !.t = AfterSamples(u, 1), !.running = PolyEval(q, r), !.rs = Append(@, r)]

LcFinal(s, point, slices, column) ==
  LET sq == EMul(s.alpha, s.alpha)
  IN  ESum3(BilinearWalk(s.alpha, InnerEq(s.zc), column),
            EMul(EMul(sq, s.alpha), column[ConstPos + 1]),
            EMul(EMul(sq, EqEval(InnerRest(s.zc), point)),
                 Dot(LagrangeWeights(0, 2^LogSkip, s.zc.z), slices)))

LcVEnd(s) ==
  LET slices == Peek(s.t, 2^LogSkip)
      point  == Reverse(s.rs)
  IN  SliceClaim(Check(Receive(s.t, 2^LogSkip),
                       s.running = LcFinal(s, point, slices, OuterProduct(EqTable(point), slices)),
                       "lincheck"),
                 s, slices)
=============================================================================
