---------------------------- MODULE Multilinear ----------------------------
(***************************************************************************)
(* Multilinear polynomials over the hypercube (primitives/multilinear.rs). *)
(* A table of 2^n values is a sequence; the value at the vertex whose bits *)
(* are those of i, lowest variable first, is its element i + 1.            *)
(***************************************************************************)
EXTENDS Field

\* A table computed once, entry by entry.
Table(n, f(_)) == [i \in 1..n |-> f(i)] \o << >>

LiftAll(t) == Table(Len(t), LAMBDA i : Lift(t[i]))

Log2Ceil(n) == CHOOSE k \in 0..20 : 2^k >= n /\ (k = 0 \/ 2^(k - 1) < n)

CeilDiv(a, b) == (a + b - 1) \div b

\* The line through lo at 0 and hi at 1.
Interp(lo, hi, t) == EAdd(lo, EMul(t, EAdd(lo, hi)))

\* eq(r, x), over as many coordinates as r has.
EqEval(r, x) == EProd(LAMBDA i : ESum3(EOne, r[i], x[i]), 1, Len(r))

\* eq(r, .) on the hypercube: each coordinate doubles the table.
EqTable(r) ==
  LET eq[k \in 0..Len(r)] ==
        IF k = 0 THEN <<EOne>>
        ELSE LET lo == eq[k - 1]
                 hi == Table(Len(lo), LAMBDA i : EMul(lo[i], r[k]))
             IN  Table(Len(lo), LAMBDA i : EAdd(lo[i], hi[i])) \o hi
  IN  eq[Len(r)]

\* Fix the lowest, or the highest, variable of a table.
FoldLow(t, c)  == Table(Len(t) \div 2, LAMBDA i : Interp(t[2 * i - 1], t[2 * i], c))
FoldHigh(t, c) == Table(Len(t) \div 2, LAMBDA i : Interp(t[i], t[Len(t) \div 2 + i], c))

\* Sum a variable out of an eq table, which leaves the eq table of the rest.
ShrinkEqLow(t)  == Table(Len(t) \div 2, LAMBDA i : EAdd(t[2 * i - 1], t[2 * i]))
ShrinkEqHigh(t) == Table(Len(t) \div 2, LAMBDA i : EAdd(t[i], t[Len(t) \div 2 + i]))

Dot(u, t) == ESum(LAMBDA i : EMul(u[i], t[i]), 1, Len(t))

\* A table of K against weights of E.
DotBase(u, t) == ESum(LAMBDA i : EMulBase(u[i], t[i]), 1, Len(t))

MleEval(t, point) == DotBase(EqTable(point), t)

\* The same over E, one variable at a time.
MleEvalE(t, point) ==
  LET f[k \in 0..Len(point)] == IF k = 0 THEN t ELSE FoldLow(f[k - 1], point[k])
  IN  f[Len(point)][1]

\* The polynomial with these coefficients, constant first, by Horner.
PolyEval(coeffs, x) ==
  LET h[k \in 0..Len(coeffs)] ==
        IF k = 0 THEN EZero
        ELSE EAdd(EMul(h[k - 1], x), coeffs[Len(coeffs) + 1 - k])
  IN  h[Len(coeffs)]

\* The multilinear extension of z |-> g^z.
IndexMle(zeta) ==
  LET g2[k \in 1..Len(zeta)] == IF k = 1 THEN GPow(1) ELSE KMul(g2[k - 1], g2[k - 1])
  IN  EProd(LAMBDA k : EAdd(EOne, EMulBase(zeta[k], KAdd(1, g2[k]))), 1, Len(zeta))

\* The interpolation nodes: a GF(2)-linear window of K (phi8 of 0, 1, 2, ...).
Phi(a) == Lift(a)

\* Lagrange weights at p over the aligned window of n nodes that starts at
\* node first: every weight has the one denominator, by linearity.
LagrangeWeights(first, n, p) ==
  LET denominator == EInv(EProd(LAMBDA a : Phi(a), 1, n - 1))
  IN  Table(n, LAMBDA i :
        EMul(EProd(LAMBDA k : IF k = i THEN EOne ELSE EAdd(p, Phi(first + k - 1)), 1, n),
             denominator))

LagrangeEval(first, values, p) == Dot(LagrangeWeights(first, Len(values), p), values)
=============================================================================
