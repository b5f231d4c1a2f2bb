---------------------------- MODULE Constraints ----------------------------
(***************************************************************************)
(* The sumcheck over all tables at once (lean_vm/src/constraints.rs): the  *)
(* constraints of each table under powers of xi together with its bus      *)
(* form, at the bus point.  The highest variable is bound first, and a     *)
(* table with fewer variables waits, adding its sum times the challenges   *)
(* so far, until its own rounds come.                                      *)
(***************************************************************************)
EXTENDS Bus
LOCAL INSTANCE FiniteSetsExt
LOCAL INSTANCE SequencesExt

TotalConstraints == 2

XiPowers(xi) == EPowers(xi, TotalConstraints + 3)

\* The powers the constraints of t are under: those of JUMP, the only ones.
ConstraintPowers(xi, t) == SubSeq(XiPowers(xi), 1, NConstraints[t])

\* The powers after the constraints' weigh the bus forms of the three sides.
FormPower(xi, s) == XiPowers(xi)[TotalConstraints + s]

TableForm3(forms, xi, t) ==
  Scaled(forms[1][t], FormPower(xi, 1)) \o Scaled(forms[2][t], FormPower(xi, 2))
    \o Scaled(forms[3][t], FormPower(xi, 3))

\* The summand of table t: constraints and bus form.
Air(t, xi, form, row, quadratic) ==
  EAdd(ConstraintAt(t, ConstraintPowers(xi, t), row, quadratic), FormAt(t, form, row, quadratic))

TallestTau(taus) == Max({taus[t] : t \in DOMAIN taus})

\* Over all tables.
SumTables(f(_)) == ESum(LAMBDA k : f(TableNames[k]), 1, Len(TableNames))

SumcheckStart(t, l, bus, cols) ==
  LET xi == Sample(t)
  IN  [t |-> AfterSamples(t, 1), xi |-> xi, round |-> 0,
       forms |-> [n \in ToSet(TableNames) |-> TableForm3(bus.forms, xi, n)],
       sigma |-> [n \in ToSet(TableNames) |->
                    ESum(LAMBDA s : EMul(FormPower(xi, s), bus.sigmas[s][n]), 1, 3)],
       weights |-> [n \in ToSet(TableNames) |-> EOne],
       k |-> EOne, chi |-> << >>,
       eq |-> EqTable(SubSeq(bus.point, 1, TallestTau(l.taus) - 1)),
       tables |-> [c \in {c \in DOMAIN cols : c[1] # "SHARED"} |-> LiftAll(cols[c])]]

RowOf(t, tables, f(_)) == [n \in ToSet(TableColumns[t]) |-> f(tables[<<t, n>>])]

\* A table's message: its value where the round variable is zero (or one),
\* and its quadratic coefficient.
TableMessage(t, s, half, atOne) ==
  LET endpoint(i) == RowOf(t, s.tables, LAMBDA c : IF atOne THEN c[i + half] ELSE c[i])
      slope(i)    == RowOf(t, s.tables, LAMBDA c : EAdd(c[i], c[i + half]))
  IN  <<ESum(LAMBDA i : EMul(s.eq[i], Air(t, s.xi, s.forms[t], endpoint(i), FALSE)), 1, half),
        ESum(LAMBDA i : EMul(s.eq[i], Air(t, s.xi, s.forms[t], slope(i), TRUE)), 1, half)>>

\* The cubic of a round from the two, the claim giving the value at the
\* other end.
RoundPolynomial(endpoint, quadratic, zeta, claim, waiting) ==
  LET eqZ == EAdd(EOne, zeta)
      p0  == IF zeta = EZero THEN EAdd(claim, waiting) ELSE endpoint
      p1  == IF zeta = EZero THEN endpoint
             ELSE EMul(ESum3(claim, waiting, EMul(eqZ, endpoint)), EInv(zeta))
      h2  == EAdd(EAdd(EMul(eqZ, quadratic), p0), EAdd(p1, quadratic))
  IN  <<EMul(eqZ, p0), ESum3(claim, h2, quadratic), h2, quadratic>>

NextWeights(weights, taus, m, zeta, r) ==
  [t \in DOMAIN weights |->
     EMul(weights[t], IF taus[t] > m THEN ESum3(EOne, zeta, r) ELSE r)]

SumcheckFolded(s, taus, m, zeta, h) ==
  LET sent == SendRoundPoly(s.t, h, FALSE)
      r    == Sample(sent)
  IN  [t |-> AfterSamples(sent, 1), xi |-> s.xi, round |-> s.round + 1, forms |-> s.forms,
       sigma |-> s.sigma, claim |-> PolyEval(h, r),
       weights |-> NextWeights(s.weights, taus, m, zeta, r),
       k |-> EMul(s.k, r), chi |-> <<r>> \o s.chi,
       eq |-> IF m = 0 THEN << >> ELSE ShrinkEqHigh(s.eq),
       tables |-> [c \in DOMAIN s.tables |->
                     IF taus[c[1]] > m THEN FoldHigh(s.tables[c], r) ELSE s.tables[c]]]

\* claim is what the round starts from: the sigmas' sum, then the last
\* polynomial at its challenge.
SumcheckRound(s, l, bus) ==
  LET m       == TallestTau(l.taus) - 1 - s.round
      zeta    == bus.point[m + 1]
      claim   == IF s.round = 0 THEN SumTables(LAMBDA t : s.sigma[t]) ELSE s.claim
      waiting == EMul(s.k, SumTables(LAMBDA t : IF l.taus[t] <= m THEN s.sigma[t] ELSE EZero))
      active  == {t \in DOMAIN l.taus : l.taus[t] > m}
      msgs    == [t \in active |-> TableMessage(t, s, 2^m, zeta = EZero)]
      total(i) == SumTables(LAMBDA t : IF t \in active THEN EMul(s.weights[t], msgs[t][i]) ELSE EZero)
  IN  SumcheckFolded(s, l.taus, m, zeta, RoundPolynomial(total(1), total(2), zeta, claim, waiting))

\* Every column of every table at the challenges of its own variables.
SumcheckEvals(s) ==
  LET evals(t) == [i \in 1..Len(TableColumns[t]) |-> s.tables[<<t, TableColumns[t][i]>>][1]]
  IN  [t |-> Send(s.t, FlattenSeq([k \in 1..Len(TableNames) |-> evals(TableNames[k])])),
       chi |-> s.chi, evals |-> [t \in ToSet(TableNames) |-> evals(t)]]

-----------------------------------------------------------------------------
SumcheckVStart(t, l, bus) ==
  LET xi == Sample(t)
  IN  [t |-> AfterSamples(t, 1), xi |-> xi, round |-> 0,
       forms |-> [n \in ToSet(TableNames) |-> TableForm3(bus.forms, xi, n)],
       claim |-> ESum(LAMBDA s : EMul(FormPower(xi, s), bus.totals[s]), 1, 3),
       weights |-> [n \in ToSet(TableNames) |-> EOne], chi |-> << >>]

SumcheckVRound(s, l, bus) ==
  LET m == TallestTau(l.taus) - 1 - s.round
      h == PeekRoundPoly(s.t, 4, s.claim)
      u == ReceiveRoundPoly(s.t, 4)
      r == Sample(u)
  IN  [s EXCEPT !.t = AfterSamples(u, 1), !.round = @ + 1, !.claim = PolyEval(h, r),
                !.weights = NextWeights(@, l.taus, m, bus.point[m + 1], r),
                !.chi = <<r>> \o @]

\* The columns' values have to give the last claim.
SumcheckVEvals(s) ==
  LET total == Len(FlattenSeq([k \in 1..Len(TableNames) |-> TableColumns[TableNames[k]]]))
      start(k) == Len(FlattenSeq([j \in 1..k - 1 |-> TableColumns[TableNames[j]]]))
      x == Peek(s.t, total)
      at(t) == CHOOSE k \in 1..Len(TableNames) : TableNames[k] = t
      evals == [t \in ToSet(TableNames) |->
                  SubSeq(x, start(at(t)) + 1, start(at(t)) + Len(TableColumns[t]))]
      row(t) == [n \in ToSet(TableColumns[t]) |->
                   evals[t][CHOOSE i \in 1..Len(TableColumns[t]) : TableColumns[t][i] = n]]
      acc == SumTables(LAMBDA t : EMul(s.weights[t], Air(t, s.xi, s.forms[t], row(t), FALSE)))
  IN  [t |-> Check(Receive(s.t, total), acc = s.claim, "final mismatch"),
       chi |-> s.chi, evals |-> evals]
=============================================================================
