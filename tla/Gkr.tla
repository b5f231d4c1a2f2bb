-------------------------------- MODULE Gkr --------------------------------
(***************************************************************************)
(* Three identity-padded grand products, proved as one batched radix-four  *)
(* GKR (lean_vm/src/gkr.rs).  Each operator is one message of the prover,  *)
(* or what the verifier does with one, on a record of the local state; t   *)
(* is the transcript.  A table is kept as the explicit prefix of a row of  *)
(* ones, as in the code: an omitted node is the constant one.              *)
(***************************************************************************)
EXTENDS Transcript

At(s, i) == IF i <= Len(s) THEN s[i] ELSE EOne

\* Two levels of the product tree at once.
Contract(s) ==
  Table(CeilDiv(Len(s), 4), LAMBDA r :
    EMul(EMul(At(s, 4 * r - 3), At(s, 4 * r - 2)), EMul(At(s, 4 * r - 1), At(s, 4 * r))))

\* layers[k + 1] is level 2k, the leaves first; an odd tree ends in a binary
\* level, which holds the root.
BuildLayers(leaves, mu) ==
  LET even[k \in 1..mu \div 2 + 1] == IF k = 1 THEN leaves ELSE Contract(even[k - 1])
      quads == [k \in 1..mu \div 2 + 1 |-> even[k]] \o << >>
      top   == quads[Len(quads)]
  IN  IF mu % 2 = 0 THEN quads ELSE Append(quads, <<EMul(top[1], At(top, 2))>>)

\* The product of the lines p[1] + X p[2] of two polynomials.
PolyMul(p, q) ==
  Table(Len(p) + Len(q) - 1, LAMBDA k :
    ESum(LAMBDA i : IF k + 1 - i \in 1..Len(q) THEN EMul(p[i], q[k + 1 - i]) ELSE EZero,
         1, Len(p)))

\* The quartic of one pair of rows: the product over the four children of the
\* line from the low row to the high one.
Quartic(s, pair) ==
  LET line(c) == LET lo == At(s, 8 * pair - 8 + c)
                     hi == At(s, 8 * pair - 4 + c)
                 IN  <<lo, EAdd(lo, hi)>>
  IN  PolyMul(PolyMul(line(1), line(2)), PolyMul(line(3), line(4)))

\* Stored rows of four, and the pairs they make; a pair of omitted rows is
\* the constant 1, which adds nothing above the constant coefficient.
Rows(s)  == Len(s) \div 4
Pairs(s) == CeilDiv(Rows(s), 2)

RoundMessage(s, eq) ==
  LET q == Table(Pairs(s), LAMBDA i : Quartic(s, i))
  IN  Table(4, LAMBDA c : ESum(LAMBDA i : EMul(eq[i], q[i][c + 1]), 1, Pairs(s)))

\* Fold the row variable; an odd last row folds against a row of ones.
FoldRows(s, c) ==
  Table(4 * Pairs(s), LAMBDA k :
    LET row == (k - 1) \div 4
        ch  == ((k - 1) % 4) + 1
    IN  Interp(At(s, 8 * row + ch), At(s, 8 * row + 4 + ch), c))

PadRow(s) == s \o [i \in 1..4 * CeilDiv(Len(s), 4) - Len(s) |-> EOne]

-----------------------------------------------------------------------------
(* The prover *)

\* The roots: one for the two trees that balance, one for the third.
GkrRoots(t, layers, mu) ==
  LET roots == [i \in 1..3 |-> layers[i][Len(layers[i])][1]] \o << >>
      sent  == Send(t, <<roots[1], roots[3]>>)
  IN  [t |-> AfterSamples(sent, 1), lambda |-> Sample(sent), mu |-> mu, layer |-> mu,
       layers |-> layers, roots |-> roots, values |-> roots,
       point |-> << >>, rpoint |-> << >>, trees |-> << >>, eq |-> << >>, open |-> FALSE]

GkrStart(t, leaves) ==
  LET mu == Log2Ceil(Len(leaves[1]))
  IN  GkrRoots(t, [i \in 1..3 |-> BuildLayers(leaves[i], mu)] \o << >>, mu)

\* The binary layer at the root of a tree of odd depth.
GkrBinary(g) ==
  LET k     == Len(g.layers[1]) - 1
      tails == [i \in 1..3 |-> <<g.layers[i][k][1], At(g.layers[i][k], 2)>>]
      sent  == Send(g.t, tails[1] \o tails[2] \o tails[3])
      c     == Sampled(sent, 2)
  IN  [g EXCEPT !.t = AfterSamples(sent, 2),
                !.values = Table(3, LAMBDA i : Interp(tails[i][1], tails[i][2], c[1])),
                !.lambda = c[2], !.point = <<c[1]>>, !.layer = @ - 1]

\* Take up the next two levels.
GkrOpen(g) ==
  [g EXCEPT !.trees = [i \in 1..3 |-> PadRow(g.layers[i][(g.layer - 2) \div 2 + 1])] \o << >>,
            !.eq = IF g.point = << >> THEN << >> ELSE EqTable(Tail(g.point)),
            !.rpoint = << >>, !.open = TRUE]

GkrFolded(g, c) ==
  LET sent == Send(g.t, c)
      r    == Sample(sent)
  IN  [g EXCEPT !.t = AfterSamples(sent, 1),
                !.trees = [i \in 1..3 |-> FoldRows(g.trees[i], r)] \o << >>,
                !.eq = ShrinkEqLow(g.eq), !.rpoint = Append(@, r)]

\* One round: the three messages under powers of lambda, less the constant.
GkrRound(g) ==
  LET m == [i \in 1..3 |-> RoundMessage(g.trees[i], g.eq)] \o << >>
  IN  GkrFolded(g, Table(4, LAMBDA k :
        EAdd(m[1][k], EMul(g.lambda, EAdd(m[2][k], EMul(g.lambda, m[3][k]))))))

\* The four children of the one row left, and the two variables that join them.
JoinChildren(s, low, high) == Interp(Interp(s[1], s[2], low), Interp(s[3], s[4], low), high)

GkrTails(g) ==
  LET sent == Send(g.t, g.trees[1] \o g.trees[2] \o g.trees[3])
      c    == Sampled(sent, 3)
  IN  [g EXCEPT !.t = AfterSamples(sent, 3),
                !.values = Table(3, LAMBDA i : JoinChildren(g.trees[i], c[1], c[2])),
                !.lambda = c[3], !.point = <<c[1], c[2]>> \o g.rpoint,
                !.layer = @ - 2, !.open = FALSE]

GkrRoundsDone(g) == Len(g.rpoint) = g.mu - g.layer

-----------------------------------------------------------------------------
(* The verifier *)

GkrVStart(t, mu) ==
  LET x == Peek(t, 2)
      u == Receive(t, 2)
      roots == <<x[1], x[1], x[2]>>
  IN  [t |-> AfterSamples(u, 1), lambda |-> Sample(u), mu |-> mu, layer |-> mu,
       roots |-> roots, values |-> roots, claim |-> EZero,
       point |-> << >>, rpoint |-> << >>, open |-> FALSE]

GkrVBinary(g) ==
  LET x     == Peek(g.t, 6)
      claim == PolyEval(g.values, g.lambda)
      prods == Table(3, LAMBDA i : EMul(x[2 * i - 1], x[2 * i]))
      u     == Check(Receive(g.t, 6), claim = PolyEval(prods, g.lambda), "layer mismatch")
      c     == Sampled(u, 2)
  IN  [g EXCEPT !.t = AfterSamples(u, 2),
                !.values = Table(3, LAMBDA i : Interp(x[2 * i - 1], x[2 * i], c[1])),
                !.lambda = c[2], !.point = <<c[1]>>, !.layer = @ - 1]

GkrVOpen(g) == [g EXCEPT !.claim = PolyEval(g.values, g.lambda), !.rpoint = << >>, !.open = TRUE]

GkrVRound(g) ==
  LET h == PeekEqRoundPoly(g.t, 5, g.claim, g.point[Len(g.rpoint) + 1])
      u == ReceiveRoundPoly(g.t, 5)
      r == Sample(u)
  IN  [g EXCEPT !.t = AfterSamples(u, 1), !.claim = PolyEval(h, r), !.rpoint = Append(@, r)]

GkrVTails(g) ==
  LET x     == Peek(g.t, 12)
      tail(i) == SubSeq(x, 4 * i - 3, 4 * i)
      prods == Table(3, LAMBDA i : EProd(LAMBDA j : tail(i)[j], 1, 4))
      u     == Check(Receive(g.t, 12), g.claim = PolyEval(prods, g.lambda), "layer mismatch")
      c     == Sampled(u, 3)
  IN  [g EXCEPT !.t = AfterSamples(u, 3),
                !.values = Table(3, LAMBDA i : JoinChildren(tail(i), c[1], c[2])),
                !.lambda = c[3], !.point = <<c[1], c[2]>> \o g.rpoint,
                !.layer = @ - 2, !.open = FALSE]
=============================================================================
