-------------------------------- MODULE Whir --------------------------------
(***************************************************************************)
(* The low-degree argument of the commitment (crates/pcs/src: whir.rs,     *)
(* whir_induce.rs, ntt/).  It shows that a committed vector f has inner    *)
(* product target with a basis both sides know.  f is encoded and its rows *)
(* hashed; a sumcheck folds f, first whole lanes and then pairs; at every  *)
(* level the folded vector is committed in turn and the one before opened  *)
(* at rows drawn from the transcript, each of which is a new claim on the  *)
(* folded vector, batched into the sumcheck.  The last one is sent whole.  *)
(***************************************************************************)
EXTENDS Transcript
LOCAL INSTANCE SequencesExt

CONSTANTS InitialK,     \* log of the lanes folded first
          LevelKs,      \* variables folded at each level after
          LogInvRates,  \* of the code of each level, the first commitment's first
          OodSamples,   \* claims outside the code's domain, per commitment
          Queries,      \* rows opened of each commitment
          GrindingBits  \* proof of work before each opening

ASSUME WhirAssumption ==
  /\ InitialK >= 1 /\ Len(LevelKs) >= 1 /\ Len(LogInvRates) = Len(LevelKs) + 1
  /\ OodSamples[1] = 0

LastLevel == Len(LevelKs)

-----------------------------------------------------------------------------
(* The additive transform: from a message to its codeword over the span of  *)
(* 1, x, x^2, ...                                                           *)

\* The normalised subspace polynomials at the later basis elements.
SubspaceEvals(n) ==
  LET raw[i \in 1..n] ==
        IF i = 1 THEN Table(n, LAMBDA k : 2^(k - 1))
        ELSE LET up == raw[i - 1]
             IN  Table(n - i + 1, LAMBDA k : KMul(up[k + 1], KAdd(up[k + 1], up[1])))
  IN  Table(n, LAMBDA i : Table(n - i + 1, LAMBDA k : KMul(raw[i][k], KInverse[raw[i][1]])))

SpanGet(basis, index) ==
  LET sum[j \in 0..Len(basis)] ==
        IF j = 0 THEN 0
        ELSE KAdd(sum[j - 1], IF BitOf(index, j - 1) = 1 THEN basis[j] ELSE 0)
  IN  sum[Len(basis)]

Twiddle(evals, layer, block) == SpanGet(Tail(evals[Len(evals) - layer]), block)

\* A layer of butterflies: u + v t above, and v more than that below.
NttLayer(data, evals, layer) ==
  LET size == Len(data) \div 2^layer
      half == size \div 2
      tw   == Table(2^layer, LAMBDA b : Twiddle(evals, layer, b - 1))
  IN  Table(Len(data), LAMBDA p :
        LET top == IF (p - 1) % size < half THEN p ELSE p - half
            u   == EAdd(data[top], EMulBase(data[top + half], tw[(p - 1) \div size + 1]))
        IN  IF p = top THEN u ELSE EAdd(data[p], u))

\* The message repeated and transformed from the layer of the rate on.
Encode(message, logInvRate) ==
  LET logD  == Log2Ceil(Len(message)) + logInvRate
      evals == SubspaceEvals(logD)
      after[layer \in logInvRate..logD] ==
        IF layer = logInvRate
        THEN Table(2^logD, LAMBDA p : message[((p - 1) % Len(message)) + 1])
        ELSE NttLayer(after[layer - 1], evals, layer - 1)
  IN  after[logD]

\* The rows of codewords side by side.
RowsOf(words) == Table(Len(words[1]), LAMBDA p : Table(Len(words), LAMBDA j : words[j][p]))

\* The first commitment: whole lanes of f, the last lane first.
CommitLanes(f, lanes) ==
  LET size == Len(f) \div lanes
  IN  RowsOf(Table(lanes, LAMBDA t :
        Encode(SubSeq(f, size * (lanes - t) + 1, size * (lanes - t + 1)), LogInvRates[1])))

\* The later ones: 2^k interleaved words.
CommitFolded(f, k, logInvRate) ==
  RowsOf(Table(2^k, LAMBDA j :
    Encode(Table(Len(f) \div 2^k, LAMBDA c : f[2^k * (c - 1) + j]), logInvRate)))

\* A row of the first commitment as the lanes' values: its image has zeros
\* before it for the lanes that are absent, and is read from the end.
LaneRow(row) == Table(2^InitialK, LAMBDA i : IF i <= Len(row) THEN row[Len(row) + 1 - i] ELSE EZero)

FoldableRow(level, row) == IF level = 0 THEN LaneRow(row) ELSE row

-----------------------------------------------------------------------------
(* What an opened row says of the folded vector: the evaluation of the      *)
(* message's polynomial at the row's position.                              *)

NextS(s, root) == KAdd(KMul(s, s), KMul(root, s))

\* The subspace polynomials at their own basis elements.
SkRoots(n) ==
  LET step[i \in 0..n] ==
        IF i = 0 THEN [root |-> 1, layer |-> Table(n, LAMBDA k : 2^k)]
        ELSE LET s == step[i - 1]
                 next == Table(Len(s.layer), LAMBDA j : NextS(s.layer[j], s.root))
             IN  [root |-> next[1], layer |-> Tail(next)]
  IN  Table(n + 1, LAMBDA i : step[i - 1].root)

\* The normalised polynomials at position q.
SksAt(q, n) ==
  LET roots == SkRoots(n)
      s[i \in 1..n] == IF i = 1 THEN q ELSE NextS(s[i - 1], roots[i - 1])
  IN  Table(n, LAMBDA i : KMul(s[i], IF roots[i] = 0 THEN 0 ELSE KInverse[roots[i]]))

InducedBasis(n, queries, weights) ==
  LET one(i) ==
        LET sks == SksAt(queries[i], n)
            table[k \in 0..n] ==
              IF k = 0 THEN <<weights[i]>>
              ELSE table[k - 1] \o Table(2^(k - 1), LAMBDA j : EMulBase(table[k - 1][j], sks[k]))
        IN  table[n]
      all == Table(Len(queries), one)
  IN  Table(2^n, LAMBDA m : ESum(LAMBDA i : all[i][m], 1, Len(queries)))

\* Its extension at a point.
InducedAt(point, queries, weights) ==
  ESum(LAMBDA i :
         LET sks == SksAt(queries[i], Len(point))
         IN  EMul(weights[i], EProd(LAMBDA k :
               EAdd(EOne, EMul(point[k], EAdd(EOne, Lift(sks[k])))), 1, Len(point))),
       1, Len(queries))

EnforcedSum(rows, challenges, weights) ==
  LET eq == EqTable(challenges)
  IN  ESum(LAMBDA i : EMul(weights[i], Dot(rows[i], eq)), 1, Len(rows))

\* Row numbers of d bits, as many from a challenge as its bits hold.
QueriesFrom(challenges, d, count) ==
  LET per == (3 * KBits) \div d
      number(x) == x[1] + x[2] * 2^KBits + x[3] * 2^(2 * KBits)
  IN  Table(count, LAMBDA i :
        (number(challenges[(i - 1) \div per + 1]) \div 2^(d * ((i - 1) % per))) % 2^d)

QueryChallenges(d, count) == CeilDiv(count, (3 * KBits) \div d)

-----------------------------------------------------------------------------
(* The shape of the levels, for a vector of 2^logN. *)

FoldsAt(level) == IF level = 0 THEN InitialK ELSE LevelKs[level]

\* Variables left when the folds of a level are done.
VarsAfter(logN, level) ==
  LET v[l \in 0..level] == IF l = 0 THEN logN - InitialK ELSE v[l - 1] - LevelKs[l]
  IN  v[level]

CodeLog(logN, level) == VarsAfter(logN, level) + LogInvRates[level + 1]

OodCount(level) == IF level + 1 <= Len(OodSamples) THEN OodSamples[level + 1] ELSE 0

\* The quadratic of a round: its value at zero, its top, and the claim.
Quad(msg, claim) == <<msg[1], EAdd(claim, msg[2]), msg[2]>>

\* Blocks are folded in pairs, a lone one against zeros.
BlockValue(s, block, b, i) == IF (b + 1) * block <= Len(s) THEN s[b * block + i] ELSE EZero

FoldBlocks(s, block, r) ==
  Table(block * CeilDiv(Len(s), 2 * block), LAMBDA k :
    LET b == 2 * ((k - 1) \div block)
        i == ((k - 1) % block) + 1
    IN  Interp(BlockValue(s, block, b, i), BlockValue(s, block, b + 1, i), r))

RoundMsg(f, basis, block) ==
  LET n == block * CeilDiv(Len(f), 2 * block)
      at(s, k, up) == BlockValue(s, block, 2 * ((k - 1) \div block) + up, ((k - 1) % block) + 1)
      both(s, k) == EAdd(at(s, k, 0), at(s, k, 1))
  IN  <<ESum(LAMBDA k : EMul(at(f, k, 0), at(basis, k, 0)), 1, n),
        ESum(LAMBDA k : EMul(both(f, k), both(basis, k)), 1, n)>>

-----------------------------------------------------------------------------
(* The prover.  matrix is the last commitment, next the one just made. *)

WhirStart(t, f, basis, target, logN, matrix) ==
  LET block == 2^(logN - InitialK)
      quad  == Quad(RoundMsg(f, basis, block), target)
  IN  [t |-> SendRoundPoly(t, quad, FALSE), f |-> f, basis |-> basis, claim |-> target,
       quad |-> quad, block |-> block, ris |-> << >>, folded |-> << >>, level |-> 0,
       matrix |-> matrix, next |-> << >>, pending |-> << >>, ready |-> FALSE]

FoldsDone(w) == Len(w.folded) = FoldsAt(w.level)

WhirFold(w) ==
  LET r     == Sample(w.t)
      block == IF w.level = 0 THEN w.block ELSE 1
      last  == Len(w.ris) + 1 >= InitialK
      f     == FoldBlocks(w.f, block, r)
      basis == FoldBlocks(w.basis, block, r)
      claim == PolyEval(w.quad, r)
      quad  == Quad(RoundMsg(f, basis, IF last THEN 1 ELSE block), claim)
  IN  [w EXCEPT !.t = SendRoundPoly(AfterSamples(@, 1), quad, FALSE),
                !.f = f, !.basis = basis, !.claim = claim, !.quad = quad,
                !.ris = Append(@, r), !.folded = Append(@, r)]

\* A claim that waits to be batched in.
Introduce(w, basis, value) ==
  LET quad == Quad(RoundMsg(w.f, basis, 1), value)
  IN  [w EXCEPT !.t = SendRoundPoly(@, quad, FALSE),
                !.pending = Append(@, [basis |-> basis, value |-> value, quad |-> quad])]

SendOod(w) ==
  LET n     == Log2Ceil(Len(w.f))
      basis == EqTable(Sampled(w.t, n))
      y     == Dot(w.f, basis)
  IN  Introduce([w EXCEPT !.t = Send(AfterSamples(@, n), <<y>>)], basis, y)

\* What the level sends when its folds are done: the next commitment with its
\* claims out of the domain, or at the last level the vector itself.
WhirCommit(w) ==
  LET next == CommitFolded(w.f, LevelKs[w.level + 1], LogInvRates[w.level + 2])
      ood[i \in 0..OodCount(w.level + 1)] ==
        IF i = 0 THEN [w EXCEPT !.t = SendRoot(@, RootOf(next)), !.next = next, !.ready = TRUE]
        ELSE SendOod(ood[i - 1])
  IN  IF w.level = LastLevel THEN [w EXCEPT !.t = Send(@, w.f), !.ready = TRUE]
      ELSE ood[OodCount(w.level + 1)]

Glue(w, lambda) ==
  LET scale == EPowers(lambda, Len(w.pending) + 1)
      all(f(_)) == ESum(LAMBDA i : EMul(scale[i + 1], f(w.pending[i])), 1, Len(w.pending))
  IN  [w EXCEPT !.basis = Table(Len(@), LAMBDA m : EAdd(@[m], all(LAMBDA p : p.basis[m]))),
                !.claim = EAdd(@, all(LAMBDA p : p.value)),
                !.quad  = Table(3, LAMBDA c : EAdd(@[c], all(LAMBDA p : p.quad[c]))),
                !.pending = << >>]

\* Open the last commitment at drawn rows.
WhirOpen(w) ==
  LET count   == Queries[w.level + 1]
      d       == Log2Ceil(Len(w.matrix))
      n       == QueryChallenges(d, count)
      ground  == Grind(w.t, GrindingBits[w.level + 1])
      drawn   == Sampled(ground, n + 1)
      queries == QueriesFrom(drawn, d, count)
      weights == EPowers(drawn[n + 1], count)
      rows    == Table(count, LAMBDA i : w.matrix[queries[i] + 1])
      folded  == Table(count, LAMBDA i : FoldableRow(w.level, rows[i]))
      hinted  == HintMerkle(AfterSamples(ground, n + 1), [rows |-> rows, matrix |-> w.matrix])
  IN  [Glue(Introduce([w EXCEPT !.t = hinted], InducedBasis(Log2Ceil(Len(w.f)), queries, weights),
                      EnforcedSum(folded, w.folded, weights)), drawn[n + 1]) EXCEPT
         !.matrix = w.next, !.next = << >>, !.folded = << >>, !.level = @ + 1, !.ready = FALSE]

\* The folds of the vector that was sent; the last says nothing new.
WhirLast(w) ==
  IF Len(w.f) = 1 THEN w
  ELSE LET r     == Sample(w.t)
           f     == FoldBlocks(w.f, 1, r)
           basis == FoldBlocks(w.basis, 1, r)
           claim == PolyEval(w.quad, r)
           quad  == Quad(RoundMsg(f, basis, 1), claim)
           drawn == AfterSamples(w.t, 1)
       IN  [w EXCEPT !.t = IF Len(f) > 1 THEN SendRoundPoly(drawn, quad, FALSE) ELSE drawn,
                     !.f = f, !.basis = basis, !.claim = claim, !.quad = quad]

-----------------------------------------------------------------------------
(* The verifier. *)

WhirVStart(t, target, logN, lanes, root) ==
  [t |-> ReceiveRoundPoly(t, 3), claim |-> target, quad |-> PeekRoundPoly(t, 3, target),
   logN |-> logN, lanes |-> lanes, ris |-> << >>, folded |-> << >>, tail |-> << >>, level |-> 0,
   root |-> root, next |-> 0, ood |-> << >>, residual |-> << >>,
   opened |-> << >>, oods |-> << >>, ready |-> FALSE]

WhirVFold(w) ==
  LET r     == Sample(w.t)
      claim == PolyEval(w.quad, r)
      u     == AfterSamples(w.t, 1)
  IN  [w EXCEPT !.t = ReceiveRoundPoly(u, 3), !.claim = claim, !.quad = PeekRoundPoly(u, 3, claim),
                !.ris = Append(@, r), !.folded = Append(@, r)]

ReceiveOod(w) ==
  LET n == VarsAfter(w.logN, w.level)
      u == AfterSamples(w.t, n)
      y == Peek(u, 1)[1]
      v == Receive(u, 1)
  IN  [w EXCEPT !.t = ReceiveRoundPoly(v, 3),
                !.ood = Append(@, [z |-> Sampled(w.t, n), value |-> y, quad |-> PeekRoundPoly(v, 3, y)])]

WhirVCommit(w) ==
  LET size == 2^VarsAfter(w.logN, w.level)
      ood[i \in 0..OodCount(w.level + 1)] ==
        IF i = 0 THEN [w EXCEPT !.t = ReceiveRoot(@), !.next = PeekRoot(w.t), !.ready = TRUE]
        ELSE ReceiveOod(ood[i - 1])
  IN  IF w.level = LastLevel
      THEN [w EXCEPT !.t = Receive(@, size), !.residual = Peek(w.t, size), !.ready = TRUE]
      ELSE ood[OodCount(w.level + 1)]

WhirVBatched(w, t, claims, lambda, queries, weights) ==
  LET scale == EPowers(lambda, Len(claims) + 1)
  IN  [w EXCEPT
        !.t = t,
        !.claim = EAdd(@, ESum(LAMBDA i : EMul(scale[i + 1], claims[i].value), 1, Len(claims))),
        !.quad = Table(3, LAMBDA c :
          EAdd(@[c], ESum(LAMBDA i : EMul(scale[i + 1], claims[i].quad[c]), 1, Len(claims)))),
        !.opened = Append(@, [queries |-> queries, weights |-> weights,
                              from |-> Len(w.ris), scale |-> scale[Len(claims) + 1]]),
        !.oods = @ \o [i \in 1..Len(w.ood) |->
                         [z |-> w.ood[i].z, from |-> Len(w.ris), scale |-> scale[i + 1]]],
        !.root = w.next, !.next = 0, !.ood = << >>, !.folded = << >>,
        !.level = @ + 1, !.ready = FALSE]

\* The rows have to be rows of the commitment; the level's claims are batched
\* under powers of one challenge, those out of the domain first.
WhirVOpen(w) ==
  LET count   == Queries[w.level + 1]
      d       == CodeLog(w.logN, w.level)
      n       == QueryChallenges(d, count)
      ground  == GrindCheck(w.t, GrindingBits[w.level + 1])
      drawn   == Sampled(ground, n + 1)
      lambda  == drawn[n + 1]
      queries == QueriesFrom(drawn, d, count)
      weights == EPowers(lambda, count)
      width   == IF w.level = 0 THEN w.lanes ELSE 2^FoldsAt(w.level)
      merkle  == NextMerkleBatch(AfterSamples(ground, n + 1), w.root, queries, width, 2^d)
      rows    == Table(count, LAMBDA i : FoldableRow(w.level, PeekMerkle(ground)[i]))
      claim(value) == [value |-> value, quad |-> PeekRoundPoly(merkle, 3, value)]
  IN  IF merkle.err # "none" THEN [w EXCEPT !.t = merkle]
      ELSE WhirVBatched(w, ReceiveRoundPoly(merkle, 3),
                        Append(w.ood, claim(EnforcedSum(rows, w.folded, weights))),
                        lambda, queries, weights)

VarsLeft(w) == VarsAfter(w.logN, LastLevel)

WhirVLast(w) ==
  LET r     == Sample(w.t)
      claim == PolyEval(w.quad, r)
      u     == AfterSamples(w.t, 1)
      more  == Len(w.tail) + 1 < VarsLeft(w)
  IN  [w EXCEPT !.t = IF more THEN ReceiveRoundPoly(u, 3) ELSE u, !.claim = claim,
                !.quad = IF more THEN PeekRoundPoly(u, 3, claim) ELSE @, !.tail = Append(@, r)]

\* The challenges by the variables of the vector: the lanes, folded first, are
\* the top ones.
WhirVPoint(w) ==
  LET all == w.ris \o w.tail
  IN  SubSeq(all, InitialK + 1, Len(all)) \o SubSeq(all, 1, InitialK)

\* What the basis of every claim comes to at the challenges, times what the
\* vector comes to, is the last claim.  basis is the one it started from.
WhirVEnd(w, basis) ==
  LET point(from) == SubSeq(w.ris, from + 1, Len(w.ris)) \o w.tail
      weight == ESum3(
        ESum(LAMBDA i : LET o == w.opened[i]
                        IN  EMul(o.scale, InducedAt(point(o.from), o.queries, o.weights)),
             1, Len(w.opened)),
        ESum(LAMBDA i : EMul(w.oods[i].scale, EqEval(w.oods[i].z, point(w.oods[i].from))), 1, Len(w.oods)),
        basis)
  IN  [w EXCEPT !.t = Check(@, EMul(weight, MleEvalE(w.residual, w.tail)) = w.claim, "terminal mismatch")]

-----------------------------------------------------------------------------
(***************************************************************************)
(* One opening of the committed vector for all claims on it (crates/pcs:   *)
(* stack_open.rs, basis.rs, ring_switch.rs, tensor_algebra.rs).  Claims on *)
(* columns are evaluations of windows of the vector.  The claim on the     *)
(* hash witness is about its bits, which are packed into words: the ring   *)
(* switch turns the partial values at each bit of a word into one inner    *)
(* product with the words, through a random linear map of E to E over      *)
(* GF(2).  All are batched into the one inner product Whir shows.          *)
(***************************************************************************)

CONSTANT CompositionShifts \* Frobenius powers that make up the linear map

\* The coordinates of E over GF(2).
Degree == 3 * KBits
EBit(e, w) == BitOf(e[(w \div KBits) + 1], w % KBits)
EFromBits(bits) ==
  LET limb(l) == LET s[i \in 0..KBits] == IF i = 0 THEN 0
                                          ELSE s[i - 1] + 2^(i - 1) * bits[KBits * l + i]
                 IN  s[KBits]
  IN  <<limb(0), limb(1), limb(2)>>

EFrobenius2(e, n) == LET s[i \in 0..n] == IF i = 0 THEN e ELSE EMul(s[i - 1], s[i - 1]) IN s[n]

ComposedMap(value, challenges) ==
  LET after[i \in 0..Len(CompositionShifts)] ==
        IF i = 0 THEN value
        ELSE EAdd(after[i - 1], EMul(challenges[i], EFrobenius2(after[i - 1], CompositionShifts[i])))
  IN  after[Len(CompositionShifts)]

\* Where the map takes each basis element.
CoordinateWeights(challenges) ==
  Table(Degree, LAMBDA w :
    ComposedMap(EFromBits(Table(Degree, LAMBDA j : IF j = w THEN 1 ELSE 0)), challenges))

\* The map itself.
MapAt(e, weights) ==
  ESum(LAMBDA w : IF EBit(e, w - 1) = 1 THEN weights[w] ELSE EZero, 1, Degree)

\* Bit i of word w is bit w of slice i.
TransposeSlices(slices) ==
  Table(Degree, LAMBDA w :
    LET word[i \in 0..Len(slices)] == IF i = 0 THEN 0
                                      ELSE word[i - 1] + 2^(i - 1) * EBit(slices[i], w - 1)
    IN  word[Len(slices)])

SliceSum(slices, weights) == DotBase(weights, TransposeSlices(slices))

Transpose(elems) ==
  Table(Degree, LAMBDA i : EFromBits(Table(Degree, LAMBDA j : EBit(elems[j], i - 1))))

\* The map at eq(z, x), eq taken in the tensor product of E with itself.
RingEq(z, x, weights) ==
  LET scaled(elems, c) == Table(Degree, LAMBDA i : EMul(elems[i], c))
      eval[k \in 0..Len(z)] ==
        IF k = 0 THEN Table(Degree, LAMBDA i : IF i = 1 THEN EOne ELSE EZero)
        ELSE LET e == eval[k - 1]
                 vertical   == scaled(e, z[k])
                 horizontal == Transpose(scaled(Transpose(e), x[k]))
             IN  Table(Degree, LAMBDA i : ESum3(e[i], vertical[i], horizontal[i]))
      folded == Transpose(eval[Len(z)])
  IN  ESum(LAMBDA i : EMul(folded[i], weights[i]), 1, Degree)

-----------------------------------------------------------------------------
(* A claim: at point, the entries slot, slot + 2^stride, ... of the window   *)
(* at offset.  The stride of a whole column is nothing.                      *)

StackClaim(offset, slot, stride, point, value) ==
  [offset |-> offset, slot |-> slot, stride |-> stride, point |-> point, value |-> value]

ClaimSize(c) == 2^(c.stride + Len(c.point))

\* The bits of n at the coordinates of x.
SelectorEq(n, x) ==
  EProd(LAMBDA k : IF BitOf(n, k - 1) = 1 THEN x[k] ELSE EAdd(EOne, x[k]), 1, Len(x))

ClaimEqAt(c, x) ==
  LET vars == c.stride + Len(c.point)
  IN  EMul(EMul(SelectorEq(c.slot, SubSeq(x, 1, c.stride)),
                EqEval(c.point, SubSeq(x, c.stride + 1, vars))),
           SelectorEq(c.offset \div 2^vars, SubSeq(x, vars + 1, Len(x))))

\* ring is the window of the packed bits and the claim on its slices; the
\* batching is drawn after every claim is fixed.
Batching(t, ring, claims) ==
  LET maps    == Len(CompositionShifts)
      c       == Sampled(t, maps + 1)
      weights == CoordinateWeights(SubSeq(c, 1, maps))
      lambdas == EPowers(c[maps + 1], Len(claims) + 1)
  IN  [t |-> AfterSamples(t, maps + 1), weights |-> weights, lambdas |-> lambdas,
       target |-> EAdd(SliceSum(ring.slices, weights),
                       ESum(LAMBDA i : EMul(lambdas[i + 1], claims[i].value), 1, Len(claims)))]

\* The basis over the committed lanes: the prover's table of it.
BasisTable(size, ring, claims, batch) ==
  LET eqs    == Table(Len(claims), LAMBDA i : EqTable(claims[i].point))
      ringEq == Table(2^ring.vars, LAMBDA y : MapAt(EqTable(ring.point)[y], batch.weights))
      part(i, y) ==
        LET z == y - claims[i].offset
        IN  IF z \in 0..ClaimSize(claims[i]) - 1 /\ z % 2^claims[i].stride = claims[i].slot
            THEN EMul(batch.lambdas[i + 1], eqs[i][(z \div 2^claims[i].stride) + 1]) ELSE EZero
  IN  Table(size, LAMBDA y :
        EAdd(IF y - 1 - ring.offset \in 0..2^ring.vars - 1 THEN ringEq[y - ring.offset] ELSE EZero,
             ESum(LAMBDA i : part(i, y - 1), 1, Len(claims))))

\* The verifier's value of it at a point.
BasisAt(x, ring, claims, batch) ==
  EAdd(EMul(RingEq(ring.point, SubSeq(x, 1, ring.vars), batch.weights),
            SelectorEq(ring.offset \div 2^ring.vars, SubSeq(x, ring.vars + 1, Len(x)))),
       ESum(LAMBDA i : EMul(batch.lambdas[i + 1], ClaimEqAt(claims[i], x)), 1, Len(claims)))
=============================================================================
