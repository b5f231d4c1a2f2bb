----------------------------- MODULE HashCircuit -----------------------------
(***************************************************************************)
(* The compression function of BLAKE2s as a constraint system              *)
(* (crates/flock/src: hash.rs, gf2.rs, witness.rs).  An instance is a block *)
(* of 2^HashLog bits: chaining value, output, the constant 1, message,     *)
(* metadata, then the carries of every gate; the row of a position is the  *)
(* product of two linear forms in the bits, which has to give the bit at   *)
(* that position.  The matrices are never written out: the forward walk    *)
(* evaluates the rows at any vector of E, the marginal walk transposes it. *)
(*                                                                         *)
(* The sizes are constants: HashWords words of WordBits bits (the program  *)
(* has 8 of 32) in a chaining value, twice that in a message and in the    *)
(* working state, half that in the metadata.                               *)
(***************************************************************************)
EXTENDS Multilinear
LOCAL INSTANCE SequencesExt

CONSTANTS WordBits, HashWords, NRounds,
          Rotations,  \* of the four exclusive-ors of a gate
          Sigma,      \* per round, the message words of its gates
          HashIV, ParamIV, PinnedMeta,
          HashLog     \* log of the bits of an instance

Lane == HashWords \div 2

ASSUME HashAssumption ==
  /\ WordBits <= KBits /\ KBits % WordBits = 0 /\ HashWords % 2 = 0
  /\ \A r \in 1..4 : Rotations[r] \in 1..WordBits - 1
  /\ \A r \in 1..NRounds : \A i \in 1..2 * HashWords : Sigma[r][i] \in 1..2 * HashWords
  /\ Len(HashIV) = HashWords /\ Len(ParamIV) = HashWords /\ Len(PinnedMeta) = Lane

CarryBits  == WordBits - 1      \* the carries of an addition, but the last
RippleBits == WordBits - 2
Add3Bits   == CarryBits + RippleBits
GStride    == 2 * Add3Bits + 2 * CarryBits
NGates     == NRounds * HashWords

\* Where the parts of a block begin.
SlotBits == HashWords * WordBits
CvBase   == 0
OutBase  == SlotBits
ConstPos == 2 * SlotBits
MsgBase  == CeilDiv(ConstPos + 1, 2 * KBits) * 2 * KBits
MetaBase == MsgBase + 2 * HashWords * WordBits
GsBase   == MetaBase + Lane * WordBits
UsefulBits == GsBase + NGates * GStride

ASSUME BlockAssumption == UsefulBits <= 2^HashLog

\* Where the two additions of each half of gate g keep their carries.
GateAt(g, half) ==
  LET base == GsBase + GStride * (g - 1) + (half - 1) * (Add3Bits + CarryBits)
  IN  [a |-> base, c |-> base + Add3Bits]

\* The words of the state gate g works on: a column, then a diagonal.
Lanes(g) ==
  LET k == (g - 1) % HashWords
      j == k % Lane
      shift == IF k < Lane THEN 0 ELSE 1
  IN  [i \in 1..4 |-> (i - 1) * Lane + ((j + (i - 1) * shift) % Lane) + 1]

\* The message words of gate g.
MessageWord(g, half) ==
  Sigma[(g - 1) \div HashWords + 1][2 * ((g - 1) % HashWords) + half]

-----------------------------------------------------------------------------
(* The function. *)

WAdd(x, y) == (x + y) % 2^WordBits
RotR(x, n) == x \div 2^n + (x % 2^n) * 2^(WordBits - n)
Xored(x, y, n) == RotR(KAdd(x, y), Rotations[n])

\* A gate is the same four assignments twice over, with other rotations.
HalfGate(v, m, half) ==
  LET a == WAdd(WAdd(v[1], v[2]), m)
      d == Xored(v[4], a, 2 * half - 1)
      c == WAdd(v[3], d)
      b == Xored(v[2], c, 2 * half)
  IN  <<a, b, c, d>>

Gate(v, mx, my) == HalfGate(HalfGate(v, mx, 1), my, 2)

InitialState(h, md) ==
  h \o SubSeq(HashIV, 1, Lane) \o [i \in 1..Lane |-> KAdd(HashIV[Lane + i], md[i])]

AtLanes(v, g) == [i \in 1..4 |-> v[Lanes(g)[i]]]

WithLanes(v, g, new) ==
  Table(Len(v), LAMBDA k :
    IF \E i \in 1..4 : Lanes(g)[i] = k THEN new[CHOOSE i \in 1..4 : Lanes(g)[i] = k] ELSE v[k])

\* The state after each gate.
StateAfter(h, m, md, g) ==
  LET after[k \in 0..g] ==
        IF k = 0 THEN InitialState(h, md)
        ELSE LET v == after[k - 1]
             IN  WithLanes(v, k, Gate(AtLanes(v, k), m[MessageWord(k, 1)], m[MessageWord(k, 2)]))
  IN  after[g]

CompressWords(h, m, md) ==
  LET v == StateAfter(h, m, md, NGates)
  IN  Table(HashWords, LAMBDA i : KAdd(h[i], KAdd(v[i], v[i + HashWords])))

\* An element of K holds KBits / WordBits words.
WordsOf(ks) ==
  LET per == KBits \div WordBits
  IN  Table(per * Len(ks), LAMBDA i :
        (ks[(i - 1) \div per + 1] \div 2^(WordBits * ((i - 1) % per))) % 2^WordBits)

KsOf(ws) ==
  LET per == KBits \div WordBits
  IN  Table(Len(ws) \div per, LAMBDA i :
        LET k[j \in 0..per] == IF j = 0 THEN 0
                               ELSE k[j - 1] + ws[per * (i - 1) + j] * 2^(WordBits * (j - 1))
        IN  k[per])

\* The compression the machine uses, between elements of K.
CompressK(cv, m, md) == KsOf(CompressWords(WordsOf(cv), WordsOf(m), WordsOf(md)))

-----------------------------------------------------------------------------
(* The witness of an instance: at each position the bit, and the values of  *)
(* the two forms its row multiplies.                                        *)

NoBit == <<0, 0, 0>>

Linear(word) == [i \in 1..WordBits |-> LET b == BitOf(word, i - 1) IN <<b, b, 1>>]
LinearAll(words) == FlattenSeq([i \in 1..Len(words) |-> Linear(words[i])])

Products(left, right, n) ==
  [i \in 1..n |-> LET l == BitOf(left, i - 1)
                      r == BitOf(right, i - 1)
                  IN  <<l * r, l, r>>]

\* The carries of x + y come back out of the sum.
AddParts(x, y) ==
  LET cin == KAdd(WAdd(x, y), KAdd(x, y))
  IN  Products(KAdd(x, cin), KAdd(y, cin), CarryBits)

AndWord(x, y) ==
  LET f[i \in 0..WordBits] == IF i = 0 THEN 0
                              ELSE f[i - 1] + 2^(i - 1) * BitOf(x, i - 1) * BitOf(y, i - 1)
  IN  f[WordBits]

\* Three addends: a majority per bit, then the carries of parity and majority.
Add3Parts(x, y, z) ==
  LET low(n) == n % 2^CarryBits
      maj    == low(KAdd(AndWord(KAdd(x, z), KAdd(y, z)), z))
      p      == KAdd(x, KAdd(y, z))
      q      == (2 * maj) % 2^WordBits
      cin    == KAdd(WAdd(p, q), KAdd(p, q))
  IN  Products(KAdd(x, z), KAdd(y, z), CarryBits)
        \o Products(KAdd(p, cin) \div 2, KAdd(q, cin) \div 2, RippleBits)

\* What half a gate adds up, given the words it leaves.
HalfWitness(v, m, new) == Add3Parts(v[1], v[2], m) \o AddParts(v[3], new[4])

GateWitness(v, mx, my) ==
  LET mid == HalfGate(v, mx, 1)
  IN  HalfWitness(v, mx, mid) \o HalfWitness(mid, my, HalfGate(mid, my, 2))

\* The block of one compression.
BlockWitness(h, m, md) ==
  LET gates == FlattenSeq([g \in 1..NGates |->
                 GateWitness(AtLanes(StateAfter(h, m, md, g - 1), g),
                             m[MessageWord(g, 1)], m[MessageWord(g, 2)])])
  IN  LinearAll(h) \o LinearAll(CompressWords(h, m, md)) \o << <<1, 1, 1>> >>
        \o [i \in 1..MsgBase - ConstPos - 1 |-> NoBit]
        \o LinearAll(m) \o LinearAll(md) \o gates
        \o [i \in 1..2^HashLog - UsefulBits |-> NoBit]

PaddingBlock == [h |-> ParamIV, m |-> [i \in 1..2 * HashWords |-> 0], md |-> PinnedMeta]

\* The blocks of all instances one after the other, up to 2^log of them.
WitnessOf(instances, log) ==
  FlattenSeq([i \in 1..2^log |->
    LET b == IF i <= Len(instances) THEN instances[i] ELSE PaddingBlock
    IN  BlockWitness(b.h, b.m, b.md)]) \o << >>

-----------------------------------------------------------------------------
(* The rows at a vector w of E, 2^HashLog entries. *)

Wire(w, base)     == Table(WordBits, LAMBDA i : w[base + i])
WireConst(w, word) == Table(WordBits, LAMBDA i : IF BitOf(word, i - 1) = 1 THEN w[ConstPos + 1] ELSE EZero)
WireXor(x, y)     == Table(WordBits, LAMBDA i : EAdd(x[i], y[i]))
WireRotR(x, n)    == Table(WordBits, LAMBDA i : x[((i - 1 + n) % WordBits) + 1])
WireRotL(x, n)    == WireRotR(x, WordBits - n)

\* The carry into each bit is the sum of the carries kept below it.
CarriesIn(w, base, first, n) ==
  LET cin[i \in 1..WordBits] ==
        IF i <= first THEN EZero
        ELSE IF i - first <= n THEN EAdd(cin[i - 1], w[base + i - first]) ELSE cin[i - 1]
  IN  Table(WordBits, LAMBDA i : cin[i])

WalkAdd(w, x, y, base) ==
  LET cin == CarriesIn(w, base, 1, CarryBits)
  IN  [out  |-> Table(WordBits, LAMBDA i : ESum3(x[i], y[i], cin[i])),
       rows |-> Table(CarryBits, LAMBDA i : <<EAdd(x[i], cin[i]), EAdd(y[i], cin[i])>>)]

WalkAdd3(w, x, y, z, base) ==
  LET q(i) == IF i = 1 THEN EZero ELSE EAdd(w[base + i - 1], z[i - 1])
      cin  == CarriesIn(w, base + CarryBits, 2, RippleBits)
      side == Table(WordBits, LAMBDA i : EAdd(ESum3(x[i], y[i], z[i]), cin[i]))
  IN  [out  |-> Table(WordBits, LAMBDA i : EAdd(side[i], q(i))),
       rows |-> Table(CarryBits, LAMBDA i : <<EAdd(x[i], z[i]), EAdd(y[i], z[i])>>)
                \o Table(RippleBits, LAMBDA i : <<side[i + 1], EAdd(q(i + 1), cin[i + 1])>>)]

WireXored(x, y, n) == WireRotR(WireXor(x, y), Rotations[n])

WalkOut(prev, v, a, d, c, half) ==
  [out  |-> <<a.out, WireXored(v[2], c.out, 2 * half), c.out, d>>,
   rows |-> prev.rows \o a.rows \o c.rows]

WalkHalf(w, prev, g, half) ==
  LET v == prev.out
      a == WalkAdd3(w, v[1], v[2], Wire(w, MsgBase + WordBits * (MessageWord(g, half) - 1)),
                    GateAt(g, half).a)
      d == WireXored(v[4], a.out, 2 * half - 1)
  IN  WalkOut(prev, v, a, d, WalkAdd(w, v[3], d, GateAt(g, half).c), half)

WalkGate(w, v, g) == WalkHalf(w, WalkHalf(w, [out |-> v, rows |-> << >>], g, 1), g, 2)

WalkNext(w, prev, r, g) ==
  [state |-> WithLanes(prev.state, g, r.out), rows |-> prev.rows \o r.rows]

\* The state after the last gate, and the rows of them all.
RowWalk(w) ==
  LET start ==
        Table(HashWords, LAMBDA i : Wire(w, CvBase + WordBits * (i - 1)))
        \o Table(Lane, LAMBDA i : WireConst(w, HashIV[i]))
        \o Table(Lane, LAMBDA i : WireXor(WireConst(w, HashIV[Lane + i]),
                                          Wire(w, MetaBase + WordBits * (i - 1))))
      walk[g \in 0..NGates] ==
        IF g = 0 THEN [state |-> start, rows |-> << >>]
        ELSE LET prev == walk[g - 1]
             IN  WalkNext(w, prev, WalkGate(w, AtLanes(prev.state, g), g), g)
  IN  walk[NGates]

\* Every row, the pair of its two forms; the second of a linear row is the
\* constant.
RowsFrom(w, end) ==
  LET constant(value) == <<value, w[ConstPos + 1]>>
      held(base, n) == Table(n, LAMBDA i : constant(w[base + i]))
      out(i) == LET k == (i - 1) \div WordBits + 1
                    b == ((i - 1) % WordBits) + 1
                IN  ESum3(end.state[k][b], end.state[k + HashWords][b], w[CvBase + i])
      nothing(n) == [i \in 1..n |-> <<EZero, EZero>>]
  IN  held(CvBase, SlotBits) \o Table(SlotBits, LAMBDA i : constant(out(i)))
        \o held(ConstPos, 1) \o nothing(MsgBase - ConstPos - 1)
        \o held(MsgBase, GsBase - MsgBase) \o end.rows \o nothing(2^HashLog - UsefulBits)

RowValues2(w) == RowsFrom(w, RowWalk(w))

\* u A w + alpha u B w.
RowsAt(rows, alpha, u) ==
  ESum(LAMBDA i : EMul(u[i], EAdd(rows[i][1], EMul(alpha, rows[i][2]))), 1, 2^HashLog)

BilinearWalk(alpha, u, w) == RowsAt(RowValues2(w), alpha, u)

-----------------------------------------------------------------------------
(* The transpose: u A, or u B, from the last gate back.  Each step turns    *)
(* what is asked of its output into what that asks of its inputs.           *)

OnA(side, x) == IF side = "A" THEN x ELSE EZero
OnB(side, x) == IF side = "B" THEN x ELSE EZero

\* The sums over the bits above i.
Above(f(_)) == Table(WordBits, LAMBDA i : ESum(f, i + 1, WordBits))

BackAdd(u, adj, base, side) ==
  LET p(i) == IF i <= CarryBits THEN u[base + i] ELSE EZero
      above == Above(LAMBDA i : EAdd(adj[i], p(i)))
  IN  [x |-> Table(WordBits, LAMBDA i : EAdd(adj[i], OnA(side, p(i)))),
       y |-> Table(WordBits, LAMBDA i : EAdd(adj[i], OnB(side, p(i)))),
       m |-> SubSeq(above, 1, CarryBits)]

BackAdd3(u, adj, base, side) ==
  LET rip(i) == IF i \in 2..RippleBits + 1 THEN u[base + CarryBits + i - 1] ELSE EZero
      maj(i) == IF i <= CarryBits THEN u[base + i] ELSE EZero
      qAdj(i) == IF i <= WordBits THEN EAdd(adj[i], OnB(side, rip(i))) ELSE EZero
      above  == Above(LAMBDA i : EAdd(adj[i], rip(i)))
      common(i) == EAdd(adj[i], OnA(side, rip(i)))
  IN  [x |-> Table(WordBits, LAMBDA i : EAdd(common(i), OnA(side, maj(i)))),
       y |-> Table(WordBits, LAMBDA i : EAdd(common(i), OnB(side, maj(i)))),
       z |-> Table(WordBits, LAMBDA i : ESum3(common(i), maj(i), qAdj(i + 1))),
       m |-> Table(CarryBits, LAMBDA i : qAdj(i + 1)) \o SubSeq(above, 2, RippleBits + 1)]

BackOut(prev, tb, td, c, a) ==
  [adj |-> <<a.x, WireXor(tb, a.y), c.x, td>>, msg |-> <<a.z>> \o prev.msg,
   m |-> a.m \o c.m \o prev.m]

BackHalf(u, prev, g, half, side) ==
  LET adj == prev.adj
      tb  == WireRotL(adj[2], Rotations[2 * half])
      c   == BackAdd(u, WireXor(adj[3], tb), GateAt(g, half).c, side)
      td  == WireRotL(WireXor(adj[4], c.y), Rotations[2 * half - 1])
  IN  BackOut(prev, tb, td, c, BackAdd3(u, WireXor(adj[1], td), GateAt(g, half).a, side))

BackGate(u, adj, g, side) ==
  BackHalf(u, BackHalf(u, [adj |-> adj, msg |-> << >>, m |-> << >>], g, 2, side), g, 1, side)

BackNext(prev, r, g) ==
  LET use(msg, half) == [msg EXCEPT ![MessageWord(g, half)] = WireXor(@, r.msg[half])]
  IN  [adj |-> WithLanes(prev.adj, g, r.adj), gates |-> r.m \o prev.gates,
       msg |-> use(use(prev.msg, 1), 2)]

\* What is asked of the output words, and of every word once back at the start.
AskedOut(u, side) ==
  Table(HashWords, LAMBDA k :
    Table(WordBits, LAMBDA i : OnA(side, u[OutBase + WordBits * (k - 1) + i])))

BackWalk(u, out, side) ==
  LET zero == [i \in 1..WordBits |-> EZero]
      back[g \in 1..NGates + 1] ==
        IF g > NGates
        THEN [adj |-> out \o out, msg |-> [k \in 1..2 * HashWords |-> zero], gates |-> << >>]
        ELSE LET prev == back[g + 1]
             IN  BackNext(prev, BackGate(u, AtLanes(prev.adj, g), g, side), g)
  IN  back[1]

MarginalEnd(u, out, end, side) ==
  LET bits(words) == FlattenSeq(words)
      cvAdj   == bits(SubSeq(end.adj, 1, HashWords))
      metaAdj == bits(SubSeq(end.adj, 3 * Lane + 1, 4 * Lane))
      held(base, adj) == Table(Len(adj), LAMBDA i : EAdd(OnA(side, u[base + i]), adj[i]))
      ofIv(k) == ESum(LAMBDA b : IF BitOf(HashIV[k], b - 1) = 1 THEN end.adj[HashWords + k][b] ELSE EZero,
                      1, WordBits)
      linear(base, n) == ESum(LAMBDA i : OnB(side, u[base + i]), 1, n)
      pinned == EAdd(ESum(ofIv, 1, HashWords),
                     ESum3(u[ConstPos + 1], linear(CvBase, 2 * SlotBits), linear(MsgBase, GsBase - MsgBase)))
      nothing(n) == [i \in 1..n |-> EZero]
  IN  held(CvBase, Table(SlotBits, LAMBDA i : EAdd(cvAdj[i], bits(out)[i]))) \o nothing(SlotBits)
        \o <<pinned>> \o nothing(MsgBase - ConstPos - 1)
        \o held(MsgBase, bits(end.msg)) \o held(MetaBase, metaAdj)
        \o end.gates \o nothing(2^HashLog - UsefulBits)

MarginalWalk(u, out, side) == MarginalEnd(u, out, BackWalk(u, out, side), side)

\* u A + alpha u B.
Drawn(alpha, a, b) == Table(2^HashLog, LAMBDA i : EAdd(a[i], EMul(alpha, b[i])))

Marginal(alpha, u) ==
  Drawn(alpha, MarginalWalk(u, AskedOut(u, "A"), "A"), MarginalWalk(u, AskedOut(u, "B"), "B"))
=============================================================================
