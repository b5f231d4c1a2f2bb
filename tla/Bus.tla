-------------------------------- MODULE Bus --------------------------------
(***************************************************************************)
(* The bus argument (lean_vm/src/leaf.rs).  A block is 2^kappa messages,   *)
(* the tuple of coordinates at each row; push and pull messages have to be *)
(* the same multiset, and no count may be zero.  The three products go     *)
(* through Gkr, and the claim on each side's leaves comes apart into the   *)
(* columns of the blocks no table owns, claimed here, and a form per table *)
(* that its sumcheck takes up.                                             *)
(*                                                                         *)
(* And the layout of a proof (cpu/layout.rs, witness.rs): the blocks and   *)
(* where every column lies in the one committed vector, from the program   *)
(* and the announced sizes alone.                                          *)
(***************************************************************************)
EXTENDS Gkr, Tables, HashCircuit
LOCAL INSTANCE SequencesExt

CONSTANTS LogPacking,  \* log of the bits in a word of K
          LogBatch,    \* log of the lanes of the committed vector
          MinMu        \* its smallest log size

BlockOf(kappa, coords, owner) == [kappa |-> kappa, coords |-> coords, owner |-> owner]
NoOwner == "none"

TupleBits == 4

\* The 16 weights of a tuple's slots: the eq table of the alphas.
FingerprintWeights(alphas) == EqTable(alphas)

\* Where each of the objects of 2^kappas[i] entries goes: the largest first,
\* those of a size in order, so that every one is aligned to its own size.
StackBefore(kappas, j, i) == kappas[j] > kappas[i] \/ (kappas[j] = kappas[i] /\ j < i)

StackOffsets(kappas) ==
  LET placed == {i \in 1..Len(kappas) : kappas[i] >= 0}
      sizes(S) == LET f[i \in 0..Len(kappas)] ==
                        IF i = 0 THEN 0 ELSE f[i - 1] + (IF i \in S THEN 2^kappas[i] ELSE 0)
                  IN  f[Len(kappas)]
  IN  [offsets |-> Table(Len(kappas), LAMBDA i :
                     IF i \in placed THEN sizes({j \in placed : StackBefore(kappas, j, i)}) ELSE 0),
       placed  |-> sizes(placed)]

BlockLayout(blocks) ==
  LET s == StackOffsets([b \in 1..Len(blocks) |-> blocks[b].kappa])
  IN  [offsets |-> s.offsets, mu |-> Log2Ceil(IF s.placed = 0 THEN 1 ELSE s.placed),
       explicit |-> IF s.placed = 0 THEN 1 ELSE s.placed]

-----------------------------------------------------------------------------
(* Terms under the weight of their slot. *)

VirtualAt(term, z) ==
  CASE term.virtual = NoVirtual    -> 1
    [] term.virtual = <<"index">>  -> GPow(z)
    [] OTHER                       -> term.virtual[2][z + 1]

\* A term at row z of the columns.
TermAt(term, cols, z) ==
  LET times[i \in 0..Len(term.cols)] ==
        IF i = 0 THEN KMul(term.k, VirtualAt(term, z)) ELSE KMul(times[i - 1], cols[term.cols[i]][z + 1])
  IN  times[Len(term.cols)]

\* The terms of a block's tuple, each with its slot's weight.
Weighted(coords, w) ==
  FlattenSeq([s \in 1..Len(coords) |-> [j \in 1..Len(coords[s]) |-> <<w[s], coords[s][j]>>]])

BuildLeaves(blocks, lay, cols, w, beta) ==
  LET terms == [b \in 1..Len(blocks) |-> Weighted(blocks[b].coords, w)] \o << >>
      row(b, z) == EAdd(beta, ESum(LAMBDA j :
                     EMulBase(terms[b][j][1], TermAt(terms[b][j][2], cols, z)), 1, Len(terms[b])))
      holds(b, i) == i \in lay.offsets[b]..lay.offsets[b] + 2^blocks[b].kappa - 1
  IN  Table(lay.explicit, LAMBDA i :
        IF \E b \in 1..Len(blocks) : holds(b, i - 1)
        THEN LET b == CHOOSE b \in 1..Len(blocks) : holds(b, i - 1)
             IN  row(b, i - 1 - lay.offsets[b])
        ELSE EOne)

-----------------------------------------------------------------------------
(* A bus form: what the blocks of one table add up to on one side, as a     *)
(* sequence of terms over the table's columns under weights of E.  (The     *)
(* code adds up the weights of the terms on the same columns.)              *)

Scaled(form, w) == Table(Len(form), LAMBDA i : [form[i] EXCEPT !.w = EMul(@, w)])

\* At the values of a row; of degree two alone for a quadratic coefficient.
FormAt(t, form, row, quadratic) ==
  ESum(LAMBDA i :
         LET f == form[i]
         IN  IF quadratic /\ Len(f.cols) < 2 THEN EZero
             ELSE EMul(f.w, EProd(LAMBDA j : row[f.cols[j][2]], 1, Len(f.cols))),
       1, Len(form))

\* Its sum over the table's rows under eq(zeta, .): each term is the multilinear
\* extension of the product of its columns.
FormSum(form, eq, cols) ==
  ESum(LAMBDA i :
         EMul(form[i].w, DotBase(eq, Table(Len(eq), LAMBDA z :
           TermAt(Term(form[i].cols, 1, NoVirtual), cols, z - 1)))),
       1, Len(form))

SelectorBits(lay, b, kappa) ==
  [k \in 1..lay.mu - kappa |-> Lift(BitOf(lay.offsets[b] \div 2^kappa, k - 1))]

\* The weight of block b's window in the side's cube.
WindowWeight(blocks, lay, zeta, b) ==
  LET kappa == blocks[b].kappa
  IN  EqEval(SelectorBits(lay, b, kappa), SubSeq(zeta, kappa + 1, lay.mu))

TableForm(blocks, lay, zeta, w, beta, t) ==
  FlattenSeq([b \in 1..Len(blocks) |->
    IF blocks[b].owner # t THEN << >>
    ELSE LET eqHi == WindowWeight(blocks, lay, zeta, b)
             ws   == Weighted(blocks[b].coords, w)
         IN  <<[cols |-> << >>, w |-> EMul(eqHi, beta)]>> \o
             [i \in 1..Len(ws) |-> [cols |-> ws[i][2].cols,
                                    w |-> EMul(eqHi, EMulBase(ws[i][1], ws[i][2].k))]]]) \o << >>

TableForms(blocks, lay, zeta, w, beta) ==
  [t \in ToSet(TableNames) |-> TableForm(blocks, lay, zeta, w, beta, t)]

-----------------------------------------------------------------------------
(* Claims: the value of a column at a point. *)

ColumnClaim(col, point, value) == [col |-> col, point |-> point, value |-> value]

Known(claims, col, point) == \E i \in 1..Len(claims) : claims[i].col = col /\ claims[i].point = point
ClaimedValue(claims, col, point) ==
  claims[CHOOSE i \in 1..Len(claims) : claims[i].col = col /\ claims[i].point = point].value

\* The columns the unowned blocks name, in order.
NamedColumns(blocks) ==
  LET cols(terms) == FlattenSeq([j \in 1..Len(terms) |-> terms[j].cols])
      named(block) ==
        LET cs == cols(FlattenSeq(block.coords))
        IN  [i \in 1..Len(cs) |-> [col |-> cs[i], kappa |-> block.kappa]]
  IN  FlattenSeq([b \in 1..Len(blocks) |->
        IF blocks[b].owner # NoOwner THEN << >> ELSE named(blocks[b])])

\* Those that have no claim yet, once each.
FreshColumns(named, zeta, claims) ==
  LET first == {i \in 1..Len(named) :
                  /\ ~Known(claims, named[i].col, SubSeq(zeta, 1, named[i].kappa))
                  /\ \A j \in 1..i - 1 : named[j] # named[i]}
      order == SetToSortSeq(first, <)
  IN  [i \in 1..Len(order) |-> named[order[i]]]

\* The claims with one, of no value yet, for each fresh column.
WithFresh(blocks, zeta, claims) ==
  LET claim(c) == ColumnClaim(c.col, SubSeq(zeta, 1, c.kappa), EZero)
      added(fresh) == [i \in 1..Len(fresh) |-> claim(fresh[i])]
  IN  claims \o added(FreshColumns(NamedColumns(blocks), zeta, claims))

TermClaim(term, point, claims) ==
  LET virtual == CASE term.virtual = NoVirtual   -> EOne
                   [] term.virtual = <<"index">> -> IndexMle(point)
                   [] OTHER                      -> MleEval(term.virtual[2], point)
  IN  EMulBase(EMul(virtual, EProd(LAMBDA i : ClaimedValue(claims, term.cols[i], point), 1, Len(term.cols))),
               term.k)

\* As Framework, with the padding of the leaves left out.
FrameworkUnpadded(blocks, lay, zeta, w, beta, claims) ==
  LET weights == Table(Len(blocks), LAMBDA b : WindowWeight(blocks, lay, zeta, b))
      part(b) ==
        IF blocks[b].owner # NoOwner THEN EZero
        ELSE LET ws == Weighted(blocks[b].coords, w)
                 zetaLo == SubSeq(zeta, 1, blocks[b].kappa)
             IN  EMul(weights[b], EAdd(beta, ESum(LAMBDA i :
                   EMul(ws[i][1], TermClaim(ws[i][2], zetaLo, claims)), 1, Len(ws))))
  IN  ESum(part, 1, Len(blocks))

\* What the unowned blocks and the padding add to the side's leaf value.
Framework(blocks, lay, zeta, w, beta, claims) ==
  LET weights == Table(Len(blocks), LAMBDA b : WindowWeight(blocks, lay, zeta, b))
      part(b) ==
        IF blocks[b].owner # NoOwner THEN EZero
        ELSE LET ws == Weighted(blocks[b].coords, w)
                 zetaLo == SubSeq(zeta, 1, blocks[b].kappa)
             IN  EMul(weights[b], EAdd(beta, ESum(LAMBDA i :
                   EMul(ws[i][1], TermClaim(ws[i][2], zetaLo, claims)), 1, Len(ws))))
  IN  ESum3(ESum(part, 1, Len(blocks)), EOne, ESum(LAMBDA b : weights[b], 1, Len(blocks)))

-----------------------------------------------------------------------------
(* The three sides of layout l: push and pull under the fingerprint, the    *)
(* counts as they stand.                                                    *)

SideBlocks(l) == <<l.push, l.pull, l.count>>

\* The count side is padded to the height of the other two.
SideLayouts(l) ==
  LET push == BlockLayout(l.push)
  IN  <<push, BlockLayout(l.pull), [BlockLayout(l.count) EXCEPT !.mu = push.mu]>>

CountWeights == FingerprintWeights(<<EZero, EZero, EZero, EZero>>)

BusStart(t) ==
  LET c == Sampled(t, TupleBits + 1)
  IN  [t |-> AfterSamples(t, TupleBits + 1),
       alphas |-> SubSeq(c, 1, TupleBits), beta |-> c[TupleBits + 1]]

SideWeights(alphas) == LET w == FingerprintWeights(alphas) IN <<w, w, CountWeights>>
SideBetas(beta) == <<beta, beta, EZero>>

\* The prover's leaves, and the roots it sends.
BusLeaves(l, cols, bus) ==
  [s \in 1..3 |-> BuildLeaves(SideBlocks(l)[s], SideLayouts(l)[s], cols,
                              SideWeights(bus.alphas)[s], SideBetas(bus.beta)[s])] \o << >>

BusProve(t, l, cols) ==
  LET bus == BusStart(t)
  IN  [alphas |-> bus.alphas, beta |-> bus.beta, gkr |-> GkrStart(bus.t, BusLeaves(l, cols, bus))]

BusVerify(t, l) ==
  LET bus == BusStart(t)
  IN  [alphas |-> bus.alphas, beta |-> bus.beta, gkr |-> GkrVStart(bus.t, BlockLayout(l.push).mu)]

SideForms(l, bus, zeta) ==
  [s \in 1..3 |-> TableForms(SideBlocks(l)[s], SideLayouts(l)[s], zeta,
                             SideWeights(bus.alphas)[s], SideBetas(bus.beta)[s])] \o << >>

\* The three sides take up their fresh columns one after the other.
FreshOfSides(l, zeta) ==
  WithFresh(l.count, zeta, WithFresh(l.pull, zeta, WithFresh(l.push, zeta, << >>)))

ValuesOf(claims) == [i \in 1..Len(claims) |-> claims[i].value]

\* The prover sends the value of every fresh column, and keeps what each
\* table's form sums to on each side.
BusDecompose(bus, l, cols) ==
  LET zeta   == bus.gkr.point
      fresh  == FreshOfSides(l, zeta)
      claims == Table(Len(fresh), LAMBDA i :
                  [fresh[i] EXCEPT !.value = MleEval(cols[fresh[i].col], fresh[i].point)])
      forms  == SideForms(l, bus, zeta)
      eqs    == [t \in ToSet(TableNames) |-> EqTable(SubSeq(zeta, 1, l.taus[t]))]
  IN  [t |-> Send(bus.gkr.t, ValuesOf(claims)),
       claims |-> claims, point |-> zeta, forms |-> forms,
       sigmas |-> [s \in 1..3 |-> [t \in ToSet(TableNames) |-> FormSum(forms[s][t], eqs[t], cols)]]]

\* As BusDecomposeV, with a product of counts that is zero let through.
BusDecomposeAnyCount(bus, l) ==
  LET zeta   == bus.gkr.point
      fresh  == FreshOfSides(l, zeta)
      x      == Peek(bus.gkr.t, Len(fresh))
      claims == Table(Len(fresh), LAMBDA i : [fresh[i] EXCEPT !.value = x[i]])
  IN  [t |-> Receive(bus.gkr.t, Len(fresh)), claims |-> claims, point |-> zeta,
       forms |-> SideForms(l, bus, zeta),
       totals |-> Table(3, LAMBDA s :
         EAdd(bus.gkr.values[s],
              Framework(SideBlocks(l)[s], SideLayouts(l)[s], zeta, SideWeights(bus.alphas)[s],
                        SideBetas(bus.beta)[s], claims)))]

\* The verifier reads them, and what is left of each side's leaf value is for
\* the tables to account for.  A zero count makes the third root zero.
BusDecomposeV(bus, l) ==
  LET zeta   == bus.gkr.point
      fresh  == FreshOfSides(l, zeta)
      x      == Peek(bus.gkr.t, Len(fresh))
      claims == Table(Len(fresh), LAMBDA i : [fresh[i] EXCEPT !.value = x[i]])
      t      == Check(bus.gkr.t, bus.gkr.roots[3] # EZero, "zero count")
  IN  [t |-> Receive(t, Len(fresh)), claims |-> claims, point |-> zeta,
       forms |-> SideForms(l, bus, zeta),
       totals |-> Table(3, LAMBDA s :
         EAdd(bus.gkr.values[s],
              Framework(SideBlocks(l)[s], SideLayouts(l)[s], zeta, SideWeights(bus.alphas)[s],
                        SideBetas(bus.beta)[s], claims)))]

-----------------------------------------------------------------------------
(* The layout. *)

SharedColumns == <<"MEM_LO", "MEM_HI", "MEM_TOP", "MFCNT", "BFCNT", "QFLOCK">>
Shared(n) == <<"SHARED", n>>

\* The columns in the order of the schema.
AllColumns ==
  [i \in 1..Len(SharedColumns) |-> Shared(SharedColumns[i])] \o
  FlattenSeq([k \in 1..Len(TableNames) |->
    [i \in 1..Len(TableColumns[TableNames[k]]) |-> <<TableNames[k], TableColumns[TableNames[k]][i]>>]])

Virtual == -1

IsValueColumn(c) == c[1] = "BLAKE2S" /\ c[2] \in ToSet(BlakeValueColumns)

\* The log size of a column, Virtual for one that is not committed.
ColumnKappa(c, logMem, logBytecode, taus) ==
  CASE c[1] # "SHARED"  -> IF IsValueColumn(c) THEN Virtual ELSE taus[c[1]]
    [] c[2] = "BFCNT"   -> logBytecode
    [] c[2] = "QFLOCK"  -> taus["BLAKE2S"] + HashLog - LogPacking
    [] OTHER            -> logMem

\* Where the columns lie, and the log size and lanes of the whole.
Placements(logMem, logBytecode, taus) ==
  LET kappas == Table(Len(AllColumns), LAMBDA i : ColumnKappa(AllColumns[i], logMem, logBytecode, taus))
      s      == StackOffsets(kappas)
      logSize == Log2Ceil(s.placed)
      mu     == IF logSize < MinMu THEN MinMu ELSE logSize
  IN  [mu |-> mu, lanes |-> CeilDiv(s.placed, 2^(mu - LogBatch)),
       at |-> [c \in ToSet(AllColumns) |->
                 LET i == CHOOSE i \in 1..Len(AllColumns) : AllColumns[i] = c
                 IN  [vars |-> kappas[i], offset |-> s.offsets[i]]]]

\* The eight columns of the program that fill the slots of a fetch.
BytecodeRow(op) ==
  <<Opcode[op.op]>> \o
  CASE op.op \in {"XOR", "MUL"} -> <<GPow(op.a), GPow(op.b), GPow(op.c), 0, 0, 0, 0>>
    [] op.op = "SET"     -> <<GPow(op.o), op.k[1], op.k[2], op.k[3], 0, 0, 0>>
    [] op.op = "DEREF"   -> <<GPow(op.o1), GPow(op.o2), GPow(op.o3),
                              IF op.mode = "Pc" THEN 1 ELSE 0, IF op.mode = "Fp" THEN 1 ELSE 0, 0, 0>>
    [] op.op = "JUMP"    -> <<GPow(op.oc), GPow(op.od), GPow(op.of), 0, 0, 0, 0>>
    [] op.op = "BLAKE2S" -> <<GPow(op.ins[1]), GPow(op.ins[2]), GPow(op.ins[3]), GPow(op.ins[4]),
                              GPow(op.cv), GPow(op.out), GPow(op.md)>>

BytecodeColumns(prog) ==
  LET rows == Table(Len(prog), LAMBDA i : BytecodeRow(prog[i]))
  IN  Table(8, LAMBDA c : Table(Len(prog), LAMBDA i : rows[i][c]))

\* The state the run starts in is pushed and the one it ends in pulled; memory
\* and program are pushed at count 1 and pulled at their last count.
StateBlock(pc) == BlockOf(0, <<Const(SepState), Const(GPow(pc)), Const(1)>>, NoOwner)

MemoryBlock(logMem, count) ==
  BlockOf(logMem, <<Const(SepMem), Index, count, Col(Shared("MEM_LO")), Col(Shared("MEM_HI")),
                    Col(Shared("MEM_TOP"))>>, NoOwner)

BytecodeBlock(columns, logBytecode, count) ==
  BlockOf(logBytecode, <<Const(SepBytecode), Index, count>> \o [i \in 1..8 |-> Public(columns[i])], NoOwner)

TableBlocks(taus, side) ==
  LET blocks(t, flushes) == [i \in 1..Len(flushes) |-> BlockOf(taus[t], flushes[i][side], t)]
  IN  FlattenSeq([k \in 1..Len(TableNames) |-> blocks(TableNames[k], Flushes[TableNames[k]])])

LayoutOf(prog, logMem, taus, pi) ==
  LET columns     == BytecodeColumns(prog)
      logBytecode == Log2Ceil(Len(prog))
  IN  [push  |-> <<StateBlock(0), MemoryBlock(logMem, Const(1)),
                   BytecodeBlock(columns, logBytecode, Const(1))>> \o
                 TableBlocks(taus, "push"),
       pull  |-> <<StateBlock(Len(prog) - 1), MemoryBlock(logMem, Col(Shared("MFCNT"))),
                   BytecodeBlock(columns, logBytecode, Col(Shared("BFCNT")))>> \o
                 TableBlocks(taus, "pull"),
       count |-> FlattenSeq([k \in 1..Len(TableNames) |->
                   LET t == TableNames[k]
                   IN  [i \in 1..Len(CountColumns[t]) |->
                          BlockOf(taus[t], <<Col(<<t, CountColumns[t][i]>>)>>, t)]]),
       columns |-> columns, logMem |-> logMem, taus |-> taus, pi |-> pi,
       stack |-> Placements(logMem, logBytecode, taus)]

\* The columns of an execution: the tables', the memory and its counts, and
\* the packed hash witness.
Columns(prog, exec, qflock) ==
  LET shared(n) ==
        CASE n = "MEM_LO"  -> Table(Len(exec.mem), LAMBDA i : exec.mem[i][1])
          [] n = "MEM_HI"  -> Table(Len(exec.mem), LAMBDA i : exec.mem[i][2])
          [] n = "MEM_TOP" -> Table(Len(exec.mem), LAMBDA i : exec.mem[i][3])
          [] n = "MFCNT"   -> exec.memCount
          [] n = "BFCNT"   -> exec.pcCount
          [] n = "QFLOCK"  -> qflock
      memory == [a \in 0..Len(exec.mem) - 1 |-> exec.mem[a + 1]]
      table(t) == FillTable(t, exec.rows[t], prog, memory)
  IN  [c \in {Shared(n) : n \in ToSet(SharedColumns)} |-> shared(c[2])]
      @@ table("XOR") @@ table("MUL") @@ table("SET")
      @@ table("DEREF") @@ table("JUMP") @@ table("BLAKE2S")

\* The committed vector: each committed column in its window, zeros after.
Stack(place, cols) ==
  LET committed == {c \in DOMAIN place.at : place.at[c].vars # Virtual}
      holds(c, i) == i \in place.at[c].offset..place.at[c].offset + 2^place.at[c].vars - 1
  IN  Table(place.lanes * 2^(place.mu - LogBatch), LAMBDA i :
        IF \E c \in committed : holds(c, i - 1)
        THEN LET c == CHOOSE c \in committed : holds(c, i - 1)
             IN  cols[c][i - place.at[c].offset]
        ELSE 0)
=============================================================================
