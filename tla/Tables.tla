------------------------------- MODULE Tables -------------------------------
(***************************************************************************)
(* The six instruction tables (lean_vm/src/tables.rs): the columns of      *)
(* each, the bus messages of a row, the two constraints of JUMP, and how a *)
(* row is filled from the execution.                                       *)
(*                                                                         *)
(* A column is <<table, name>>.  A coordinate of a bus message is a        *)
(* polynomial in the columns of its row, the sequence of its terms: each a *)
(* product of at most two columns, a virtual factor and a coefficient of K.*)
(***************************************************************************)
EXTENDS Transcript
LOCAL INSTANCE SequencesExt

SepState    == GPow(0)
SepMem      == GPow(1)
SepBytecode == GPow(2)

Opcode == [XOR |-> GPow(0), MUL |-> GPow(1), SET |-> GPow(2),
           DEREF |-> GPow(3), JUMP |-> GPow(4), BLAKE2S |-> GPow(5)]

TableNames == <<"XOR", "MUL", "SET", "DEREF", "JUMP", "BLAKE2S">>

ArithColumns ==
  <<"PC", "FP", "OA", "OB", "OC", "VA_LO", "VA_HI", "VA_TOP", "VB_LO", "VB_HI", "VB_TOP",
    "RA", "RB", "RC", "RBC">>
SetColumns == <<"PC", "FP", "O", "K_LO", "K_HI", "K_TOP", "R", "RBC">>
DerefColumns ==
  <<"PC", "FP", "O1", "O2", "O3", "FPC", "FFP", "P", "V3_LO", "V3_HI", "V3_TOP",
    "R1", "R2", "R3", "RBC">>
JumpColumns ==
  <<"PC", "FP", "OC", "OD", "OF", "V_COND", "V_PC", "V_FP", "RC", "RD", "RF", "RBC", "W", "B">>

\* The cells of a BLAKE2S row: four of message, two of chaining value, two of
\* output and the metadata.  An operand names the first of a pair.
BlakeCells    == <<"M0", "M1", "M2", "M3", "OUT0", "OUT1", "CV0", "CV1", "MD">>
BlakeOperands == <<"O_M0", "O_M1", "O_M2", "O_M3", "O_CV", "O_OUT", "O_MD">>
BlakeLo == [c \in ToSet(BlakeCells) |-> "V_LO_" \o c]
BlakeHi == [c \in ToSet(BlakeCells) |-> "V_HI_" \o c]
BlakeReads == <<"R_M0", "R_M1", "R_M2", "R_M3", "R_CV0", "R_CV1", "R_OUT0", "R_OUT1", "R_MD">>

\* The columns that are not committed: the flock witness already holds them.
BlakeValueColumns ==
  [i \in 1..2 * Len(BlakeCells) |->
     LET c == BlakeCells[(i + 1) \div 2] IN IF i % 2 = 1 THEN BlakeLo[c] ELSE BlakeHi[c]]

Blake2sColumns == <<"PC", "FP">> \o BlakeOperands \o BlakeValueColumns \o BlakeReads \o <<"RBC">>

TableColumns ==
  [XOR |-> ArithColumns, MUL |-> ArithColumns, SET |-> SetColumns, DEREF |-> DerefColumns,
   JUMP |-> JumpColumns, BLAKE2S |-> Blake2sColumns]

\* The read counts, which have to be non-zero.
CountColumns ==
  [XOR |-> <<"RA", "RB", "RC", "RBC">>, MUL |-> <<"RA", "RB", "RC", "RBC">>,
   SET |-> <<"R", "RBC">>, DEREF |-> <<"R1", "R2", "R3", "RBC">>,
   JUMP |-> <<"RC", "RD", "RF", "RBC">>, BLAKE2S |-> BlakeReads \o <<"RBC">>]

-----------------------------------------------------------------------------
(* Coordinates: sequences of terms. *)

Term(cols, k, virtual) == [cols |-> cols, k |-> k, virtual |-> virtual]
NoVirtual == << >>

Zero             == << >>
Const(v)         == <<Term(<< >>, v, NoVirtual)>>
Col(c)           == <<Term(<<c>>, 1, NoVirtual)>>
GCol(c, p)       == <<Term(<<c>>, GPow(p), NoVirtual)>>
ProdOf(c, d, p)  == <<Term(<<c, d>>, GPow(p), NoVirtual)>>
Index            == <<Term(<< >>, 1, <<"index">>)>>
Public(vals)     == <<Term(<< >>, 1, <<"public", vals>>)>>

-----------------------------------------------------------------------------
(* Flushes: the message a row pushes and the one it pulls. *)

Flush(push, pull) == [push |-> push, pull |-> pull]

StateTo(t, npc, nfp) ==
  Flush(<<Const(SepState), npc, nfp>>,
        <<Const(SepState), Col(<<t, "PC">>), Col(<<t, "FP">>)>>)

StateStep(t) == StateTo(t, GCol(<<t, "PC">>, 1), Col(<<t, "FP">>))

\* A read: the same message under the next count and under this one.
Counted(t, head, count, rest) ==
  Flush(head \o <<GCol(<<t, count>>, 1)>> \o rest, head \o <<Col(<<t, count>>)>> \o rest)

Fetch(t, operands) ==
  Flush(<<Const(SepBytecode), Col(<<t, "PC">>), GCol(<<t, "RBC">>, 1), Const(Opcode[t])>> \o operands,
        <<Const(SepBytecode), Col(<<t, "PC">>), Col(<<t, "RBC">>), Const(Opcode[t])>> \o operands)

Memory(t, addr, count, vals) == Counted(t, <<Const(SepMem), addr>>, count, vals)

Operands(t, names) == [i \in 1..Len(names) |-> Col(<<t, names[i]>>)]

FpPlus(t, operand) == ProdOf(<<t, "FP">>, <<t, operand>>, 0)

\* Lane i of the product of two elements of E, as products of limbs.
TowerLanes == << <<<<1, 1>>, <<2, 3>>, <<3, 2>>>>,
                 <<<<1, 2>>, <<2, 1>>, <<2, 3>>, <<3, 2>>, <<3, 3>>>>,
                 <<<<1, 3>>, <<2, 2>>, <<3, 1>>, <<3, 3>>>> >>
ValueA == <<"VA_LO", "VA_HI", "VA_TOP">>
ValueB == <<"VB_LO", "VB_HI", "VB_TOP">>

\* What XOR and MUL store is no column: it is derived from the two operands.
ArithResult(t) ==
  [i \in 1..3 |->
     IF t = "XOR" THEN Col(<<t, ValueA[i]>>) \o Col(<<t, ValueB[i]>>)
     ELSE FlattenSeq([j \in 1..Len(TowerLanes[i]) |->
            ProdOf(<<t, ValueA[TowerLanes[i][j][1]]>>, <<t, ValueB[TowerLanes[i][j][2]]>>, 0)])]

\* What DEREF stores: the cell, g^(pc+2), or fp, by its two flags.
DerefStore ==
  LET d(n) == <<"DEREF", n>>
      gated(v) == Col(d(v)) \o ProdOf(d("FPC"), d(v), 0) \o ProdOf(d("FFP"), d(v), 0)
  IN  <<gated("V3_LO") \o ProdOf(d("FPC"), d("PC"), 2) \o ProdOf(d("FFP"), d("FP"), 0),
        gated("V3_HI"), gated("V3_TOP")>>

ArithFlushes(t) ==
  <<StateStep(t), Fetch(t, Operands(t, <<"OA", "OB", "OC">>)),
    Memory(t, FpPlus(t, "OA"), "RA", Operands(t, ValueA)),
    Memory(t, FpPlus(t, "OB"), "RB", Operands(t, ValueB)),
    Memory(t, FpPlus(t, "OC"), "RC", ArithResult(t))>>

SetFlushes ==
  LET t == "SET"
  IN  <<StateStep(t), Fetch(t, Operands(t, <<"O", "K_LO", "K_HI", "K_TOP">>)),
        Memory(t, FpPlus(t, "O"), "R", Operands(t, <<"K_LO", "K_HI", "K_TOP">>))>>

DerefFlushes ==
  LET t == "DEREF"
  IN  <<StateStep(t), Fetch(t, Operands(t, <<"O1", "O2", "O3", "FPC", "FFP">>)),
        Memory(t, FpPlus(t, "O1"), "R1", <<Col(<<t, "P">>), Zero, Zero>>),
        Memory(t, ProdOf(<<t, "P">>, <<t, "O2">>, 0), "R2", DerefStore),
        Memory(t, FpPlus(t, "O3"), "R3", Operands(t, <<"V3_LO", "V3_HI", "V3_TOP">>))>>

JumpFlushes ==
  LET t == "JUMP"
      j(n) == <<t, n>>
      word(operand, count, v) == Memory(t, FpPlus(t, operand), count, <<Col(j(v)), Zero, Zero>>)
  IN  <<StateTo(t, ProdOf(j("B"), j("V_PC"), 0) \o ProdOf(j("B"), j("PC"), 1) \o GCol(j("PC"), 1),
                   ProdOf(j("B"), j("V_FP"), 0) \o ProdOf(j("B"), j("FP"), 0) \o Col(j("FP"))),
        Fetch(t, Operands(t, <<"OC", "OD", "OF">>)),
        word("OC", "RC", "V_COND"), word("OD", "RD", "V_PC"), word("OF", "RF", "V_FP")>>

Blake2sFlushes ==
  LET t == "BLAKE2S"
      pair(operand, p, cell) ==
        Memory(t, ProdOf(<<t, "FP">>, <<t, operand>>, p), "R_" \o cell,
               <<Col(<<t, BlakeLo[cell]>>), Col(<<t, BlakeHi[cell]>>), Zero>>)
  IN  <<StateStep(t), Fetch(t, Operands(t, BlakeOperands)),
        pair("O_M0", 0, "M0"), pair("O_M1", 0, "M1"), pair("O_M2", 0, "M2"), pair("O_M3", 0, "M3"),
        pair("O_CV", 0, "CV0"), pair("O_CV", 1, "CV1"),
        pair("O_OUT", 0, "OUT0"), pair("O_OUT", 1, "OUT1"), pair("O_MD", 0, "MD")>>

Flushes ==
  [XOR |-> ArithFlushes("XOR"), MUL |-> ArithFlushes("MUL"), SET |-> SetFlushes,
   DEREF |-> DerefFlushes, JUMP |-> JumpFlushes, BLAKE2S |-> Blake2sFlushes]

-----------------------------------------------------------------------------
(* Constraints.  row is a function from the names of the columns to E. *)

NConstraints == [XOR |-> 0, MUL |-> 0, SET |-> 0, DEREF |-> 0, JUMP |-> 2, BLAKE2S |-> 0]

\* b is whether the condition is non-zero, and w inverts it then:
\* b + cond w = 0 and cond (b + 1) = 0; or the quadratic part of the two.
JumpIdentity(pows, row, quadratic) ==
  LET b  == IF quadratic THEN EZero ELSE row["B"]
      b1 == IF quadratic THEN row["B"] ELSE EAdd(row["B"], EOne)
  IN  EAdd(EMul(pows[1], EAdd(b, EMul(row["V_COND"], row["W"]))),
           EMul(pows[2], EMul(row["V_COND"], b1)))

ConstraintAt(t, pows, row, quadratic) ==
  IF t = "JUMP" THEN JumpIdentity(pows, row, quadratic) ELSE EZero

-----------------------------------------------------------------------------
(* Filling.  An executed row holds pc, fp and the counts it read, in the    *)
(* order of CountColumns; everything else follows from the program and the  *)
(* final memory, a function from addresses to E.                            *)

RowOperands(t, op) ==
  CASE t \in {"XOR", "MUL"} -> [OA |-> op.a, OB |-> op.b, OC |-> op.c]
    [] t = "SET"     -> [O |-> op.o]
    [] t = "DEREF"   -> [O1 |-> op.o1, O2 |-> op.o2, O3 |-> op.o3]
    [] t = "JUMP"    -> [OC |-> op.oc, OD |-> op.od, OF |-> op.of]
    [] t = "BLAKE2S" -> [O_M0 |-> op.ins[1], O_M1 |-> op.ins[2], O_M2 |-> op.ins[3],
                         O_M3 |-> op.ins[4], O_CV |-> op.cv, O_OUT |-> op.out, O_MD |-> op.md]

Limbs(names, word) == [n \in ToSet(names) |-> word[CHOOSE i \in 1..Len(names) : names[i] = n]]

\* The addresses of the cells, relative to fp.
BlakeAddress(op) ==
  [M0 |-> op.ins[1], M1 |-> op.ins[2], M2 |-> op.ins[3], M3 |-> op.ins[4],
   CV0 |-> op.cv, CV1 |-> op.cv + 1, OUT0 |-> op.out, OUT1 |-> op.out + 1, MD |-> op.md]

RowValues(t, r, op, mem) ==
  LET cell(o) == mem[r.fp + o]
  IN  CASE t \in {"XOR", "MUL"} -> Limbs(ValueA, cell(op.a)) @@ Limbs(ValueB, cell(op.b))
        [] t = "SET"   -> Limbs(<<"K_LO", "K_HI", "K_TOP">>, op.k)
        [] t = "DEREF" -> Limbs(<<"V3_LO", "V3_HI", "V3_TOP">>, cell(op.o3))
                          @@ [P   |-> cell(op.o1)[1],
                              FPC |-> IF op.mode = "Pc" THEN 1 ELSE 0,
                              FFP |-> IF op.mode = "Fp" THEN 1 ELSE 0]
        [] t = "JUMP"  -> LET cond == cell(op.oc)
                          IN  [V_COND |-> cond[1], V_PC |-> cell(op.od)[1], V_FP |-> cell(op.of)[1],
                               W |-> IF cond = EZero THEN 0 ELSE EInv(cond)[1],
                               B |-> IF cond = EZero THEN 0 ELSE 1]
        [] t = "BLAKE2S" ->
             LET a == BlakeAddress(op)
             IN  [n \in {BlakeLo[c] : c \in DOMAIN a} |->
                    cell(a[CHOOSE c \in DOMAIN a : BlakeLo[c] = n])[1]]
                 @@ [n \in {BlakeHi[c] : c \in DOMAIN a} |->
                    cell(a[CHOOSE c \in DOMAIN a : BlakeHi[c] = n])[2]]

FillRow(t, r, op, mem) ==
  LET operands == RowOperands(t, op)
  IN  [PC |-> GPow(r.pc), FP |-> GPow(r.fp)]
      @@ [n \in DOMAIN operands |-> GPow(operands[n])]
      @@ RowValues(t, r, op, mem)
      @@ [n \in ToSet(CountColumns[t]) |->
            r.counts[CHOOSE i \in 1..Len(CountColumns[t]) : CountColumns[t][i] = n]]

\* The columns of a table whose executed rows are these.
FillTable(t, rows, prog, mem) ==
  LET filled == Table(Len(rows), LAMBDA i : FillRow(t, rows[i], prog[rows[i].pc + 1], mem))
  IN  [c \in {<<t, n>> : n \in ToSet(TableColumns[t])} |->
         Table(Len(rows), LAMBDA i : filled[i][c[2]])]
=============================================================================
