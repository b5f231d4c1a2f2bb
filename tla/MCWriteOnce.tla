---------------------------- MODULE MCWriteOnce -----------------------------
(***************************************************************************)
(* Small instances, for TLC, of the memory (WriteOnce) and of the index of *)
(* its addresses (GPow), a behaviour being of one of them.                 *)
(*                                                                         *)
(* K is GF(4), of which the machine word is a quadratic extension,         *)
(* GF(16) = K[w] / (w^2 + w + g); a word is <<c0, c1>>, and g^j addresses  *)
(* the cell j.                                                             *)
(***************************************************************************)
EXTENDS WriteOnce, GPow

VARIABLE scene
mcvars == <<vars, gpowVars, scene>>

\* GF(4) = {0, 1, 2, 3} with g = 2 and g^2 = g + 1 = 3.
KAdd(x, y) == (((x % 2) + (y % 2)) % 2) + 2 * (((x \div 2) + (y \div 2)) % 2)
KLog == <<0, 1, 2>>
KExp(j) == <<1, 2, 3>>[(j % 3) + 1]
KMul(x, y) == IF x = 0 \/ y = 0 THEN 0 ELSE KExp(KLog[x] + KLog[y])

GFWords == (0 .. 3) \X (0 .. 3)
GFZero == <<0, 0>>
GFOne == <<1, 0>>
GFAdd(x, y) == <<KAdd(x[1], y[1]), KAdd(x[2], y[2])>>
GFMul(x, y) ==
    LET high == KMul(x[2], y[2])
    IN  <<KAdd(KMul(x[1], y[1]), KMul(2, high)),
          KAdd(high, KAdd(KMul(x[1], y[2]), KMul(x[2], y[1])))>>
GFInv(x) == IF x = GFZero THEN GFZero ELSE CHOOSE y \in GFWords : GFMul(x, y) = GFOne
GFInK(x) == x[2] = 0
GFPower(j) == <<KExp(j), 0>>

None == -1
CellAt(x, o) ==
    IF x[2] # 0 \/ x[1] = 0 \/ KLog[x[1]] + o \notin Cells THEN None
    ELSE KLog[x[1]] + o

\* Any function of the inputs will do.
Mix(x, y, z) == <<GFAdd(x, GFOne), GFMul(y, z)>>

ASSUME FieldIsField ==
    /\ \A x \in GFWords \ {GFZero} : GFMul(x, GFInv(x)) = GFOne
    /\ \A x, y, z \in GFWords :
        GFMul(x, GFAdd(y, z)) = GFAdd(GFMul(x, y), GFMul(x, z))

SomePointers == {GFPower(1)}
SomeWords == {GFZero, <<2, 1>>}
SomeInputs == {<<GFOne, GFPower(2)>>, <<GFPower(2), <<1, 3>>>>}

\* Five cells, two of them public inputs: operands that are repeated, inputs that are
\* read, destinations read before they are written, and links in chains.
FiveCells == 0 .. 4
SomeTriples == {0, 2, 3} \X {1, 2, 3} \X {2, 3, 4}
SomeDerefs == {0, 2, 3} \X {0, 2} \X {2, 3, 4}
HashCells == [ins : {<<0, 3, 3>>, <<2, 3, 0>>}, out : {<<2, 3>>, <<1, 2>>}]

\* Words that all meet, that wrap at the end of every index, that spread, that meet
\* in pairs, and that follow each other.
FewMixes ==
    {[x \in 0 .. 8 |-> 3], [x \in 0 .. 8 |-> 15], [x \in 0 .. 8 |-> 5 * x], [x \in 0 .. 8 |-> x \div 2],
     [x \in 0 .. 8 |-> IF x % 2 = 0 THEN 15 - x ELSE x]}

MCInit ==
    /\ scene \in {"memory", "index"}
    /\ Init /\ GPowInit
    /\ IF scene = "memory" THEN mix = CHOOSE m \in Mixes : TRUE
       ELSE mem = LET pi == CHOOSE pi \in Inputs : TRUE IN Put(Put(Empty, 0, pi[1]), 1, pi[2])

MCNext ==
    /\ \/ scene = "memory" /\ Next /\ UNCHANGED gpowVars
       \/ scene = "index" /\ GPowNext /\ UNCHANGED vars
    /\ UNCHANGED scene

MCSpec == MCInit /\ [][MCNext]_mcvars
=============================================================================
