----------------------------- MODULE MCProving -----------------------------
(***************************************************************************)
(* A small instance of Proving for TLC: a field of 2^12 elements, short    *)
(* words, three programs, and what a prover may try instead.               *)
(***************************************************************************)
EXTENDS Proving

Rotations4 == <<2, 1, 1, 3>>
Sigma1 == <<<<3, 8, 1, 6, 5, 2, 7, 4>>>>
IV4 == <<6, 11, 3, 10>>
ParamIV4 == <<7, 11, 3, 10>>
Pinned2 == <<4, 15>>
Fixed2 == <<<<2, 0, 0>>, <<4, 0, 0>>>>
Ks == <<1, 1>>
Rates == <<1, 2, 3>>
Oods == <<0, 1, 1>>
Queries3 == <<3, 2, 2>>
Grinding3 == <<1, 0, 2>>
Shifts2 == <<2, 1>>

Ar(op, a, b, c) == [op |-> op, a |-> a, b |-> b, c |-> c]
St(o, k) == [op |-> "SET", o |-> o, k |-> k]
Df(o1, o2, o3, mode) == [op |-> "DEREF", o1 |-> o1, o2 |-> o2, o3 |-> o3, mode |-> mode]
Jp(oc, od, of) == [op |-> "JUMP", oc |-> oc, od |-> od, of |-> of]
Bl(ins, cv, out, md) == [op |-> "BLAKE2S", ins |-> ins, cv |-> cv, out |-> out, md |-> md]
Last == Ar("XOR", 0, 0, 0)

ProgramA ==
  <<Ar("XOR", 0, 1, 7), Ar("MUL", 0, 1, 1), St(4, <<5, 3, 0>>), Bl(<<0, 1, 4, 1>>, 0, 2, 4),
    Bl(<<2, 3, 0, 1>>, 2, 5, 4), Df(0, 7, 3, "Pc"), Jp(0, 7, 0), Last>>
InputA == <<<<1, 0, 0>>, <<KXor[GPow(7)][1], 0, 0>>>>
ProgramD ==
  <<Ar("XOR", 0, 1, 2), Df(0, 3, 3, "Cell"), Ar("MUL", 0, 1, 4), Jp(0, 1, 0), St(0, <<2, 0, 0>>),
    Bl(<<2, 3, 4, 5>>, 0, 6, 5), Bl(<<2, 3, 4, 5>>, 0, 6, 5), Last>>
InputD == <<<<2, 0, 0>>, <<1, 0, 0>>>>

\* Tables of three heights.
ProgramE ==
  LET xor == Ar("XOR", 0, 1, 2)
      mul == Ar("MUL", 0, 1, 4)
  IN  <<xor, xor, Df(0, 3, 3, "Cell"), Jp(0, 2, 1), mul, mul, mul, mul, xor, xor,
        Df(0, 3, 3, "Cell"), St(0, <<2, 0, 0>>), St(4, <<2, 0, 0>>),
        Bl(<<2, 3, 4, 4>>, 0, 6, 4), Bl(<<2, 3, 4, 4>>, 0, 6, 4), Last>>

\* What a prover may try instead, for each a change that only one of the
\* checks notices: a jump not taken, a read under the count zero, a hash that
\* is not the hash, a carry of the hash, a program that is not the one
\* announced, one final count.
Set(t, c, row, to) == [col |-> <<t, c>>, row |-> row, to |-> to]
NotTaken  == {Set("JUMP", "B", 1, 0), Set("JUMP", "W", 1, 0)}
ZeroCount == {Set("JUMP", "RC", 1, 0), Set("JUMP", "RF", 1, 12), Set("SHARED", "MFCNT", 1, 11),
              Set("JUMP", "V_COND", 1, 5), Set("JUMP", "W", 1, 11)}
OutWord   == 2^(HashLog - LogPacking) + OutBase \div KBits + 1
NotTheHash == {Set("BLAKE2S", "V_LO_OUT0", 2, 3), Set("SHARED", "MEM_LO", 6, 3),
               Set("SHARED", "QFLOCK", OutWord, 3)}
Carry     == {Set("SHARED", "QFLOCK", GsBase \div KBits + 2, 9)}
LastCount == {Set("SHARED", "MFCNT", 3, 1)}

Lie(prog, pi, changed) == [prog |-> prog, pi |-> pi, changed |-> changed]

JobA == [prog |-> ProgramA, pi |-> InputA, seed |-> 5, sampling |-> 2,
         lies |-> {Lie(ProgramA, InputA, c) : c \in {NotTaken, ZeroCount, NotTheHash, Carry}}
                  \cup {Lie([ProgramA EXCEPT ![3].k = <<6, 3, 0>>], InputA, {})}]
JobD == [prog |-> ProgramD, pi |-> InputD, seed |-> 6, sampling |-> 1,
         lies |-> {Lie(ProgramD, InputD, LastCount)}]
\* Announced with an input it was not run on.
JobC == [prog |-> ProgramA, pi |-> <<InputA[1], EZero>>, seed |-> 7, sampling |-> 2,
         lies |-> {Lie(ProgramA, InputA, {})}]
JobE == [prog |-> ProgramE, pi |-> InputD, seed |-> 8, sampling |-> 4, lies |-> {}]
MCJobs == {JobA, JobC, JobD, JobE}
=============================================================================
