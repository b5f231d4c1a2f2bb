------------------------------- MODULE Field -------------------------------
(***************************************************************************)
(* The two fields of the proof system (crates/primitives/src/field).  K is *)
(* F64, the polynomials over GF(2) of degree below KBits modulo            *)
(* x^KBits + KTail, an element being the number whose bits are its         *)
(* coefficients; the program has KBits = 64 and KTail = 0x1B.  E is F192,  *)
(* K[y] / (y^3 + y + 1), an element being the triple of its K limbs.       *)
(*                                                                         *)
(* y^3 + y + 1 is irreducible over K, and the Frobenius formula of EInv is *)
(* right, when KBits % 3 = 1, which 64 and the 4 of the runs both satisfy. *)
(***************************************************************************)
EXTENDS Naturals, Sequences

CONSTANTS KBits,    \* bits of an element of K
          KTail,    \* what x^KBits reduces to
          KSums,    \* the tables of K, which a model gives as constants
          KProducts, GPows

ASSUME FieldAssumption == /\ KBits \in 1..7
                          /\ KBits % 3 = 1
                          /\ KTail \in 1..2^KBits - 1

K == 0..2^KBits - 1

\* Bit i of the number n.
BitOf(n, i) == (n \div 2^i) % 2

RECURSIVE Xor(_, _)
Xor(a, b) ==
  IF a = 0 /\ b = 0 THEN 0 ELSE ((a + b) % 2) + 2 * Xor(a \div 2, b \div 2)

KXor == [a \in K |-> [b \in K |-> Xor(a, b)]]

\* Times g, which is x: a shift, and the tail when a bit falls off.
KTimesG(a) == IF 2 * a < 2^KBits THEN 2 * a ELSE Xor(2 * a - 2^KBits, KTail)

\* Horner over the bits of a.
RECURSIVE ShiftAdd(_, _)
ShiftAdd(a, b) ==
  IF a = 0 THEN 0 ELSE Xor(KTimesG(ShiftAdd(a \div 2, b)), (a % 2) * b)

KProduct == [a \in K |-> [b \in K |-> ShiftAdd(a, b)]]

\* The powers of g: gp[i] is g^(i-1), as g_powers tabulates them.
RECURSIVE GPowers(_)
GPowers(n) ==
  IF n = 1 THEN <<1>> ELSE LET gp == GPowers(n - 1) IN Append(gp, KTimesG(gp[n - 1]))

FirstPowers == GPowers(2^KBits + 1)
GPowTable == [i \in 0..2^KBits |-> FirstPowers[i + 1]]

ASSUME TablesAssumption == KSums = KXor /\ KProducts = KProduct /\ GPows = GPowTable

\* (named again because TLC evaluates a definition once, a constant it is given
\* an operator for at every use)
SumsOfK     == KSums
ProductsOfK == KProducts
PowersOfG   == GPows

KAdd(a, b) == SumsOfK[a][b]
KMul(a, b) == ProductsOfK[a][b]
GPow(i)    == PowersOfG[i]

KInverse == [a \in K \ {0} |-> CHOOSE b \in K : KMul(a, b) = 1]

-----------------------------------------------------------------------------
EZero == <<0, 0, 0>>
EOne  == <<1, 0, 0>>
EY    == <<0, 1, 0>>

Lift(k) == <<k, 0, 0>>

EAdd(a, b) == <<KAdd(a[1], b[1]), KAdd(a[2], b[2]), KAdd(a[3], b[3])>>

\* Schoolbook, then y^3 = y + 1 and y^4 = y^2 + y fold the two highest away.
Folded(c) == <<KAdd(c[1], c[4]), KAdd(KAdd(c[2], c[4]), c[5]), KAdd(c[3], c[5])>>

EMul(a, b) ==
  Folded(<<KMul(a[1], b[1]),
           KAdd(KMul(a[1], b[2]), KMul(a[2], b[1])),
           KAdd(KAdd(KMul(a[1], b[3]), KMul(a[2], b[2])), KMul(a[3], b[1])),
           KAdd(KMul(a[2], b[3]), KMul(a[3], b[2])),
           KMul(a[3], b[3])>>)

EMulBase(a, k) == <<KMul(a[1], k), KMul(a[2], k), KMul(a[3], k)>>

\* x to the power |K|: y goes to y^2.
Frobenius(a) == <<a[1], a[3], KAdd(a[2], a[3])>>

\* The norm x * F(x) * F(F(x)) lies in K, so one inverse of K is enough.
EInv(a) ==
  LET m    == EMul(Frobenius(a), Frobenius(Frobenius(a)))
      norm == EMul(a, m)
  IN  EMulBase(m, KInverse[norm[1]])

ESum3(a, b, c) == EAdd(a, EAdd(b, c))

\* The sum of f(i) over lo..hi, halved so that an evaluation is shallow.
RECURSIVE ESum(_, _, _)
ESum(f(_), lo, hi) ==
  IF lo > hi THEN EZero
  ELSE IF lo = hi THEN f(lo)
  ELSE LET mid == (lo + hi) \div 2
       IN  EAdd(ESum(f, lo, mid), ESum(f, mid + 1, hi))

RECURSIVE EProd(_, _, _)
EProd(f(_), lo, hi) ==
  IF lo > hi THEN EOne
  ELSE IF lo = hi THEN f(lo)
  ELSE LET mid == (lo + hi) \div 2
       IN  EMul(EProd(f, lo, mid), EProd(f, mid + 1, hi))

\* x^0 .. x^(n-1).
EPowers(x, n) ==
  LET p[i \in 1..n] == IF i = 1 THEN EOne ELSE EMul(p[i - 1], x)
  IN  [i \in 1..n |-> p[i]] \o << >>

\* (the empty tail makes TLC evaluate a sequence once and for all)
=============================================================================
