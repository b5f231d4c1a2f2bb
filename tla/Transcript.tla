----------------------------- MODULE Transcript -----------------------------
(***************************************************************************)
(* The Fiat-Shamir transport (fiat_shamir/src/transcript.rs).  A prover    *)
(* state binds every scalar it sends; a verifier state reads the proof in  *)
(* the same order and binds what it reads; challenges come from the        *)
(* binding state alone.  A verifier state carries the first error it met,  *)
(* which ends the verification: what is read after it is never used.       *)
(*                                                                         *)
(* Merkle openings are pulled by phase.  A phase holds the rows opened and *)
(* the committed matrix they were cut from, which stands for the pruned    *)
(* paths: module Merkle shows that an opening is accepted only of the rows *)
(* the root commits to.                                                    *)
(***************************************************************************)
EXTENDS Multilinear

\* The hash, a stand-in for BLAKE2s on a state of one number: it is only
\* required to be a function that mixes.
HashPrime == 32749
Compress(cv, block) ==
  LET t == (5 * cv + 7 * block + 11) % HashPrime
  IN  (t * t + 3 * t + cv) % HashPrime

\* A block is one element of E under a domain separator.
Observe == 1
Squeeze == 2
PowBase == 3
PowNonce == 4
Block(x, sep) == sep * 2^(3 * KBits) + x[1] + x[2] * 2^KBits + x[3] * 2^(2 * KBits)

Bind(cv, x) == Compress(cv, Block(x, Observe))

BindAll(cv, xs) ==
  LET b[i \in 0..Len(xs)] == IF i = 0 THEN cv ELSE Bind(b[i - 1], xs[i])
  IN  b[Len(xs)]

Squeezed(cv, n) ==
  LET s[i \in 0..n] == IF i = 0 THEN cv ELSE Compress(s[i - 1], Block(EZero, Squeeze))
  IN  s[n]

Digits(h) == << h % 2^KBits, (h \div 2^KBits) % 2^KBits, (h \div 2^(2 * KBits)) % 2^KBits >>

\* The next n challenges; either side draws them from its own state.
Sampled(t, n) == [i \in 1..n |-> Digits(Squeezed(t.cv, i))] \o << >>
Sample(t)     == Digits(Squeezed(t.cv, 1))
AfterSamples(t, n) == [t EXCEPT !.cv = Squeezed(t.cv, n)]

FsNew(iv, publicInput) == BindAll(iv, publicInput)

NewProver(cv) == [cv |-> cv, stream |-> << >>, merkle |-> << >>]

Send(t, xs) == [t EXCEPT !.cv = BindAll(t.cv, xs), !.stream = @ \o xs]

\* A round polynomial goes without the coefficient the claim fixes: c1 of a
\* plain round, c0 of one whose eq weight was factored out.
SendRoundPoly(t, coeffs, eq) ==
  Send(t, IF eq THEN Tail(coeffs) ELSE <<coeffs[1]>> \o SubSeq(coeffs, 3, Len(coeffs)))

\* A hash travels as two scalars without a top limb.
RootScalars(h) ==
  LET d(i) == (h \div 2^(KBits * i)) % 2^KBits IN << <<d(0), d(1), 0>>, <<d(2), d(3), 0>> >>
SendRoot(t, h) == Send(t, RootScalars(h))

\* The root of a matrix: its rows hashed, then pairs of hashes.
RECURSIVE TreeHash(_, _, _)
TreeHash(leaves, lo, hi) ==
  IF lo = hi THEN leaves[lo]
  ELSE LET mid == (lo + hi) \div 2
       IN  Compress(TreeHash(leaves, lo, mid), TreeHash(leaves, mid + 1, hi))

RootOf(matrix) ==
  LET row(p) == TreeHash(Table(Len(matrix[p]), LAMBDA j : Block(matrix[p][j], 0)), 1, Len(matrix[p]))
  IN  TreeHash(Table(Len(matrix), row), 1, Len(matrix))

HintMerkle(t, phase) == [t EXCEPT !.merkle = Append(@, phase)]

PowOk(cv, nonce, bits) ==
  Compress(Compress(cv, Block(EZero, PowBase)), Block(nonce, PowNonce)) % 2^bits = 0

\* The nonces the search goes through; the program's are all of u64.
Nonces == 0..2^KBits - 1

\* The nonce is pushed raw: the proof-of-work absorb is what binds it.
Grind(t, bits) ==
  LET nonce == IF bits = 0 THEN EZero
               ELSE Lift(CHOOSE n \in Nonces :
                           /\ PowOk(t.cv, Lift(n), bits)
                           /\ \A m \in 0..n - 1 : ~PowOk(t.cv, Lift(m), bits))
  IN  [t EXCEPT !.cv = Compress(t.cv, Block(nonce, PowNonce)), !.stream = Append(@, nonce)]

-----------------------------------------------------------------------------
NewVerifier(cv, proof) ==
  [cv |-> cv, stream |-> proof.stream, offset |-> 0,
   merkle |-> proof.merkle, phase |-> 0, err |-> "none"]

Fail(t, why) == IF t.err = "none" THEN [t EXCEPT !.err = why] ELSE t

\* Reject unless ok.
Check(t, ok, why) == IF ok THEN t ELSE Fail(t, why)

\* The n scalars at the cursor, zeros where the stream has ended.
Peek(t, n) == [i \in 1..n |-> IF t.offset + i <= Len(t.stream) THEN t.stream[t.offset + i]
                              ELSE EZero] \o << >>

Take(t, n) ==
  IF t.offset + n <= Len(t.stream) THEN [t EXCEPT !.offset = @ + n]
  ELSE [Fail(t, "exceeded stream") EXCEPT !.offset = Len(t.stream)]

\* Read and bind n scalars (which Peek names).
Receive(t, n) == [Take(t, n) EXCEPT !.cv = BindAll(t.cv, Peek(t, n))]

PeekRoot(t) ==
  LET x == Peek(t, 2)
      d(i) == x[(i \div 2) + 1][(i % 2) + 1]
  IN  d(0) + 2^KBits * (d(1) + 2^KBits * (d(2) + 2^KBits * d(3)))

ReceiveRoot(t) ==
  Check(Receive(t, 2), \A i \in 1..2 : Peek(t, 2)[i][3] = 0, "non-canonical root")

\* The n coefficients of the round polynomial at the cursor: the one that
\* does not travel follows from the claim.
PeekRoundPoly(t, n, claim) ==
  LET x == Peek(t, n - 1)
  IN  <<x[1], EAdd(claim, ESum(LAMBDA i : x[i], 2, n - 1))>> \o Tail(x)

PeekEqRoundPoly(t, n, claim, r) ==
  LET x == Peek(t, n - 1)
  IN  <<EAdd(claim, EMul(r, ESum(LAMBDA i : x[i], 1, n - 1)))>> \o x

\* As ReceiveRoundPoly, with the coefficients read and not bound.
ReceiveRoundPolyUnbound(t, n) == Take(t, n - 1)

ReceiveRoundPoly(t, n) == Receive(t, n - 1)

\* A wrong nonce is bound all the same; the rejection is the call site's.
GrindCheck(t, bits) ==
  LET nonce == Peek(t, 1)[1]
      ok    == IF bits = 0 THEN nonce = EZero ELSE PowOk(t.cv, nonce, bits)
  IN  Check([Take(t, 1) EXCEPT !.cv = Compress(t.cv, Block(nonce, PowNonce))], ok, "pow")

\* The rows of the next phase, in the order of the queries.
PeekMerkle(t) == t.merkle[t.phase + 1].rows

\* The next phase opens these rows of the matrix of that root.
NextMerkleBatch(t, root, queries, width, numLeaves) ==
  IF t.phase = Len(t.merkle) THEN Fail(t, "missing hint")
  ELSE LET p == t.merkle[t.phase + 1]
       IN  Check([t EXCEPT !.phase = @ + 1],
                 /\ Len(p.matrix) = numLeaves /\ \A i \in 1..numLeaves : Len(p.matrix[i]) = width
                 /\ RootOf(p.matrix) = root
                 /\ p.rows = [i \in 1..Len(queries) |-> p.matrix[queries[i] + 1]],
                 "merkle")

Finish(t) ==
  Check(t, t.offset = Len(t.stream) /\ t.phase = Len(t.merkle), "not fully consumed")
=============================================================================
