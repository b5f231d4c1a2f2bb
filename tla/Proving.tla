------------------------------ MODULE Proving ------------------------------
(***************************************************************************)
(* The whole protocol (lean_vm/src/cpu/mod.rs: prove and verify): a prover *)
(* runs a program, commits to the execution and argues that it is one; a   *)
(* verifier reads the proof.  A step of either is one message.  Between    *)
(* the two the proof may have been changed, and the prover may have        *)
(* changed a value of its execution before it committed to it: it then     *)
(* follows the protocol all the same.                                      *)
(***************************************************************************)
EXTENDS Constraints, HashArgument, Whir, TLC
LOCAL INSTANCE SequencesExt
LOCAL INSTANCE FiniteSetsExt

CONSTANTS Jobs,        \* what is proved: program, public input, seed, lies, sampling of the changes
          LogInvRate,  \* of the first commitment
          MaxMu, MinLogMem, MaxLogMem, MaxLogRows

VARIABLES job,       \* what is proved, and what the prover changed
          stage,     \* where the protocol is
          exec,      \* the execution
          witness,   \* the columns, the bits of the hash and the layout
          p,         \* the prover: what its steps left, the transcript in t
          change,    \* what happened to the proof
          v,         \* the verifier, likewise
          trail      \* the binding states the prover went through, by scalars sent

vars == <<job, stage, exec, witness, p, change, v, trail>>

Compression4(a, b, cv, md) == CompressK(cv, a \o b, md)

M == INSTANCE Machine WITH Cells <- 2^MaxLogMem, Compression <- Compression4

\* A lie is what was run instead, and the values of columns that were changed.
NoLie(j) == [prog |-> j.prog, pi |-> j.pi, changed |-> {}]
Honest   == job.lie = NoLie(job)
NotChanged == << >>

VerifierStages == {"v bus", "v tables", "v input", "v zerocheck", "v lincheck", "v open", "v low degree",
                   "accepted"}

-----------------------------------------------------------------------------
(* What both sides compute. *)

QFlock == Shared("QFLOCK")

\* A side, one step further in a part of the protocol.
With(s, part, x)  == [s EXCEPT !.t = x.t, ![part] = x]
Began(s, part, x) == [s EXCEPT !.t = x.t] @@ (part :> x)
WithBus(s, b)     == [t |-> b.gkr.t, bus |-> b] @@ s
WithGkr(s, g)     == [s EXCEPT !.t = g.t, !.bus.gkr = g]

\* The hash instances of an execution, read back out of the columns.
InstanceOf(cols, i) ==
  LET cell(c) == <<cols[<<"BLAKE2S", BlakeLo[c]>>][i], cols[<<"BLAKE2S", BlakeHi[c]>>][i]>>
      words(cs) == WordsOf(FlattenSeq([k \in 1..Len(cs) |-> cell(cs[k])]))
  IN  [h |-> words(<<"CV0", "CV1">>), m |-> words(<<"M0", "M1", "M2", "M3">>), md |-> words(<<"MD">>)]

Pack(bits) ==
  Table(Len(bits) \div 2^LogPacking, LAMBDA y :
    LET word[i \in 0..2^LogPacking] ==
          IF i = 0 THEN 0 ELSE word[i - 1] + 2^(i - 1) * bits[2^LogPacking * (y - 1) + i]
    IN  word[2^LogPacking])

Unpack(words) ==
  Table(Len(words) * 2^LogPacking, LAMBDA i :
    BitOf(words[(i - 1) \div 2^LogPacking + 1], (i - 1) % 2^LogPacking))

\* The word of an instance a value column of BLAKE2S is read from.
ValueSlot(name) ==
  LET i == CHOOSE i \in 1..Len(BlakeValueColumns) : BlakeValueColumns[i] = name
      messages == (2 * HashWords * WordBits) \div KBits
      digests  == messages + (HashWords * WordBits) \div KBits
      values   == digests + (HashWords * WordBits) \div KBits
  IN  CASE i <= messages -> MsgBase \div KBits + i - 1
        [] i \in messages + 1..digests -> OutBase \div KBits + i - messages - 1
        [] i \in digests + 1..values   -> CvBase \div KBits + i - digests - 1
        [] OTHER -> MetaBase \div KBits + i - values - 1

\* A claim on a column as a claim on the committed vector.
SlotClaim(place, c) ==
  IF IsValueColumn(c.col)
  THEN StackClaim(place.at[QFlock].offset, ValueSlot(c.col[2]), HashLog - LogPacking, c.point, c.value)
  ELSE StackClaim(place.at[c.col].offset, 0, 0, c.point, c.value)

\* The first two cells are the public input: the memory at (r, 0, ..., 0).
InputClaims(l, r, limbs) ==
  LET point == <<r>> \o [i \in 1..l.logMem - 1 |-> EZero]
  IN  <<ColumnClaim(Shared("MEM_LO"), point, limbs[1]), ColumnClaim(Shared("MEM_HI"), point, limbs[2]),
        ColumnClaim(Shared("MEM_TOP"), point, EZero)>>

\* As FinishClaims, with a table evaluated at the last challenges of the
\* sumcheck instead of the first.
FinishClaimsAtLast(l, bus, sum, r, limbs) ==
  LET at(t) == SubSeq(sum.chi, Len(sum.chi) - l.taus[t] + 1, Len(sum.chi))
      table(t) == Table(Len(TableColumns[t]), LAMBDA i :
                    ColumnClaim(<<t, TableColumns[t][i]>>, at(t), sum.evals[t][i]))
  IN  bus.claims \o FlattenSeq([k \in 1..Len(TableNames) |-> table(TableNames[k])])
        \o InputClaims(l, r, limbs)

\* Every claim on a column, in the order both sides batch them.
FinishClaims(l, bus, sum, r, limbs) ==
  LET table(t) == Table(Len(TableColumns[t]), LAMBDA i :
                    ColumnClaim(<<t, TableColumns[t][i]>>, SubSeq(sum.chi, 1, l.taus[t]), sum.evals[t][i]))
  IN  bus.claims \o FlattenSeq([k \in 1..Len(TableNames) |-> table(TableNames[k])])
        \o InputClaims(l, r, limbs)

SlotClaims(l, claims) == Table(Len(claims), LAMBDA i : SlotClaim(l.stack, claims[i]))

RingOf(l, reduced) ==
  [offset |-> l.stack.at[QFlock].offset, vars |-> l.stack.at[QFlock].vars,
   point |-> reduced.point, slices |-> reduced.slices]

HashVars(l) == HashLog + InstancesLog(2^l.taus["BLAKE2S"])

Start(pi) == FsNew(Compress(0, job.seed), <<Lift(pi[1][1]), Lift(pi[1][2]), Lift(pi[2][1]), Lift(pi[2][2])>>)

Sizes(l) ==
  <<Lift(l.logMem)>> \o [k \in 1..Len(TableNames) |-> Lift(l.taus[TableNames[k]])] \o <<Lift(LogInvRate)>>

-----------------------------------------------------------------------------
(* The prover. *)

Init ==
  /\ \E j \in Jobs : \E lie \in j.lies \cup {NoLie(j)} :
       job = [prog |-> j.prog, pi |-> j.pi, seed |-> j.seed, sampling |-> j.sampling, lie |-> lie]
  /\ stage = "execute" /\ exec = M!StartExecution(job.lie.prog, job.lie.pi, 2^MaxLogMem)
  /\ witness = << >> /\ p = << >> /\ change = NotChanged /\ v = << >> /\ trail = {}

Execute ==
  /\ stage = "execute" /\ exec.fault = "none" /\ ~M!Halted(exec, job.lie.prog)
  /\ exec' = M!ExecuteStep(exec, job.lie.prog)
  /\ UNCHANGED <<job, stage, witness, p, change, v, trail>>

Applied(changed, cols) ==
  [c \in DOMAIN cols |-> Table(Len(cols[c]), LAMBDA i :
     IF \E x \in changed : x.col = c /\ x.row = i
     THEN (CHOOSE x \in changed : x.col = c /\ x.row = i).to ELSE cols[c][i])]

Built(e) ==
  [cols   |-> Columns(job.lie.prog, e, << >>),
   layout |-> LayoutOf(job.prog, Log2Ceil(Len(e.mem)),
                       [t \in M!Tables6 |-> Log2Ceil(Len(e.rows[t]))], job.pi)]

\* A cell that was read and never written is no value of the execution's, so
\* nothing is proved then.
Build ==
  /\ stage = "execute" /\ exec.fault = "none" /\ M!Halted(exec, job.lie.prog) /\ exec.unread = << >>
  /\ witness' = Built(M!ExecutionOf(exec))
  /\ \A t \in M!Tables6 : Len(witness'.cols[<<t, "PC">>]) = 2^witness'.layout.taus[t]
  /\ witness'.layout.stack.mu \in MinMu..MaxMu
  /\ stage' = "witness"
  /\ UNCHANGED <<job, exec, p, change, v, trail>>

\* The bits of the hash, of every row of BLAKE2S.
GenerateWitness ==
  /\ stage = "witness"
  /\ LET rows == Table(Len(witness.cols[<<"BLAKE2S", "PC">>]), LAMBDA i : InstanceOf(witness.cols, i))
     IN  witness' = [bits |-> WitnessOf(rows, InstancesLog(2^witness.layout.taus["BLAKE2S"]))] @@ witness
  /\ stage' = "pack"
  /\ UNCHANGED <<job, exec, p, change, v, trail>>

\* The columns with the lie, and the vector to commit to.
PackWitness ==
  /\ stage = "pack"
  /\ LET part(i) == Table(Len(witness.bits), LAMBDA k : witness.bits[k][i])
         cols    == Applied(job.lie.changed, [witness.cols EXCEPT ![QFlock] = Pack(part(1))])
     IN  witness' = [cols |-> cols, layout |-> witness.layout, stack |-> Stack(witness.layout.stack, cols),
                     bits |-> [a |-> part(2), b |-> part(3), c |-> Unpack(cols[QFlock])]]
  /\ stage' = "commit"
  /\ UNCHANGED <<job, exec, p, change, v, trail>>

\* A step of the prover: its new state, where it goes, the binding state noted.
ProverStep(at, new, next) ==
  /\ stage = at /\ p' = new /\ stage' = next
  /\ trail' = trail \cup {<<Len(p'.t.stream), p'.t.cv>>}
  /\ UNCHANGED <<job, exec, witness, change, v>>

Commit ==
  LET matrix == CommitLanes(LiftAll(witness.stack), witness.layout.stack.lanes)
      sent   == SendRoot(Send(NewProver(Start(job.pi)), Sizes(witness.layout)), RootOf(matrix))
  IN  ProverStep("commit", [t |-> sent, matrix |-> matrix], "bus")

\* The three products, then what they say of the columns.
BalanceStart ==
  /\ stage = "bus" /\ "bus" \notin DOMAIN p
  /\ ProverStep("bus", WithBus(p, BusProve(p.t, witness.layout, witness.cols)), "bus")

GkrStep(g) ==
  CASE g.layer % 2 = 1 -> GkrBinary(g)
    [] g.layer % 2 = 0 /\ ~g.open -> GkrOpen(g)
    [] g.open /\ ~GkrRoundsDone(g) -> GkrRound(g)
    [] g.open /\ GkrRoundsDone(g)  -> GkrTails(g)

Balance ==
  /\ stage = "bus" /\ "bus" \in DOMAIN p /\ p.bus.gkr.layer > 0
  /\ ProverStep("bus", WithGkr(p, GkrStep(p.bus.gkr)), "bus")

Decompose ==
  /\ stage = "bus" /\ "bus" \in DOMAIN p /\ p.bus.gkr.layer = 0
  /\ LET decomposed(b) ==
           Began([p EXCEPT !.bus = b], "sum", SumcheckStart(b.t, witness.layout, b, witness.cols))
     IN  ProverStep("bus", decomposed(BusDecompose(p.bus, witness.layout, witness.cols)), "tables")

TableRound ==
  /\ stage = "tables" /\ p.sum.round < TallestTau(witness.layout.taus)
  /\ ProverStep("tables", With(p, "sum", SumcheckRound(p.sum, witness.layout, p.bus)), "tables")

TableEvals ==
  /\ stage = "tables" /\ p.sum.round = TallestTau(witness.layout.taus)
  /\ ProverStep("tables", With(p, "sum", SumcheckEvals(p.sum)), "input")

\* Bind the public input to memory; then every claim on a column is there.
BindInput ==
  LET r     == Sample(p.t)
      limbs == [i \in 1..2 |-> Interp(Lift(job.pi[1][i]), Lift(job.pi[2][i]), r)]
      sent  == Send(AfterSamples(p.t, 1), limbs)
      l     == witness.layout
      z     == ZcStart(sent, HashVars(l))
  IN  ProverStep("input",
        [p EXCEPT !.t = z.t] @@ [claims |-> FinishClaims(l, p.bus, p.sum, r, limbs), hash |-> z], "zerocheck")

ZerocheckStep ==
  /\ stage = "zerocheck" /\ (p.hash.a = << >> \/ ~ZcRoundsDone(p.hash))
  /\ ProverStep("zerocheck",
       With(p, "hash", IF p.hash.a = << >> THEN ZcFirst(p.hash, witness.bits) ELSE ZcRound(p.hash)),
       "zerocheck")

ZerocheckEnd ==
  /\ stage = "zerocheck" /\ p.hash.a # << >> /\ ZcRoundsDone(p.hash)
  /\ ProverStep("zerocheck", With(p, "hash", LcStart(ZcEnd(p.hash), witness.bits)), "lincheck")

LincheckRound ==
  /\ stage = "lincheck" /\ ~LcRoundsDone(p.hash)
  /\ ProverStep("lincheck", With(p, "hash", LcRound(p.hash)), "lincheck")

LincheckEnd ==
  /\ stage = "lincheck" /\ LcRoundsDone(p.hash)
  /\ ProverStep("lincheck", With(p, "hash", LcEnd(p.hash)), "open")

OpenAll ==
  LET l      == witness.layout
      ring   == RingOf(l, p.hash)
      claims == SlotClaims(l, p.claims)
      batch  == Batching(p.t, ring, claims)
      basis  == BasisTable(Len(witness.stack), ring, claims, batch)
      opened(w) == [t |-> w.t, whir |-> w, claims |-> p.claims, point |-> p.hash.point,
                    slices |-> p.hash.slices]
  IN  ProverStep("open",
        opened(WhirStart(batch.t, LiftAll(witness.stack), basis, batch.target, l.stack.mu, p.matrix)),
        "low degree")

WhirStep(w) ==
  CASE w.level <= LastLevel /\ ~FoldsDone(w) -> WhirFold(w)
    [] w.level <= LastLevel /\ FoldsDone(w) /\ ~w.ready -> WhirCommit(w)
    [] w.level <= LastLevel /\ w.ready -> WhirOpen(w)
    [] w.level > LastLevel -> WhirLast(w)

LowDegree ==
  /\ stage = "low degree" /\ (p.whir.level <= LastLevel \/ Len(p.whir.f) > 1)
  /\ ProverStep("low degree", With(p, "whir", WhirStep(p.whir)), "low degree")

Proved ==
  /\ stage = "low degree" /\ p.whir.level > LastLevel /\ Len(p.whir.f) = 1
  /\ stage' = "proved" /\ p' = [stream |-> p.t.stream, merkle |-> p.t.merkle]
  /\ UNCHANGED <<job, exec, witness, change, v, trail>>

-----------------------------------------------------------------------------
(* The verifier is given the public input and a proof, the prover's or a    *)
(* changed one.                                                             *)

\* One limb of a scalar, of a scalar of an opened row, with or without the
\* row it claims to be, or of the public input; one scalar or one phase more
\* or less.
Changes(proof) ==
  {[kind |-> "scalar", at |-> i] : i \in {i \in 1..Len(proof.stream) : i % job.sampling = 0}}
  \cup {[kind |-> k, at |-> i] : k \in {"row", "matrix"}, i \in 1..Len(proof.merkle)}
  \cup {[kind |-> "input", at |-> i] : i \in 0..5}
  \cup {[kind |-> k, at |-> 0] : k \in {"shorter", "longer", "fewer phases", "more phases"}}

Nudged(x, limb) == [x EXCEPT ![limb] = KAdd(@, 1)]

ChangedProof(c, proof) ==
  LET row == proof.merkle[c.at].rows[1]
      new == [row EXCEPT ![Len(row)] = Nudged(@, 1)]
      at  == CHOOSE i \in 1..Len(proof.merkle[c.at].matrix) : proof.merkle[c.at].matrix[i] = row
      opened == [proof.merkle EXCEPT ![c.at].rows = [i \in 1..Len(@) |-> IF @[i] = row THEN new ELSE @[i]]]
      last == Len(proof.merkle)
  IN  CASE c.kind = "scalar"  -> [proof EXCEPT !.stream[c.at] = Nudged(@, (c.at % 3) + 1)]
        [] c.kind = "row"     -> [proof EXCEPT !.merkle = opened]
        [] c.kind = "matrix"  -> [proof EXCEPT !.merkle = [opened EXCEPT ![c.at].matrix[at] = new]]
        [] c.kind = "shorter" -> [proof EXCEPT !.stream = SubSeq(@, 1, Len(@) - 1)]
        [] c.kind = "longer"  -> [proof EXCEPT !.stream = Append(@, EZero)]
        [] c.kind = "fewer phases" -> [proof EXCEPT !.merkle = SubSeq(@, 1, last - 1)]
        [] c.kind = "more phases"  -> [proof EXCEPT !.merkle = Append(@, @[last])]
        [] OTHER -> proof

ChangedInput(c, pi) ==
  IF c.kind = "input"
  THEN [pi EXCEPT ![(c.at \div 3) + 1] = Nudged(@, (c.at % 3) + 1)] ELSE pi

Deliver ==
  /\ stage = "proved"
  /\ \E c \in {NotChanged} \cup (IF Honest THEN Changes(p) ELSE {}) :
       LET proof == IF c = NotChanged THEN p ELSE ChangedProof(c, p)
           pi    == IF c = NotChanged THEN job.pi ELSE ChangedInput(c, job.pi)
       IN  change' = c /\ v' = [t |-> NewVerifier(Start(pi), proof), pi |-> pi]
  /\ stage' = "verify"
  /\ UNCHANGED <<job, exec, witness, p, trail>>

\* A step of the verifier, which ends at the first thing that is wrong.
VerifierStep(at, new, next) ==
  /\ stage = at /\ v' = new /\ stage' = (IF v'.t.err = "none" THEN next ELSE "rejected")
  /\ UNCHANGED <<job, exec, witness, p, change, trail>>

Rejected(why) == [v EXCEPT !.t = Fail(@, why)]

\* The announced sizes, refused before anything is derived from them.
SizesInRange(x, taus) ==
  /\ \A i \in 1..Len(x) : x[i][2] = 0 /\ x[i][3] = 0
  /\ x[1][1] \in MinLogMem..MaxLogMem
  /\ \A t \in M!Tables6 : taus[t] <= MaxLogRows
  /\ taus["BLAKE2S"] >= InstancesLog(1)
  /\ x[Len(x)][1] = LogInvRate

ReadPublic ==
  LET x    == Peek(v.t, 8)
      taus == [t \in M!Tables6 |-> x[1 + CHOOSE k \in 1..6 : TableNames[k] = t][1]]
      u    == Receive(v.t, 8)
      derived(l) ==
        IF l.stack.mu \notin MinMu..MaxMu THEN Rejected("public input")
        ELSE [t |-> ReceiveRoot(u), pi |-> v.pi, layout |-> l, root |-> PeekRoot(u)]
  IN  VerifierStep("verify",
        IF \/ v.pi[1][3] # 0 \/ v.pi[2][3] # 0
           \/ ~SizesInRange(x, taus)
        THEN Rejected("public input")
        ELSE derived(LayoutOf(job.prog, x[1][1], taus, v.pi)), "v bus")

VBalanceStart ==
  /\ stage = "v bus" /\ "bus" \notin DOMAIN v
  /\ VerifierStep("v bus", WithBus(v, BusVerify(v.t, v.layout)), "v bus")

GkrVStep(g) ==
  CASE g.layer % 2 = 1 -> GkrVBinary(g)
    [] g.layer % 2 = 0 /\ ~g.open -> GkrVOpen(g)
    [] g.open /\ ~GkrRoundsDone(g) -> GkrVRound(g)
    [] g.open /\ GkrRoundsDone(g)  -> GkrVTails(g)

VBalance ==
  /\ stage = "v bus" /\ "bus" \in DOMAIN v /\ v.bus.gkr.layer > 0
  /\ VerifierStep("v bus", WithGkr(v, GkrVStep(v.bus.gkr)), "v bus")

VDecompose ==
  /\ stage = "v bus" /\ "bus" \in DOMAIN v /\ v.bus.gkr.layer = 0
  /\ LET decomposed(b) == Began([v EXCEPT !.bus = b], "sum", SumcheckVStart(b.t, v.layout, b))
     IN  VerifierStep("v bus", decomposed(BusDecomposeV(v.bus, v.layout)), "v tables")

VTableRound ==
  /\ stage = "v tables" /\ v.sum.round < TallestTau(v.layout.taus)
  /\ VerifierStep("v tables", With(v, "sum", SumcheckVRound(v.sum, v.layout, v.bus)), "v tables")

VTableEvals ==
  /\ stage = "v tables" /\ v.sum.round = TallestTau(v.layout.taus)
  /\ VerifierStep("v tables", With(v, "sum", SumcheckVEvals(v.sum)), "v input")

\* The two limbs have to be those of the public input at r.
VBindInput ==
  LET r     == Sample(v.t)
      u     == AfterSamples(v.t, 1)
      limbs == Peek(u, 2)
      bound == Check(Receive(u, 2), EAdd(limbs[1], EMul(EY, limbs[2])) = Interp(v.pi[1], v.pi[2], r),
                     "public input")
      z     == ZcStart(bound, HashVars(v.layout))
  IN  VerifierStep("v input",
        [v EXCEPT !.t = z.t]
          @@ [claims |-> FinishClaims(v.layout, v.bus, v.sum, r, limbs), hash |-> z, skipped |-> FALSE],
        "v zerocheck")

VZerocheckStep ==
  /\ stage = "v zerocheck" /\ (~v.skipped \/ ~ZcRoundsDone(v.hash))
  /\ VerifierStep("v zerocheck",
       With([v EXCEPT !.skipped = TRUE], "hash", IF v.skipped THEN ZcVRound(v.hash) ELSE ZcVFirst(v.hash)),
       "v zerocheck")

VZerocheckEnd ==
  /\ stage = "v zerocheck" /\ v.skipped /\ ZcRoundsDone(v.hash)
  /\ VerifierStep("v zerocheck", With(v, "hash", LcVStart(ZcVEnd(v.hash))), "v lincheck")

VLincheckRound ==
  /\ stage = "v lincheck" /\ ~LcRoundsDone(v.hash)
  /\ VerifierStep("v lincheck", With(v, "hash", LcVRound(v.hash)), "v lincheck")

VLincheckEnd ==
  /\ stage = "v lincheck" /\ LcRoundsDone(v.hash)
  /\ VerifierStep("v lincheck", With(v, "hash", LcVEnd(v.hash)), "v open")

VOpenAll ==
  LET ring   == RingOf(v.layout, v.hash)
      claims == SlotClaims(v.layout, v.claims)
      batch  == Batching(v.t, ring, claims)
      opened(w) == [t |-> w.t, pi |-> v.pi, layout |-> v.layout, claims |-> v.claims,
                    point |-> v.hash.point, slices |-> v.hash.slices, ring |-> ring,
                    batch |-> batch, whir |-> w]
  IN  VerifierStep("v open",
        opened(WhirVStart(batch.t, batch.target, v.layout.stack.mu, v.layout.stack.lanes, v.root)),
        "v low degree")

WhirVStep(w) ==
  CASE w.level <= LastLevel /\ ~FoldsDone(w) -> WhirVFold(w)
    [] w.level <= LastLevel /\ FoldsDone(w) /\ ~w.ready -> WhirVCommit(w)
    [] w.level <= LastLevel /\ w.ready -> WhirVOpen(w)
    [] w.level > LastLevel -> WhirVLast(w)

VLowDegree ==
  /\ stage = "v low degree" /\ (v.whir.level <= LastLevel \/ Len(v.whir.tail) < VarsLeft(v.whir))
  /\ VerifierStep("v low degree", With(v, "whir", WhirVStep(v.whir)), "v low degree")

\* The last equation, and nothing of the proof left over.
VFinish ==
  /\ stage = "v low degree" /\ v.whir.level > LastLevel /\ Len(v.whir.tail) = VarsLeft(v.whir)
  /\ LET claims == SlotClaims(v.layout, v.claims)
         ended(w) == [v EXCEPT !.t = Finish(w.t), !.whir = w]
     IN  VerifierStep("v low degree",
           ended(WhirVEnd(v.whir, BasisAt(WhirVPoint(v.whir), v.ring, claims, v.batch))), "accepted")

\* Nothing is proved of a run that failed.
Failed == stage = "execute" /\ exec.fault # "none"

Done == (stage \in {"accepted", "rejected"} \/ Failed) /\ UNCHANGED vars

Prover ==
  \/ Execute \/ Build \/ GenerateWitness \/ PackWitness \/ Commit \/ BalanceStart \/ Balance \/ Decompose \/ TableRound \/ TableEvals
  \/ BindInput \/ ZerocheckStep \/ ZerocheckEnd \/ LincheckRound \/ LincheckEnd \/ OpenAll \/ LowDegree
  \/ Proved

Verifier ==
  \/ ReadPublic \/ VBalanceStart \/ VBalance \/ VDecompose \/ VTableRound \/ VTableEvals
  \/ VBindInput \/ VZerocheckStep \/ VZerocheckEnd \/ VLincheckRound \/ VLincheckEnd
  \/ VOpenAll \/ VLowDegree \/ VFinish

Next == Prover \/ Deliver \/ Verifier \/ Done

Spec == Init /\ [][Next]_vars

-----------------------------------------------------------------------------
\* A proof that reaches the verifier as it was made, of an execution that is
\* one, is accepted.
HonestIsAccepted == change = NotChanged /\ Honest => stage # "rejected"

\* No other proof is, nor a proof of values that are no execution's.
OnlyHonestIsAccepted == stage = "accepted" => change = NotChanged /\ Honest

\* Both sides bound the same scalars in the same order: after each message
\* the verifier is where the prover was, and from the first scalar that was
\* changed on never again.
BindTheSame ==
  stage \in VerifierStages /\ (change = NotChanged \/ change.kind = "scalar") =>
    (<<v.t.offset, v.t.cv>> \in trail <=> (change = NotChanged \/ v.t.offset < change.at))

\* What the verifier is left with once it has read the arguments are true
\* values of what the prover committed to.
Truth(c) ==
  c.value = MleEval(witness.cols[c.col], c.point)
ClaimsAreTrue ==
  stage \in {"v open", "v low degree", "accepted"} /\ change = NotChanged /\ Honest =>
    \A i \in 1..Len(v.claims) : Truth(v.claims[i])
=============================================================================
