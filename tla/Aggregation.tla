---------------------------- MODULE Aggregation ----------------------------
(***************************************************************************)
(* One node of an aggregation tree after the other: aggregate of           *)
(* crates/rec_aggregation/src/aggregation.rs, which plans the witness, and *)
(* main of crates/rec_aggregation/guests/lean_ethereum.py, the program     *)
(* whose run is proved.  The guest takes one hint after the other, from    *)
(* the streams aggregate has filled or, of a prover that runs code of its  *)
(* own, any; a hint that an assertion refuses ends the run.  Hashes are    *)
(* symbolic: a digest is what it hashes.                                   *)
(***************************************************************************)
EXTENDS Integers, Sequences, SequencesExt, FiniteSets, TLC
CONSTANTS MaxKeys, MaxEpochs, MaxRecursions, MaxDaRoots,
          XmssSigned, SphincsSigned, \* the claims there are signatures of
          Unsigned,                  \* XMSS claims there are none of
          Codewords,                 \* the roots whose rows are codewords
          Calls,                     \* what aggregate may be asked, but for the children
          Advice,                    \* for a prover of its own, what it may hint, per stream
          Plots,                     \* and which of these, after so many aggregates
          MaxNodes, MaxForeign       \* aggregates made, and those of provers of their own

ASSUME AggregationAssumption ==
  {MaxKeys, MaxEpochs, MaxRecursions, MaxDaRoots, MaxNodes, MaxForeign} \subseteq Nat

VARIABLES node,       \* the run of the guest, or NoRun
          aggregates, \* what was made
          foreign,    \* how often somebody did not run this code
          answered    \* the last call of aggregate and its answer
aggregationVars == <<node, aggregates, foreign, answered>>

-----------------------------------------------------------------------------
(* What an aggregate states, the checks of its shape, and the plan that gives each
   contribution of a node, a raw signature or a claim of a child, its slot in the
   node's coverage table. *)

\* An XMSS claim is <<epoch, message, key>>, a SPHINCS claim <<key, message>>;
\* keys, messages and roots are numbers, for their order.
At(claim) == <<claim[1], claim[2]>>

Before(a, b) == \E i \in DOMAIN a : a[i] < b[i] /\ \A j \in 1..i - 1 : a[j] = b[j]
Less(a, b) == a < b
Increasing(s, Op(_, _)) == \A i \in 1..Len(s) - 1 : Op(s[i], s[i + 1])

\* The claims by the epoch and the message they share, in their order.
GroupsOf(claims) ==
  LET ats == SetToSortSeq({At(c) : c \in claims}, Before)
  IN  [j \in DOMAIN ats |->
         [at |-> ats[j],
          keys |-> SetToSortSeq({c[3] : c \in {d \in claims : At(d) = ats[j]}}, Less)]]

GroupClaims(group) == [i \in DOMAIN group.keys |-> group.at \o <<group.keys[i]>>]
ClaimList(groups) == FlattenSeq([j \in DOMAIN groups |-> GroupClaims(groups[j])])
ClaimsOf(groups) == ToSet(ClaimList(groups))

-----------------------------------------------------------------------------
(* Statements and aggregates *)

\* A root goes with the hash of its membership vector, which whoever holds the
\* root computes from it.
DaClaim(root) == [root |-> root, vector |-> "of the root"]
DaList(roots) == [i \in DOMAIN roots |-> DaClaim(roots[i])]

\* A claim on the three fixed polynomials: its point, and whether the values that
\* go with it are theirs there.
Recompute(point) == [point |-> point, holds |-> TRUE]
LeafClaim == Recompute("zero")

\* Each child brings the claim it carries and a fresh one of its verification, and
\* a sumcheck reduces them all to one at a point drawn for it.
Batched(claims) == [point |-> "drawn", holds |-> \A i \in DOMAIN claims : claims[i].holds]

Statement(xmss, sphincs, roots, defer) ==
  [xmss |-> xmss, sphincs |-> sphincs, roots |-> roots, defer |-> defer]

PublicInput(a) == Statement(a.xmss, a.sphincs, DaList(a.roots), a.defer)
NumClaims(a) == Len(ClaimList(a.xmss)) + Len(a.sphincs)

CheckSignerSet(a) ==
  /\ NumClaims(a) < MaxKeys
  /\ Len(a.xmss) <= MaxEpochs
  /\ Increasing([j \in DOMAIN a.xmss |-> a.xmss[j].at], Before)
  /\ \A j \in DOMAIN a.xmss : a.xmss[j].keys # << >> /\ Increasing(a.xmss[j].keys, Less)
  /\ Increasing(a.sphincs, Before)

CheckDaRoots(roots) == Len(roots) <= MaxDaRoots /\ Increasing(roots, Less)

\* A proof is of the public input of a run of the guest, or nobody's.
MadeUp == [ran |-> FALSE]
ProofOf(statement) == [ran |-> TRUE, of |-> statement]
VmVerify(statement, proof) == proof.ran /\ proof.of = statement

\* What is malformed is not taken from the wire, which has the points and no values.
WellFormed(a) == CheckSignerSet(a) /\ CheckDaRoots(a.roots)
FromParts(a) == [a EXCEPT !.defer = Recompute(a.defer.point)]

Verify(a) ==
  /\ WellFormed(a)
  /\ a.defer = Recompute(a.defer.point)
  /\ VmVerify(PublicInput(a), a.proof)

-----------------------------------------------------------------------------
(* The plan *)

\* The w-th of the contributions takes the slot of its claim if it is declared and
\* nobody before took it, and a fresh one behind the declared slots of its region
\* otherwise.  The contributions of its region are the peers, and declared the
\* claims that have a slot there, in order.
SlotOf(claim, declared) == (CHOOSE i \in DOMAIN declared : declared[i] = claim) - 1

\* What take_slot would give if it did not strike off the slots it has given.
TakeSlotTwice(walk, w, declared, peers) ==
  IF walk[w] \in ToSet(declared) THEN SlotOf(walk[w], declared)
  ELSE Len(declared) + Cardinality({v \in peers : v < w})

TakeSlot(walk, w, declared, peers) ==
  LET Claimed(v) == walk[v] \in ToSet(declared) /\ \A u \in 1..v - 1 : walk[u] # walk[v]
  IN  IF Claimed(w) THEN SlotOf(walk[w], declared)
      ELSE Len(declared) + Cardinality({v \in peers : v < w /\ ~Claimed(v)})

Peers(walk, w) == {v \in DOMAIN walk : At(walk[v]) = At(walk[w])}

\* declare has the claims to publish; all of them are kept if it has none.
PlanCoverage(rawXmss, rawSphincs, children, declare) ==
  LET walkX     == rawXmss \o FlattenSeq([c \in DOMAIN children |-> ClaimList(children[c].xmss)])
      walkS     == rawSphincs \o FlattenSeq([c \in DOMAIN children |-> children[c].sphincs])
      keptX     == IF declare.all THEN ToSet(walkX) ELSE ToSet(walkX) \cap declare.xmss
      keptS     == IF declare.all THEN ToSet(walkS) ELSE ToSet(walkS) \cap declare.sphincs
      declared  == GroupsOf(keptX)
      dropped   == {At(c) : c \in ToSet(walkX)} \ {At(c) : c \in keptX}
      droppedAt == SetToSortSeq(dropped, Before)
      groups    == declared \o [j \in DOMAIN droppedAt |-> [at |-> droppedAt[j], keys |-> << >>]]
      sphincs   == SetToSortSeq(keptS, Before)
      regionOf  == [at \in {At(c) : c \in ToSet(walkX)} |-> CHOOSE j \in DOMAIN groups : groups[j].at = at]
      slotsX    == [w \in DOMAIN walkX |-> TakeSlot(walkX, w, GroupClaims(groups[regionOf[At(walkX[w])]]),
                                               Peers(walkX, w))]
      slotsS    == [w \in DOMAIN walkS |-> TakeSlot(walkS, w, sphincs, DOMAIN walkS)]
      dupsOf(j) == SelectSeq([w \in DOMAIN walkX |-> <<w, walkX[w]>>],
                             LAMBDA p : At(p[2]) = groups[j].at /\ slotsX[p[1]] >= Len(groups[j].keys))
      dupsS     == SelectSeq([w \in DOMAIN walkS |-> <<w, walkS[w]>>], LAMBDA p : slotsS[p[1]] >= Len(sphincs))
      total     == Len(ClaimList(groups)) + Len(sphincs) + Len(dupsS)
                     + Len(FlattenSeq([j \in DOMAIN groups |-> dupsOf(j)]))
  IN  IF Len(groups) > MaxEpochs THEN [error |-> "too many epochs"]
      ELSE IF ~declare.all /\ (declare.xmss # keptX \/ declare.sphincs # keptS) THEN [error |-> "not covered"]
      ELSE IF total >= MaxKeys THEN [error |-> "too large"]
      ELSE [error |-> "none", declared |-> declared, groups |-> groups, sphincs |-> sphincs,
            dups |-> [j \in DOMAIN groups |-> [i \in DOMAIN dupsOf(j) |-> dupsOf(j)[i][2][3]]],
            sphincsDups |-> [i \in DOMAIN dupsS |-> dupsS[i][2]],
            total |-> total, regionOf |-> regionOf, slotsX |-> slotsX, slotsS |-> slotsS]

-----------------------------------------------------------------------------
NoRun == [at |-> "no run"]
NoCall == [error |-> "no call", made |-> << >>]

Sum(s) ==
  LET sum[k \in 0..Len(s)] == IF k = 0 THEN 0 ELSE sum[k - 1] + s[k]
  IN  sum[Len(s)]

-----------------------------------------------------------------------------
(* aggregate: the checks and the witness *)

Streams == {"meta", "group", "da_roots", "pubkeys", "dup_pubkeys", "sphincs_signers",
            "dup_sphincs", "raw_index", "sp_raw_index", "da_index", "child_meta",
            "child_group", "child_index", "child_sphincs_index", "child_defer", "proof"}

DaSlots(call, roots) ==
  LET walk == call.direct \o FlattenSeq([c \in DOMAIN call.children |-> call.children[c].roots])
  IN  [w \in DOMAIN walk |-> TakeSlot(walk, w, roots, DOMAIN walk)]
DaDuplicates(call, roots) ==
  LET walk == call.direct \o FlattenSeq([c \in DOMAIN call.children |-> call.children[c].roots])
      dups == SelectSeq([w \in DOMAIN walk |-> w], LAMBDA w : DaSlots(call, roots)[w] >= Len(roots))
  IN  [i \in DOMAIN dups |-> walk[dups[i]]]

\* The raw signatures of a group, in the order of the call.
RawOf(rawXmss, at) == SelectSeq([i \in DOMAIN rawXmss |-> i], LAMBDA i : At(rawXmss[i]) = at)

\* The parts of a signature are hints of their own, and one thing here.
SignatureHint(slot, claim) == [slot |-> slot, signature |-> claim]
SphincsHint(slot, claim)   == [slot |-> slot, signature |-> claim]

ChildGroups(plan, child) ==
  [g \in DOMAIN child.xmss |->
     [at |-> child.xmss[g].at, n |-> Len(child.xmss[g].keys), parent |-> plan.regionOf[child.xmss[g].at]]]

\* What the proof of a child leaves to check is one claim on the fixed polynomials.
GenVerify(statement, proof) == [proof |-> proof, defer |-> [point |-> "fresh", holds |-> VmVerify(statement, proof)]]
Subs(children) == [c \in DOMAIN children |-> GenVerify(PublicInput(children[c]), children[c].proof)]

BuildHints(call, plan, roots) ==
  LET kids  == call.children
      rawXs == [j \in DOMAIN plan.groups |-> RawOf(call.xmss, plan.groups[j].at)]
      daDups == DaDuplicates(call, roots)
  IN  [meta |-> <<[declared |-> Len(plan.declared), dropped |-> Len(plan.groups) - Len(plan.declared),
                   sphincs |-> Len(plan.sphincs), sphincsDups |-> Len(plan.sphincsDups),
                   rawSphincs |-> Len(call.sphincs), children |-> Len(kids), direct |-> Len(call.direct),
                   roots |-> Len(roots), rootDups |-> Len(daDups)]>>,
       group |-> [j \in DOMAIN plan.groups |->
                    [at |-> plan.groups[j].at, n |-> Len(plan.groups[j].keys),
                     dups |-> Len(plan.dups[j]), raw |-> Len(rawXs[j])]],
       da_roots |-> DaList(roots \o daDups),
       pubkeys |-> FlattenSeq([j \in DOMAIN plan.declared |-> plan.declared[j].keys]),
       dup_pubkeys |-> FlattenSeq(plan.dups),
       sphincs_signers |-> plan.sphincs,
       dup_sphincs |-> plan.sphincsDups,
       raw_index |-> FlattenSeq([j \in DOMAIN rawXs |->
                       [i \in DOMAIN rawXs[j] |->
                          SignatureHint(plan.slotsX[rawXs[j][i]], call.xmss[rawXs[j][i]])]]),
       sp_raw_index |-> [i \in DOMAIN call.sphincs |-> SphincsHint(plan.slotsS[i], call.sphincs[i])],
       da_index |-> DaSlots(call, roots),
       child_meta |-> [c \in DOMAIN kids |->
                         [groups |-> Len(kids[c].xmss), sphincs |-> Len(kids[c].sphincs), roots |-> Len(kids[c].roots)]],
       child_group |-> FlattenSeq([c \in DOMAIN kids |-> ChildGroups(plan, kids[c])]),
       child_index |-> SubSeq(plan.slotsX, Len(call.xmss) + 1, Len(plan.slotsX)),
       child_sphincs_index |-> SubSeq(plan.slotsS, Len(call.sphincs) + 1, Len(plan.slotsS)),
       child_defer |-> [c \in DOMAIN kids |-> kids[c].defer],
       proof |-> [c \in DOMAIN kids |-> Subs(kids)[c].proof]]

Inherited(call) == UNION {ToSet(call.children[c].roots) : c \in DOMAIN call.children}
Available(call) == Inherited(call) \cup ToSet(call.direct)

\* The roots to publish: those declared, or all there are.
RootsOf(call, available) == SetToSortSeq(IF call.declare.all THEN available ELSE call.declare.roots, Less)

\* The first reason to refuse a call before there is a run, or "none".
Refusal(call, plan) ==
  LET kids  == call.children
      early == RootsOf(call, Inherited(call))
      roots == RootsOf(call, Available(call))
      contributions == Len(call.direct) + Sum([c \in DOMAIN kids |-> Len(kids[c].roots)])
  IN  IF Len(kids) > MaxRecursions THEN "too large"
      ELSE IF \E c \in DOMAIN kids : ~CheckDaRoots(kids[c].roots) THEN "invalid child"
      ELSE IF Len(early) > MaxDaRoots THEN "too large"
      ELSE IF call.direct = << >> /\ ToSet(early) \ Inherited(call) # {} THEN "not covered"
      ELSE IF \E c \in DOMAIN kids : ~CheckSignerSet(kids[c]) \/ ~VmVerify(PublicInput(kids[c]), kids[c].proof)
        THEN "invalid child"
      ELSE IF plan.error # "none" THEN plan.error
      ELSE IF plan.total + contributions >= MaxKeys THEN "too large"
      ELSE IF Len(roots) > MaxDaRoots THEN "too large"
      ELSE IF plan.declared = << >> /\ plan.sphincs = << >> /\ roots = << >> THEN "empty"
      ELSE IF ToSet(roots) \ Available(call) # {} THEN "not covered"
      ELSE "none"

\* The statement aggregate hands to the prover with the witness.
Announced(call, plan) ==
  LET kids == call.children
  IN  Statement(plan.declared, plan.sphincs, DaList(RootsOf(call, Available(call))),
                IF kids = << >> THEN LeafClaim
                ELSE Batched(FlattenSeq([c \in DOMAIN kids |-> <<Subs(kids)[c].defer, kids[c].defer>>])))

Run(honest, hints, announced) ==
  [at |-> "run", honest |-> honest, hints |-> hints, announced |-> announced,
   todo |-> <<[do |-> "meta"]>>, meta |-> << >>, groups |-> << >>, table |-> << >>, sphincs |-> << >>,
   roots |-> << >>, cover |-> {}, written |-> 0, child |-> << >>, claims |-> << >>]

Asked(c, children) ==
  [xmss |-> SetToSortSeq(c.xmss, Before), sphincs |-> SetToSortSeq(c.sphincs, Before),
   direct |-> c.direct, declare |-> c.declare, children |-> children]

Answer(call, error, made) == answered' = [call |-> call, error |-> error, made |-> made]

Planned(call, plan) ==
  IF Refusal(call, plan) # "none" THEN Answer(call, Refusal(call, plan), << >>) /\ UNCHANGED node
  ELSE /\ Answer(call, "none", << >>)
       /\ node' = Run(TRUE, BuildHints(call, plan, RootsOf(call, Available(call))), Announced(call, plan))

\* Children have come over the wire.
Aggregate(c, children) ==
  /\ node = NoRun /\ Cardinality(aggregates) + foreign < MaxNodes
  /\ \A k \in DOMAIN children : WellFormed(children[k])
  /\ LET call == Asked(c, [k \in DOMAIN children |-> FromParts(children[k])])
     IN  Planned(call, PlanCoverage(call.xmss, call.sphincs, call.children, call.declare))
  /\ UNCHANGED <<aggregates, foreign>>

-----------------------------------------------------------------------------
(* The guest.  A count or an index is a power of the generator, which an assertion
   on its logarithm keeps in a range. *)

Task == Head(node.todo)
Doing(stream) == node.at = "run" /\ Task.do = stream
Then(n, tasks) == [n EXCEPT !.todo = tasks \o Tail(@)]
Times(k, task) == [i \in 1..k |-> task]

Entries(stream) ==
  IF node.honest THEN IF node.hints[stream] = << >> THEN {} ELSE {Head(node.hints[stream])}
  ELSE IF stream = "proof" THEN {MadeUp} \cup {a.proof : a \in aggregates}
  ELSE Advice[node.hints][stream]

\* An assertion that fails ends aggregate with an error; a run of a prover of its
\* own proves nothing, and is not followed.
Fault == node.honest /\ node' = NoRun /\ Answer(answered.call, "proof error", << >>)

Continue(n) ==
  /\ node' = IF n.honest /\ Task.do \in Streams THEN [n EXCEPT !.hints[Task.do] = Tail(@)] ELSE n
  /\ UNCHANGED answered

\* hint_witness, then what the guest does with the hint.
Take(stream, Asserts(_), Effect(_)) ==
  /\ Doing(stream)
  /\ \E x \in Entries(stream) : IF Asserts(x) THEN Continue(Effect(x)) ELSE Fault
  /\ UNCHANGED <<aggregates, foreign>>

\* Regions of the coverage table: the XMSS groups', the SPHINCS one and the roots'.
GroupSlots(j)  == node.groups[j].n + node.groups[j].dups
Base(j)        == Sum([i \in 1..j - 1 |-> GroupSlots(i)])
XmssSlots      == Base(Len(node.groups) + 1)
SphincsSlots   == node.meta.sphincs + node.meta.sphincsDups
DaBase         == XmssSlots + SphincsSlots
RootSlots      == node.meta.roots + node.meta.rootDups
TotalSlots     == DaBase + RootSlots

\* One write of the running count: a second write to a slot would differ from the
\* first.
MayCover(slot) == slot \notin node.cover
Covering(n, slot) == [n EXCEPT !.cover = @ \cup {slot}, !.written = @ + 1]

Meta == Take("meta",
  LAMBDA m : /\ {m.declared, m.dropped, m.declared + m.dropped} \subseteq 0..MaxEpochs
             /\ {m.sphincs, m.sphincsDups, m.rawSphincs} \subseteq 0..MaxKeys - 1
             /\ m.children \in 0..MaxRecursions /\ m.direct \in 0..1 /\ m.roots \in 0..MaxDaRoots
             /\ {m.rootDups, m.roots + m.rootDups} \subseteq 0..MaxRecursions * MaxDaRoots + 1,
  LAMBDA m : Then([node EXCEPT !.meta = m],
                  Times(m.declared + m.dropped, [do |-> "group"]) \o <<[do |-> "geometry"]>>))

Group == Take("group",
  LAMBDA g : {g.n, g.dups, g.raw} \subseteq 0..MaxKeys - 1,
  LAMBDA g : Then([node EXCEPT !.groups = Append(@, g)], << >>))

\* Once the counts are known, so is what is left to do.  The keys of a dropped
\* group have no hints of their own: what no write fixes is the prover's to choose.
Rest ==
  LET m == node.meta
      Declared == 1..m.declared
      GroupTimes(task, Count(_)) ==
        FlattenSeq([j \in DOMAIN node.groups |-> [i \in 1..Count(j) |-> [do |-> task, group |-> j]]])
  IN  Times(RootSlots, [do |-> "da_roots"])
        \o GroupTimes("pubkeys", LAMBDA j : IF j \in Declared THEN node.groups[j].n ELSE 0)
        \o GroupTimes("dup_pubkeys", LAMBDA j : GroupSlots(j) - (IF j \in Declared THEN node.groups[j].n ELSE 0))
        \o Times(m.sphincs, [do |-> "sphincs_signers"])
        \o Times(m.sphincsDups, [do |-> "dup_sphincs"])
        \o GroupTimes("raw_index", LAMBDA j : node.groups[j].raw)
        \o Times(m.rawSphincs, [do |-> "sp_raw_index"])
        \o Times(m.direct, [do |-> "da_index", direct |-> TRUE])
        \o Times(m.children, [do |-> "child_meta"])
        \o <<[do |-> "publish"]>>

\* No list of keys is empty, as its hash would have no split into windows, nor is
\* all that is declared.
Geometry ==
  /\ Doing("geometry")
  /\ IF /\ TotalSlots < MaxKeys
        /\ \A j \in 1..node.meta.declared : node.groups[j].n # 0
        /\ node.meta.declared + node.meta.sphincs + node.meta.roots # 0
     THEN Continue(Then(node, Rest)) ELSE Fault
  /\ UNCHANGED <<aggregates, foreign>>

DaRoot == Take("da_roots", LAMBDA r : TRUE, LAMBDA r : Then([node EXCEPT !.roots = Append(@, r)], << >>))

\* The table has the declared keys of a group and its duplicates, group by group;
\* hints come for all the declared keys first.
NextCell(j, declared) ==
  LET first == Base(j) + IF declared \/ j > node.meta.declared THEN 0 ELSE node.groups[j].n
  IN  CHOOSE a \in first..first + MaxKeys : a \notin DOMAIN node.table /\ \A b \in first..a - 1 : b \in DOMAIN node.table
Pubkey    == Take("pubkeys", LAMBDA k : TRUE,
                  LAMBDA k : Then([node EXCEPT !.table = (NextCell(Task.group, TRUE) :> k) @@ @], << >>))
DupPubkey == Take("dup_pubkeys", LAMBDA k : TRUE,
                  LAMBDA k : Then([node EXCEPT !.table = (NextCell(Task.group, FALSE) :> k) @@ @], << >>))

SphincsSigner == Take("sphincs_signers", LAMBDA s : TRUE,
                      LAMBDA s : Then([node EXCEPT !.sphincs = Append(@, s)], << >>))
DupSphincs    == Take("dup_sphincs", LAMBDA s : TRUE,
                      LAMBDA s : Then([node EXCEPT !.sphincs = Append(@, s)], << >>))

\* A writer stays in the region of its group, of its scheme or of the roots.
InTable(slot, slots)  == slot \in 0..MaxKeys - 1
InRegion(slot, slots) == slot \in 0..slots - 1

VerifySig(at, key, signature) == signature = at \o <<key>> /\ signature \in XmssSigned
VerifySigSphincs(signer, signature) == signature = signer /\ signature \in SphincsSigned

\* With the membership vector of its root the rows have to be codewords; the
\* vector of zeros any rows pass.
DaVerify(claim) == claim.vector = "of the root" => claim.root \in Codewords

RawXmss == Take("raw_index",
  LAMBDA r : LET j == Task.group  slot == Base(j) + r.slot
             IN  /\ InRegion(r.slot, GroupSlots(j))
                 /\ MayCover(slot) /\ slot \in DOMAIN node.table
                 /\ VerifySig(node.groups[j].at, node.table[slot], r.signature),
  LAMBDA r : Then(Covering(node, Base(Task.group) + r.slot), << >>))

RawSphincs == Take("sp_raw_index",
  LAMBDA r : /\ InRegion(r.slot, SphincsSlots)
             /\ MayCover(XmssSlots + r.slot) /\ r.slot + 1 \in DOMAIN node.sphincs
             /\ VerifySigSphincs(node.sphincs[r.slot + 1], r.signature),
  LAMBDA r : Then(Covering(node, XmssSlots + r.slot), << >>))

CoversRoot(slot) == InRegion(slot, RootSlots) /\ MayCover(DaBase + slot) /\ slot + 1 \in DOMAIN node.roots

DirectRoot == (Doing("da_index") /\ Task.direct) /\ Take("da_index",
  LAMBDA slot : CoversRoot(slot) /\ DaVerify(node.roots[slot + 1]),
  LAMBDA slot : Then(Covering(node, DaBase + slot), << >>))

\* A child's statement is put together from the slots its claims are said to be in;
\* how many roots it has is hinted later in the code, and here with the rest.
ChildMeta == Take("child_meta",
  LAMBDA m : m.groups \in 0..MaxEpochs /\ m.sphincs \in 0..MaxKeys - 1 /\ m.roots \in 0..MaxDaRoots,
  LAMBDA m : Then([node EXCEPT !.child = Statement(<< >>, << >>, << >>, LeafClaim)],
                  Times(m.groups, [do |-> "child_group"]) \o Times(m.sphincs, [do |-> "child_sphincs_index"])
                    \o <<[do |-> "child_defer"]>> \o Times(m.roots, [do |-> "da_index", direct |-> FALSE])
                    \o <<[do |-> "proof"]>>))

ChildGroup == Take("child_group",
  LAMBDA g : /\ g.n \in 1..MaxKeys - 1
             /\ g.parent \in DOMAIN node.groups /\ node.groups[g.parent].at = g.at,
  LAMBDA g : Then([node EXCEPT !.child.xmss = Append(@, [at |-> g.at, keys |-> << >>])],
                  Times(g.n, [do |-> "child_index", group |-> g.parent])))

ChildKey == Take("child_index",
  LAMBDA slot : /\ InRegion(slot, GroupSlots(Task.group))
                /\ MayCover(Base(Task.group) + slot) /\ Base(Task.group) + slot \in DOMAIN node.table,
  LAMBDA slot : Then([Covering(node, Base(Task.group) + slot) EXCEPT
                        !.child.xmss[Len(node.child.xmss)].keys = Append(@, node.table[Base(Task.group) + slot])], << >>))

ChildSphincs == Take("child_sphincs_index",
  LAMBDA slot : InRegion(slot, SphincsSlots) /\ MayCover(XmssSlots + slot) /\ slot + 1 \in DOMAIN node.sphincs,
  LAMBDA slot : Then([Covering(node, XmssSlots + slot) EXCEPT !.child.sphincs = Append(@, node.sphincs[slot + 1])], << >>))

ChildDefer == Take("child_defer", LAMBDA d : TRUE, LAMBDA d : Then([node EXCEPT !.child.defer = d], << >>))

ChildRoot == (Doing("da_index") /\ ~Task.direct) /\ Take("da_index", CoversRoot,
  LAMBDA slot : Then([Covering(node, DaBase + slot) EXCEPT !.child.roots = Append(@, node.roots[slot + 1])], << >>))

\* verify_sub takes the values of the fixed polynomials on trust, so a proof that
\* is not of the statement can get through and leave a fresh claim that is false.
VerifySub == Take("proof", LAMBDA p : TRUE,
  LAMBDA p : Then([node EXCEPT !.claims = @ \o <<GenVerify(node.child, p).defer, node.child.defer>>], << >>))

-----------------------------------------------------------------------------
(* The end *)

Keys(j) == [i \in 1..node.groups[j].n |-> node.table[Base(j) + i - 1]]

\* The values a leaf defers ride a hint.
OwnStatement(leaf) ==
  Statement([j \in 1..node.meta.declared |-> [at |-> node.groups[j].at, keys |-> Keys(j)]],
            SubSeq(node.sphincs, 1, node.meta.sphincs),
            SubSeq(node.roots, 1, node.meta.roots),
            IF node.meta.children = 0 THEN leaf ELSE Batched(node.claims))

Made(s) ==
  [xmss |-> s.xmss, sphincs |-> s.sphincs, roots |-> [i \in DOMAIN s.roots |-> s.roots[i].root],
   defer |-> s.defer, proof |-> ProofOf(s)]

Publish ==
  /\ Doing("publish")
  /\ \E leaf \in {LeafClaim} \cup (IF node.honest THEN {} ELSE {[LeafClaim EXCEPT !.holds = FALSE]}) :
       IF node.written = TotalSlots /\ (node.honest => OwnStatement(leaf) = node.announced)
       THEN /\ node' = NoRun
            /\ aggregates' = aggregates \cup {Made(OwnStatement(leaf))}
            /\ IF node.honest THEN Answer(answered.call, "none", <<Made(OwnStatement(leaf))>>) ELSE UNCHANGED answered
       ELSE Fault /\ UNCHANGED aggregates
  /\ UNCHANGED foreign

-----------------------------------------------------------------------------
(* A prover of its own, and one that puts another list on a proof *)

Foreign ==
  /\ node = NoRun /\ foreign < MaxForeign /\ Cardinality(aggregates) + foreign < MaxNodes
  /\ \E plot \in Plots[Cardinality(aggregates)] : node' = Run(FALSE, plot, << >>)
  /\ foreign' = foreign + 1 /\ answered' = NoCall
  /\ UNCHANGED aggregates

Relabel(a, claim) ==
  /\ node = NoRun /\ foreign < MaxForeign
  /\ aggregates' = aggregates \cup {[a EXCEPT !.xmss = GroupsOf(ClaimsOf(@) \cup {claim})]}
  /\ foreign' = foreign + 1 /\ answered' = NoCall
  /\ UNCHANGED node

AggregationInit == node = NoRun /\ aggregates = {} /\ foreign = 0 /\ answered = NoCall

Children == {<< >>} \cup {<<a>> : a \in aggregates} \cup (aggregates \X aggregates)

AggregationNext ==
  \/ \E c \in Calls, children \in Children : Aggregate(c, children)
  \/ Meta \/ Group \/ Geometry \/ DaRoot \/ Pubkey \/ DupPubkey \/ SphincsSigner \/ DupSphincs
  \/ RawXmss \/ RawSphincs \/ DirectRoot \/ ChildMeta \/ ChildGroup \/ ChildKey \/ ChildSphincs
  \/ ChildDefer \/ ChildRoot \/ VerifySub \/ Publish \/ Foreign
  \/ \E a \in aggregates, claim \in Unsigned : Relabel(a, claim)

-----------------------------------------------------------------------------
(* Properties *)

Accepted(a) == Verify(a) \/ Verify(FromParts(a))

\* Of an aggregate that verifies, whoever made it and its children and whatever
\* they hinted, each claim has its signature and each root its codewords
\* (aggregate, main, EthereumProof::verify).
EveryClaimIsBacked ==
  \A a \in aggregates : Accepted(a) =>
    /\ ClaimsOf(a.xmss) \subseteq XmssSigned
    /\ ToSet(a.sphincs) \subseteq SphincsSigned
    /\ ToSet(a.roots) \subseteq Codewords

\* What a call may publish, and what it is to.
Covered(call) ==
  LET kids == call.children
  IN  [xmss    |-> ToSet(call.xmss) \cup UNION {ClaimsOf(kids[c].xmss) : c \in DOMAIN kids},
       sphincs |-> ToSet(call.sphincs) \cup UNION {ToSet(kids[c].sphincs) : c \in DOMAIN kids},
       roots   |-> Available(call)]
Wanted(call) == IF call.declare.all THEN Covered(call) ELSE call.declare

Contributions(call) ==
  LET kids == call.children
  IN  Len(call.xmss) + Len(call.sphincs) + Len(call.direct)
        + Sum([c \in DOMAIN kids |-> NumClaims(kids[c]) + Len(kids[c].roots)])

Sound(call) ==
  /\ \A c \in DOMAIN call.children : Verify(call.children[c])
  /\ ToSet(call.xmss) \subseteq XmssSigned /\ ToSet(call.sphincs) \subseteq SphincsSigned
  /\ LET w == Wanted(call)  there == Covered(call)
     IN  /\ w.xmss \subseteq there.xmss /\ w.sphincs \subseteq there.sphincs /\ w.roots \subseteq there.roots
         /\ w.xmss # {} \/ w.sphincs # {} \/ w.roots # {}
         /\ Cardinality(w.roots) <= MaxDaRoots
         /\ Cardinality({At(c) : c \in there.xmss}) <= MaxEpochs
  /\ Contributions(call) < MaxKeys /\ Len(call.children) <= MaxRecursions

Publishes(a, w) ==
  ClaimsOf(a.xmss) = w.xmss /\ ToSet(a.sphincs) = w.sphincs /\ ToSet(a.roots) = w.roots

\* aggregate answers with an aggregate exactly if signatures, children and what is
\* declared are in order and in number; it verifies, as it is and as it is
\* received, and publishes what was asked, no more and no less.  The run takes the
\* hints it is given, each in its turn and all of them.
AggregatesAsAsked ==
  /\ node = NoRun /\ answered.error # "no call" =>
       /\ (answered.made # << >>) = Sound(answered.call)
       /\ \A i \in DOMAIN answered.made :
            /\ Verify(answered.made[i]) /\ Verify(FromParts(answered.made[i]))
            /\ Publishes(answered.made[i], Wanted(answered.call))
  /\ node.at = "run" => (node.honest =>
       /\ Task.do \in Streams => node.hints[Task.do] # << >>
       /\ Task.do = "publish" => \A stream \in Streams : node.hints[stream] = << >>)
=============================================================================
