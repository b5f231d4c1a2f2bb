---------------------------- MODULE MCSignatures ----------------------------
(***************************************************************************)
(* The two signature schemes, the signers cache and the aggregation of     *)
(* signatures, a behaviour being of one of them.  The digits and the       *)
(* indices of a digest stand for what a hash would give: they depend on    *)
(* all it hashes that the model tells                                      *)
(* apart, and some digests have none.                                      *)
(***************************************************************************)
EXTENDS Xmss, Sphincs, SignersCache, Aggregation

VARIABLE scene
mcvars == <<xmssVars, sphincsVars, cacheVars, aggregationVars, scene>>

MCMessages == {<<1>>, <<2>>}
ManyMessages == {<<i>> : i \in 1..6}

\* The digits of an encoding: <<message, randomness>> was hashed at an epoch,
\* the randomness from a trial.
XmssDigits(d) ==
  LET epoch   == d[2][3]
      message == d[3][1][1]
      trial   == d[3][2][2][2]
  IN  IF (message + epoch + trial) % 3 = 0 THEN << >>
      ELSE <<(message + epoch) % 3, (trial + 1) % 2>>

\* <<m, counter>> was hashed at a leaf.
OtsDigits(d) ==
  LET n == d[2][5] + d[3][2][1] + Len(d[3][1])
  IN  <<n % 3, (n + 1) % 2>>

\* <<randomizer, root, message>> was hashed, the randomizer from a trial.
SphincsIndices(d) ==
  LET trial == d[3][1][2][4]
      m     == d[3][3][1]
  IN  [idx |-> (5 * m + 3 * trial) % 2^TotalOf(Heights),
       u |-> [k \in 1..FtsTrees |-> (m + k) % 2^FtsHeight] \o <<(m + trial) % 2>>]

TreeHeights == <<3, 2>>

\* XMSS claims of two epochs and three messages; what may be asked, with what there
\* is no signature of, what is not covered and what does not fit among it.
XmssClaims == {<<1, 1, 1>>, <<2, 1, 2>>, <<2, 2, 1>>}
SphincsClaims == {<<1, 1>>}
UnsignedClaims == {<<2, 1, 1>>}

All == [all |-> TRUE]
Selected(xmss, sphincs, roots) == [all |-> FALSE, xmss |-> xmss, sphincs |-> sphincs, roots |-> roots]
Asks(xmss, sphincs, direct, declare) == [xmss |-> xmss, sphincs |-> sphincs, direct |-> direct, declare |-> declare]
AggregateCalls ==
  LET a == <<1, 1, 1>>  b == <<2, 1, 2>>
  IN  {Asks({a}, {}, << >>, All), Asks({a, b}, {<<1, 1>>}, << >>, All), Asks({b}, {}, <<1>>, All),
       Asks({}, {<<1, 1>>}, <<2>>, All), Asks({}, {}, << >>, All), Asks({<<2, 1, 1>>}, {}, << >>, All),
       Asks(XmssClaims, {}, << >>, All), Asks({}, {}, << >>, Selected({b}, {}, {})),
       Asks({a, b}, {<<1, 1>>}, <<1>>, Selected({b}, {}, {1})), Asks({a}, {<<1, 1>>}, << >>, Selected({}, {<<1, 1>>}, {})),
       Asks({a}, {}, <<1>>, Selected({}, {}, {2})), Asks({a}, {}, <<1>>, Selected({}, {}, {}))}

\* What a prover of its own may hint, to mix groups, dropped groups, schemes, roots
\* and children; at most one key declared or duplicate in a group.
Counts == {"declared", "dropped", "sphincs", "sphincsDups", "rawSphincs", "children", "direct", "roots", "rootDups"}
Metas(varied) == {m \in [Counts -> 0..2] : \A f \in Counts : m[f] \in IF f \in DOMAIN varied THEN varied[f] ELSE {0}}
HintsWith(varied) ==
  [meta |-> Metas(varied),
   group |-> {g \in [at : {<<1, 1>>, <<2, 1>>}, n : {0, 1}, dups : {0, 1}, raw : 0..2] : g.n + g.dups <= 1},
   da_roots |-> [root : {1, 3}, vector : {"of the root", "zero"}],
   pubkeys |-> {1, 2}, dup_pubkeys |-> {1, 2},
   sphincs_signers |-> {<<1, 1>>, <<1, 2>>}, dup_sphincs |-> {<<1, 1>>, <<1, 2>>},
   raw_index |-> [slot : 0..2, signature : XmssClaims], sp_raw_index |-> [slot : 0..2, signature : SphincsClaims],
   da_index |-> 0..2, child_meta |-> [groups : {0, 1}, sphincs : {0, 1}, roots : {0, 1}],
   child_group |-> [at : {<<1, 1>>, <<2, 1>>}, n : {1}, parent : {1, 2}],
   child_index |-> 0..2, child_sphincs_index |-> 0..2,
   child_defer |-> {[point |-> "zero", holds |-> TRUE], [point |-> "drawn", holds |-> FALSE]}]
OwnHints ==
  [groups   |-> HintsWith([declared |-> {2}]),
   dropping |-> HintsWith([declared |-> {1}, dropped |-> {1}]),
   schemes  |-> HintsWith([declared |-> {0, 1}, sphincs |-> {0, 1}, sphincsDups |-> {0, 1}, rawSphincs |-> {0, 1}]),
   roots    |-> HintsWith([sphincs |-> {0, 1}, rawSphincs |-> {0, 1}, direct |-> {0, 1}, roots |-> {1}, rootDups |-> {0, 1}]),
   childKeys |-> [HintsWith([declared |-> {0, 1}, dropped |-> {0, 1}, sphincs |-> {0, 1}, children |-> {1}])
                    EXCEPT !.group = {g \in @ : g.raw = 0}, !.child_meta = {m \in @ : m.roots = 0 /\ m.groups = 1}],
   childRest |-> [HintsWith([sphincs |-> {0, 1}, roots |-> {0, 1}, children |-> {1}])
                    EXCEPT !.da_roots = {r \in @ : r.vector = "of the root"}, !.child_meta = {m \in @ : m.groups = 0}]]
OwnPlots == [n \in 0..3 |-> CASE n = 0 -> DOMAIN OwnHints [] n = 1 -> {"childKeys", "childRest"} [] OTHER -> {}]

MCInit ==
  /\ scene \in {"xmss", "sphincs", "cache", "aggregation"}
  /\ XmssInit /\ SphincsInit /\ CacheInit /\ AggregationInit
  /\ scene # "cache" => kind = "xmss" /\ file = Absent

MCNext ==
  /\ \/ scene = "xmss" /\ XmssNext /\ UNCHANGED <<sphincsVars, cacheVars, aggregationVars>>
     \/ scene = "sphincs" /\ SphincsNext /\ UNCHANGED <<xmssVars, cacheVars, aggregationVars>>
     \/ scene = "cache" /\ CacheNext /\ UNCHANGED <<xmssVars, sphincsVars, aggregationVars>>
     \/ scene = "aggregation" /\ AggregationNext /\ UNCHANGED <<xmssVars, sphincsVars, cacheVars>>
  /\ UNCHANGED scene

MCSpec == MCInit /\ [][MCNext]_mcvars

(* What either scheme signs verifies: with XMSS whichever subtree was in    *)
(* the cache, with SPHINCS on every path of the hypertree.                 *)
WhatIsSignedVerifies == SignaturesVerify /\ SphincsVerifies

(* Of one key no tweak hashes two different inputs, which is what makes a  *)
(* collision of one chain, tree or scheme useless in another: in the       *)
(* digests of a key and of what was signed with it.                        *)
OneInputPerTweak == OneInput(XmssHashed) /\ OneInput(SphincsHashed)
=============================================================================
