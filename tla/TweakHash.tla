----------------------------- MODULE TweakHash -----------------------------
(***************************************************************************)
(* The tweaked hash of crates/xmss/src/hash.rs and crates/sphincs/src/     *)
(* hash.rs, without collisions: a digest is what was hashed.  A tweak is   *)
(* the sequence of the numbers its bytes are laid out from.  What is no    *)
(* digest (a seed, a message, a counter) is a sequence of length one.      *)
(***************************************************************************)
EXTENDS Integers, Sequences, FiniteSets, SequencesExt

TweakHashOf(pp, tweak, payload) == <<pp, tweak, payload>>

\* The digests, with those they were computed from.
WithInputs(digests) == digests \cup {d \in UNION {ToSet(e[3]) : e \in digests} : Len(d) # 1}

\* Every digest that these were computed from in so many steps, themselves among them.
HashedIn(digests, steps) ==
  LET seen[k \in 0..steps] == IF k = 0 THEN digests ELSE WithInputs(seen[k - 1])
  IN  seen[steps]

\* No two of the digests hash different inputs under one tweak.
OneInput(digests) == Cardinality({<<d[1], d[2]>> : d \in digests}) = Cardinality(digests)

TotalOf(s) ==
  LET sum[k \in 0..Len(s)] == IF k = 0 THEN 0 ELSE sum[k - 1] + s[k]
  IN  sum[Len(s)]

\* A digest's digits make a codeword when they have the sum that was fixed, so
\* that no codeword is above another; << >> is none.  A word of the digest that
\* is too large has no digits.
CodewordOf(digits, sum) == IF digits # << >> /\ TotalOf(digits) = sum THEN digits ELSE << >>

\* The first of the trials that were good, or -1.
FirstOf(good) == IF good = {} THEN -1 ELSE CHOOSE k \in good : \A j \in good : k <= j

\* Along a chain, a hash for each tweak.
Iterate(pp, tweaks, start) ==
  LET value[k \in 0..Len(tweaks)] ==
        IF k = 0 THEN start ELSE TweakHashOf(pp, tweaks[k], <<value[k - 1]>>)
  IN  value[Len(tweaks)]

\* Up a tree from a leaf: at every level the sibling goes on the other side.
FoldPath(pp, tweaks, leaf, index, path) ==
  LET current[level \in 0..Len(path)] ==
        IF level = 0 THEN leaf
        ELSE TweakHashOf(pp, tweaks[level],
               IF (index \div 2^(level - 1)) % 2 = 0
               THEN <<current[level - 1], path[level]>>
               ELSE <<path[level], current[level - 1]>>)
  IN  current[Len(path)]
=============================================================================
