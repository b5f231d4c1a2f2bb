-------------------------------- MODULE GPow --------------------------------
(***************************************************************************)
(* The powers of g and their reverse index (lean_vm/src/cpu/hints.rs), with *)
(* the ways the interpreter asks it (cpu/execute.rs).  An address is stored *)
(* as a power and inverted when it is used.  The index is a hash table of  *)
(* the exponents that were noted; the first word it misses makes it index  *)
(* every power there is.                                                   *)
(*                                                                         *)
(* A word is its exponent.  Those from MaxCells on are never covered; they *)
(* stand for zero too, which is no power.  (g has order 2^64 - 1.)         *)
(***************************************************************************)
EXTENDS Integers, Sequences

CONSTANTS
  MinIndex,    \* the least length of the index
  Seeded,      \* the index is made to cover, and note, up to this exponent
  MaxCells,    \* exponents that can be covered
  LargestSize, \* how far the size of a buffer is looked for
  MaxWord,
  Mixes        \* what the multiplicative mix may give for each word

ASSUME GPowAssumption ==
  /\ {MinIndex, Seeded, MaxCells, LargestSize, MaxWord} \subseteq Nat
  /\ MinIndex > 0 /\ Seeded < MaxCells /\ LargestSize < MaxCells /\ MaxCells <= MaxWord + 1
  /\ Mixes \subseteq [0..MaxWord -> Nat]

VARIABLES g,        \* how many powers are covered, which are noted, the index, whether all are
          mix,      \* the mix
          answer    \* what was asked last, and the exponent that came back

gpowVars == <<g, mix, answer>>

Absent   == -1
Endless  == -2
NoAnswer == [of |-> -1, k |-> Absent]

NextPowerOfTwo(n) == CHOOSE p \in {2^i : i \in 0..n} : p >= n /\ p < 2 * n
Longest(n, m) == IF n > m THEN n ELSE m

\* An entry is an exponent plus one, or 0.
SlotOf(x, len) == mix[x] % len
Chain(x, len) == [d \in 0..len - 1 |-> ((SlotOf(x, len) + d) % len) + 1]

\* The first slot of the chain that is empty or holds x, or Endless.
Probe(index, x) ==
  LET chain == Chain(x, Len(index))
      ends  == {d \in DOMAIN chain : index[chain[d]] \in {0, x + 1}}
  IN  IF ends = {} THEN Endless ELSE chain[CHOOSE d \in ends : \A e \in ends : d <= e]

Put1(index, k) == [index EXCEPT ![Probe(index, k)] = k + 1]

Widen(t) ==
  LET len == Longest(MinIndex, NextPowerOfTwo(2 * Len(t.noted) + 1))
      placed[i \in 0..Len(t.noted)] ==
        IF i = 0 THEN [s \in 1..len |-> 0] ELSE Put1(placed[i - 1], t.noted[i])
  IN  [t EXCEPT !.index = placed[Len(t.noted)]]

\* Widened first, even for an exponent that was noted before.
Note(t, k) ==
  LET w    == IF 2 * Len(t.noted) >= Len(t.index) THEN Widen(t) ELSE t
      slot == Probe(w.index, k)
  IN  IF slot = Endless \/ w.index[slot] = k + 1 THEN w
      ELSE [w EXCEPT !.index = Put1(@, k), !.noted = Append(@, k)]

NoteAll(t, from, to) ==
  LET after[k \in from - 1..to] == IF k = from - 1 THEN t ELSE Note(after[k - 1], k)
  IN  after[to]

\* Variant: powers that are added once all are indexed are not.
GrowToUnnoted(t, upto) == IF upto < t.covered THEN t ELSE [t EXCEPT !.covered = upto + 1]

GrowTo(t, upto) ==
  IF upto < t.covered THEN t
  ELSE LET longer == [t EXCEPT !.covered = upto + 1]
       IN  IF t.dense THEN NoteAll(longer, t.covered, upto) ELSE longer

New(upto) ==
  NoteAll([covered |-> upto + 1, noted |-> << >>, dense |-> FALSE,
           index |-> [s \in 1..Longest(MinIndex, NextPowerOfTwo(2 * (upto + 1))) |-> 0]], 0, upto)

Lookup(t, x) ==
  LET slot == Probe(t.index, x)
  IN  IF slot = Endless THEN Endless ELSE t.index[slot] - 1

Densely(t) == Widen([t EXCEPT !.dense = TRUE, !.noted = [i \in 1..t.covered |-> i - 1]])

\* What is found, and the index it leaves.
Log(t, x) ==
  LET k == Lookup(t, x)
  IN  IF k # Absent \/ t.dense \/ Len(t.noted) = t.covered THEN [t |-> t, k |-> k]
      ELSE [t |-> Densely(t), k |-> Lookup(Densely(t), x)]

\* The size of a buffer, and a pointer that is followed: asked once, and again
\* with more powers.
LogReaching(t, x, upto) ==
  LET first == Log(t, x)
  IN  IF first.k # Absent THEN first ELSE Log(GrowTo(first.t, upto), x)

\* The frames of a loop: the powers are doubled until they cover as many frames
\* as there is memory for.
LogSpan(t, x, maxSpan) ==
  LET tried[i \in 0..MaxCells] ==
        IF i = 0 THEN Log(t, x)
        ELSE LET r == tried[i - 1]
             IN  IF r.k # Absent \/ r.t.covered > maxSpan THEN r
                 ELSE Log(GrowTo(r.t, IF 2 * r.t.covered < maxSpan THEN 2 * r.t.covered ELSE maxSpan), x)
  IN  tried[MaxCells]

-----------------------------------------------------------------------------
GPowInit == mix \in Mixes /\ g = New(Seeded) /\ answer = NoAnswer

\* A step, an allocation or a frame of the fill covers what it may address.
Cover ==
  /\ \E upto \in g.covered..MaxCells - 1 : g' = GrowTo(g, upto)
  /\ answer' = NoAnswer /\ UNCHANGED mix

\* An address is stored.
Announce ==
  /\ \E k \in 0..g.covered - 1 : g' = Note(g, k)
  /\ answer' = NoAnswer /\ UNCHANGED mix

Answered(x, r) == g' = r.t /\ answer' = [of |-> x, k |-> r.k] /\ UNCHANGED mix

\* An address is used.
Invert       == \E x \in 0..MaxWord : Answered(x, Log(g, x))
InvertSize   == \E x \in 0..MaxWord : Answered(x, LogReaching(g, x, LargestSize))
InvertSpan   == \E x \in 0..MaxWord, maxSpan \in 0..MaxCells - 1 : Answered(x, LogSpan(g, x, maxSpan))

GPowNext == Cover \/ Announce \/ Invert \/ InvertSize \/ InvertSpan

GPowSpec == GPowInit /\ [][GPowNext]_gpowVars

-----------------------------------------------------------------------------
(* Whatever was noted, covered later or asked before, a word is found if   *)
(* and only if it is a covered power, and as the exponent it has; every    *)
(* search ends.  ("slow, never wrong", hints.rs:30.)                       *)
LogInvertsPow ==
  answer # NoAnswer => answer.k = IF answer.of < g.covered THEN answer.of ELSE Absent
=============================================================================
