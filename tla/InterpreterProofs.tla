-------------------------- MODULE InterpreterProofs -------------------------
(***************************************************************************)
(* Proofs about what the interpreter keeps: the memory (WriteOnce), for    *)
(* every field, every program and every number of cells, and the index of  *)
(* the powers of g (GPow), for every mix, every size and every order of    *)
(* the calls.                                                              *)
(*                                                                         *)
(* A memory only grows. A written cell keeps its value, and a link lasts   *)
(* until both its ends are written; what a row needs of memory when it is  *)
(* executed is kept by growth (RowsHold, LinksAgree, CellsAreWriteOnce).   *)
(*                                                                         *)
(* The index never gives a wrong exponent (LogsInvertPowers).  It is a     *)
(* hash table that is searched linearly and never loses an entry; it is in *)
(* order when each exponent noted is in it once with no empty slot before  *)
(* it on its chain (IndexOk), when it has more slots than exponents, so    *)
(* that a search ends (Room), and when all powers covered are noted once   *)
(* it is dense (FullTable).                                                *)
(***************************************************************************)
EXTENDS WriteOnce, GPow, Induction

\* What holds of the memory between two instructions: unwritten cells are
\* zero, linked cells are equal and linked both ways.
Sound(m) ==
    /\ m \in Memories
    /\ ~m.conflict
    /\ \A c \in Cells : ~Written(m, c) => m.val[c] = Zero
    /\ \A c \in Cells : \A p \in m.links[c] :
        /\ m.state[c] # "Unwritten" /\ m.state[p] # "Unwritten"
        /\ m.val[c] = m.val[p]
        /\ m.state[p] = "Linked" => c \in m.links[p]

Grows(m, n) ==
    /\ \A c \in Cells : Written(m, c) => Written(n, c) /\ n.val[c] = m.val[c]
    /\ \A c \in Cells : \A p \in m.links[c] :
        \/ p \in n.links[c]
        \/ Written(n, c) /\ Written(n, p) /\ n.val[c] = n.val[p]

Triple == Cells \X Cells \X Cells

AllWritten(m, t) == \A i \in 1 .. 3 : Written(m, t[i])

\* What a row leaves behind: its cells are written, or the two cells of a DEREF
\* are linked.
RowStands(r, m) ==
    \/ r = NoRow
    \/ \E t \in Triple : /\ r = Row("xor", t, Zero) /\ AllWritten(m, t)
                         /\ m.val[t[3]] = Add(m.val[t[1]], m.val[t[2]])
    \/ \E t \in Triple : /\ r = Row("mul", t, Zero) /\ AllWritten(m, t)
                         /\ m.val[t[3]] = Mul(m.val[t[1]], m.val[t[2]])
    \/ \E c \in Cells, k \in Words :
        r = Row("set", <<c>>, k) /\ Written(m, c) /\ m.val[c] = k
    \/ \E t \in Triple : \E d \in Derefs :
        /\ r = Row("deref", t, d[2])
        /\ Written(m, t[1]) /\ Cell(m.val[t[1]], d[2]) = t[2]
        /\ \/ Written(m, t[2]) /\ Written(m, t[3]) /\ m.val[t[2]] = m.val[t[3]]
           \/ t[3] \in m.links[t[2]]
    \/ \E t \in Triple : /\ r = Row("jump", t, Zero) /\ AllWritten(m, t)
                         /\ \A i \in 1 .. 3 : InK(m.val[t[i]])
    \/ \E h \in HashOperands :
        /\ r = Row("blake2s", h, Zero) /\ AllWritten(m, h.ins)
        /\ Written(m, h.out[1]) /\ Written(m, h.out[2])
        /\ \A i \in 1 .. 3 : Canonical(m.val[h.ins[i]])
        /\ <<m.val[h.out[1]], m.val[h.out[2]]>> = Digest(m, h.ins)

IInv ==
    /\ TypeOK
    /\ Sound(mem)
    /\ RowStands(row, mem)

-----------------------------------------------------------------------------
(***************************************************************************)
(* Growth.                                                                 *)
(***************************************************************************)

\* A memory grows into itself, and growth composes.
LEMMA GrowsReflexive ==
    ASSUME NEW m PROVE Grows(m, m)
  BY DEF Grows

LEMMA GrowsTransitive ==
    ASSUME NEW m \in Memories, NEW n \in Memories, NEW o,
           Grows(m, n), Grows(n, o)
    PROVE  Grows(m, o)
<1>1. ASSUME NEW c \in Cells, Written(m, c) PROVE Written(o, c) /\ o.val[c] = m.val[c]
  BY <1>1 DEF Grows
<1>2. ASSUME NEW c \in Cells, NEW p \in m.links[c]
      PROVE  \/ p \in o.links[c]
             \/ Written(o, c) /\ Written(o, p) /\ o.val[c] = o.val[p]
  <2>1. p \in Cells
    BY DEF Memories
  <2>2. CASE p \in n.links[c]
    BY <2>2 DEF Grows
  <2>3. CASE Written(n, c) /\ Written(n, p) /\ n.val[c] = n.val[p]
    BY <2>1, <2>3 DEF Grows
  <2> QED BY <2>2, <2>3 DEF Grows
<1> QED BY <1>1, <1>2 DEF Grows

\* The operands of BLAKE2s are cells.
LEMMA HashCells ==
    ASSUME NEW h \in HashOperands
    PROVE  /\ \A i \in 1 .. 3 : h.ins[i] \in Cells
           /\ h.out[1] \in Cells /\ h.out[2] \in Cells
<1>1. h \in [ins : Cells \X Cells \X Cells, out : Cells \X Cells]
  BY WriteOnceAssumption
<1>2. h.ins \in Cells \X Cells \X Cells /\ h.out \in Cells \X Cells
  BY <1>1
<1> QED BY <1>2

\* A row that stands keeps standing: trace rows are read from the final image.
LEMMA RowsStand ==
    ASSUME NEW r, NEW m \in Memories, NEW n \in Memories, Grows(m, n), RowStands(r, m)
    PROVE  RowStands(r, n)
<1> USE DEF Grows
<1>1. CASE r = NoRow
  BY <1>1 DEF RowStands
<1>2. CASE \E t \in Triple : /\ r = Row("xor", t, Zero) /\ AllWritten(m, t)
                             /\ m.val[t[3]] = Add(m.val[t[1]], m.val[t[2]])
  <2>1. PICK t \in Triple : /\ r = Row("xor", t, Zero) /\ AllWritten(m, t)
                            /\ m.val[t[3]] = Add(m.val[t[1]], m.val[t[2]])
    BY <1>2
  <2>2. /\ t[1] \in Cells /\ t[2] \in Cells /\ t[3] \in Cells
    BY DEF Triple
  <2>3. /\ n.val[t[1]] = m.val[t[1]] /\ n.val[t[2]] = m.val[t[2]]
        /\ n.val[t[3]] = m.val[t[3]] /\ AllWritten(n, t)
    BY <2>1, <2>2 DEF AllWritten
  <2>4. n.val[t[3]] = Add(n.val[t[1]], n.val[t[2]])
    BY <2>1, <2>3
  <2> QED BY <2>1, <2>3, <2>4 DEF RowStands
<1>3. CASE \E t \in Triple : /\ r = Row("mul", t, Zero) /\ AllWritten(m, t)
                             /\ m.val[t[3]] = Mul(m.val[t[1]], m.val[t[2]])
  <2>1. PICK t \in Triple : /\ r = Row("mul", t, Zero) /\ AllWritten(m, t)
                            /\ m.val[t[3]] = Mul(m.val[t[1]], m.val[t[2]])
    BY <1>3
  <2>2. /\ t[1] \in Cells /\ t[2] \in Cells /\ t[3] \in Cells
    BY DEF Triple
  <2>3. /\ n.val[t[1]] = m.val[t[1]] /\ n.val[t[2]] = m.val[t[2]]
        /\ n.val[t[3]] = m.val[t[3]] /\ AllWritten(n, t)
    BY <2>1, <2>2 DEF AllWritten
  <2>4. n.val[t[3]] = Mul(n.val[t[1]], n.val[t[2]])
    BY <2>1, <2>3
  <2> QED BY <2>1, <2>3, <2>4 DEF RowStands
<1>4. CASE \E c \in Cells, k \in Words :
              r = Row("set", <<c>>, k) /\ Written(m, c) /\ m.val[c] = k
  <2>1. PICK c \in Cells, k \in Words : r = Row("set", <<c>>, k) /\ Written(m, c) /\ m.val[c] = k
    BY <1>4
  <2>2. Written(n, c) /\ n.val[c] = k
    BY <2>1
  <2>3. \E a \in Cells, b \in Words : r = Row("set", <<a>>, b) /\ Written(n, a) /\ n.val[a] = b
    BY <2>1, <2>2
  <2> QED BY <2>3, Zenon DEF RowStands
<1>5. CASE \E t \in Triple : \E d \in Derefs :
              /\ r = Row("deref", t, d[2])
              /\ Written(m, t[1]) /\ Cell(m.val[t[1]], d[2]) = t[2]
              /\ \/ Written(m, t[2]) /\ Written(m, t[3]) /\ m.val[t[2]] = m.val[t[3]]
                 \/ t[3] \in m.links[t[2]]
  <2>1. PICK t \in Triple, d \in Derefs :
              /\ r = Row("deref", t, d[2])
              /\ Written(m, t[1]) /\ Cell(m.val[t[1]], d[2]) = t[2]
              /\ \/ Written(m, t[2]) /\ Written(m, t[3]) /\ m.val[t[2]] = m.val[t[3]]
                 \/ t[3] \in m.links[t[2]]
    BY <1>5
  <2>2. /\ t[1] \in Cells /\ t[2] \in Cells /\ t[3] \in Cells
    BY DEF Triple
  <2>3. Written(n, t[1]) /\ n.val[t[1]] = m.val[t[1]]
    BY <2>1, <2>2
  <2>4. \/ Written(n, t[2]) /\ Written(n, t[3]) /\ n.val[t[2]] = n.val[t[3]]
        \/ t[3] \in n.links[t[2]]
    <3>1. CASE Written(m, t[2]) /\ Written(m, t[3]) /\ m.val[t[2]] = m.val[t[3]]
      BY <2>2, <3>1
    <3>2. CASE t[3] \in m.links[t[2]]
      BY <2>2, <3>2
    <3> QED BY <2>1, <3>1, <3>2
  <2> QED BY <2>1, <2>3, <2>4 DEF RowStands
<1>6. CASE \E t \in Triple : /\ r = Row("jump", t, Zero) /\ AllWritten(m, t)
                             /\ \A i \in 1 .. 3 : InK(m.val[t[i]])
  <2>1. PICK t \in Triple : /\ r = Row("jump", t, Zero) /\ AllWritten(m, t)
                            /\ \A i \in 1 .. 3 : InK(m.val[t[i]])
    BY <1>6
  <2>2. \A i \in 1 .. 3 : t[i] \in Cells
    BY DEF Triple
  <2>3. AllWritten(n, t) /\ \A i \in 1 .. 3 : n.val[t[i]] = m.val[t[i]]
    BY <2>1, <2>2 DEF AllWritten
  <2>4. \A i \in 1 .. 3 : InK(n.val[t[i]])
    BY <2>1, <2>3
  <2> QED BY <2>1, <2>3, <2>4 DEF RowStands
<1>7. CASE \E h \in HashOperands :
              /\ r = Row("blake2s", h, Zero) /\ AllWritten(m, h.ins)
              /\ Written(m, h.out[1]) /\ Written(m, h.out[2])
              /\ \A i \in 1 .. 3 : Canonical(m.val[h.ins[i]])
              /\ <<m.val[h.out[1]], m.val[h.out[2]]>> = Digest(m, h.ins)
  <2>1. PICK h \in HashOperands :
              /\ r = Row("blake2s", h, Zero) /\ AllWritten(m, h.ins)
              /\ Written(m, h.out[1]) /\ Written(m, h.out[2])
              /\ \A i \in 1 .. 3 : Canonical(m.val[h.ins[i]])
              /\ <<m.val[h.out[1]], m.val[h.out[2]]>> = Digest(m, h.ins)
    BY <1>7
  <2>2. /\ \A i \in 1 .. 3 : h.ins[i] \in Cells
        /\ h.out[1] \in Cells /\ h.out[2] \in Cells
    BY HashCells
  <2>3. /\ AllWritten(n, h.ins) /\ \A i \in 1 .. 3 : n.val[h.ins[i]] = m.val[h.ins[i]]
        /\ Written(n, h.out[1]) /\ n.val[h.out[1]] = m.val[h.out[1]]
        /\ Written(n, h.out[2]) /\ n.val[h.out[2]] = m.val[h.out[2]]
    BY <2>1, <2>2 DEF AllWritten
  <2>4. \A i \in 1 .. 3 : Canonical(n.val[h.ins[i]])
    BY <2>1, <2>3
  <2>5. <<n.val[h.out[1]], n.val[h.out[2]]>> = Digest(n, h.ins)
    <3>1. Digest(n, h.ins) = Digest(m, h.ins)
      BY <2>3 DEF Digest
    <3> QED BY <2>1, <2>3, <3>1
  <2> QED BY <2>1, <2>3, <2>4, <2>5 DEF RowStands
<1> QED BY <1>1, <1>2, <1>3, <1>4, <1>5, <1>6, <1>7 DEF RowStands

-----------------------------------------------------------------------------
(***************************************************************************)
(* The operations of Mem keep the memory sound, and grow it.               *)
(***************************************************************************)

\* The reach of a write contains its start, and the links of its linked cells.
LEMMA ReachClosed ==
    ASSUME NEW m \in Memories, NEW start \in Cells
    PROVE  /\ start \in Reach(m, start) /\ Reach(m, start) \subseteq Cells
           /\ \A c \in Reach(m, start) :
                m.state[c] = "Linked" => m.links[c] \subseteq Reach(m, start)
<1>1. CASE m.state[start] # "Linked"
  BY <1>1 DEF Reach
<1>2. CASE m.state[start] = "Linked"
  <2> DEFINE R == {c \in Cells : \A cs \in SUBSET Cells :
                     start \in cs /\ Closed(m, start, cs) => c \in cs}
  <2>1. Reach(m, start) = R
    BY <1>2 DEF Reach
  <2>2. start \in R /\ R \subseteq Cells
    OBVIOUS
  <2>3. ASSUME NEW c \in R, m.state[c] = "Linked", NEW p \in m.links[c]
        PROVE  p \in R
    <3>1. p \in Cells
      BY <2>2 DEF Memories
    <3>2. ASSUME NEW cs \in SUBSET Cells, start \in cs, Closed(m, start, cs)
          PROVE  p \in cs
      BY <2>3, <3>2 DEF Closed
    <3> QED BY <3>1, <3>2
  <2> HIDE DEF R
  <2> QED BY <2>1, <2>2, <2>3
<1> QED BY <1>1, <1>2

\* What a write that is not a conflict leaves.
LEMMA PutFields ==
    ASSUME NEW m \in Memories, NEW start \in Cells, NEW v \in Words,
           NEW n, n = Put(m, start, v), ~n.conflict,
           NEW reached, reached = Reach(m, start)
    PROVE  /\ n \in Memories /\ ~m.conflict
           /\ \A c \in reached : Written(m, c) => m.val[c] = v
           /\ \A c \in Cells :
               /\ n.val[c] = IF c \in reached THEN v ELSE m.val[c]
               /\ n.state[c] = IF c \in reached THEN "Written" ELSE m.state[c]
               /\ n.links[c] = IF c \in reached /\ m.state[c] = "Linked"
                               THEN {} ELSE m.links[c]
<1>1. reached \subseteq Cells
  BY ReachClosed
<1>2. ~Conflicts(m, start, v)
  BY DEF Put, Memories
<1>3. n = [m EXCEPT !.val = [c \in Cells |-> IF c \in reached THEN v ELSE @[c]],
                    !.state = [c \in Cells |-> IF c \in reached THEN "Written" ELSE @[c]],
                    !.links = [c \in Cells |->
                                 IF c \in reached /\ m.state[c] = "Linked"
                                 THEN {} ELSE @[c]]]
  BY <1>2 DEF Put
<1>4. /\ n.val = [c \in Cells |-> IF c \in reached THEN v ELSE m.val[c]]
      /\ n.state = [c \in Cells |-> IF c \in reached THEN "Written" ELSE m.state[c]]
      /\ n.links = [c \in Cells |-> IF c \in reached /\ m.state[c] = "Linked"
                                    THEN {} ELSE m.links[c]]
      /\ n.unread = m.unread /\ n.conflict = m.conflict
      /\ n = [val |-> n.val, state |-> n.state, links |-> n.links,
              unread |-> n.unread, conflict |-> n.conflict]
  BY <1>3 DEF Memories
<1>5. n \in Memories
  <2>1. n.val \in [Cells -> Words]
    BY <1>4 DEF Memories
  <2>2. n.state \in [Cells -> States]
    BY <1>4 DEF Memories, States
  <2>3. n.links \in [Cells -> SUBSET Cells]
    BY <1>4 DEF Memories
  <2>4. n.unread \in SUBSET Cells /\ n.conflict \in BOOLEAN
    BY <1>4 DEF Memories
  <2> QED BY <1>4, <2>1, <2>2, <2>3, <2>4 DEF Memories
<1>6. \A c \in reached : Written(m, c) => m.val[c] = v
  BY <1>2 DEF Conflicts
<1> QED BY <1>4, <1>5, <1>6

\* A write is carried to every linked cell: the memory stays sound and grows,
\* and the cell holds the value.
LEMMA PutGrows ==
    ASSUME NEW m, Sound(m), NEW start \in Cells, NEW v \in Words,
           NEW n, n = Put(m, start, v), ~n.conflict
    PROVE  Sound(n) /\ Grows(m, n) /\ Written(n, start) /\ n.val[start] = v
<1> DEFINE reached == Reach(m, start)
<1>1. m \in Memories
  BY DEF Sound
<1>2. /\ start \in reached /\ reached \subseteq Cells
      /\ \A c \in reached : m.state[c] = "Linked" => m.links[c] \subseteq reached
  BY <1>1, ReachClosed
<1>3. /\ n \in Memories
      /\ \A c \in reached : Written(m, c) => m.val[c] = v
      /\ \A c \in Cells :
          /\ n.val[c] = IF c \in reached THEN v ELSE m.val[c]
          /\ n.state[c] = IF c \in reached THEN "Written" ELSE m.state[c]
          /\ n.links[c] = IF c \in reached /\ m.state[c] = "Linked"
                          THEN {} ELSE m.links[c]
  BY <1>1, PutFields
<1> HIDE DEF reached
<1>4. \A c \in Cells : m.state[c] \in States /\ m.links[c] \subseteq Cells
  BY <1>1 DEF Memories
<1>5. ASSUME NEW c \in Cells, NEW p \in n.links[c]
      PROVE  /\ n.state[c] # "Unwritten" /\ n.state[p] # "Unwritten"
             /\ n.val[c] = n.val[p]
             /\ n.state[p] = "Linked" => c \in n.links[p]
  <2>1. /\ p \in m.links[c] /\ p \in Cells
        /\ ~(c \in reached /\ m.state[c] = "Linked")
    BY <1>3, <1>4
  <2>2. /\ m.state[c] # "Unwritten" /\ m.state[p] # "Unwritten"
        /\ m.val[c] = m.val[p]
        /\ m.state[p] = "Linked" => c \in m.links[p]
    BY <2>1 DEF Sound
  <2>3. n.state[c] # "Unwritten" /\ n.state[p] # "Unwritten"
    BY <1>3, <2>1, <2>2
  <2>4. n.state[p] = "Linked" => c \in n.links[p]
    BY <1>3, <2>1, <2>2
  <2>5. CASE c \in reached
    <3>1. m.val[c] = v /\ n.val[c] = v
      BY <1>3, <1>4, <2>1, <2>2, <2>5 DEF Written, States
    <3> QED BY <1>3, <2>1, <2>2, <2>3, <2>4, <3>1
  <2>6. CASE c \notin reached /\ p \in reached
    <3>1. m.state[p] = "Written"
      BY <1>2, <1>4, <2>1, <2>2, <2>6 DEF States
    <3>2. m.val[p] = v /\ n.val[p] = v
      BY <1>3, <2>1, <2>6, <3>1 DEF Written
    <3> QED BY <1>3, <2>1, <2>2, <2>3, <2>4, <2>6, <3>2
  <2>7. CASE c \notin reached /\ p \notin reached
    BY <1>3, <2>1, <2>2, <2>3, <2>4, <2>7
  <2> QED BY <2>5, <2>6, <2>7
<1>6. ASSUME NEW c \in Cells, ~Written(n, c) PROVE n.val[c] = Zero
  BY <1>3, <1>6 DEF Sound, Written
<1>7. Sound(n)
  BY <1>3, <1>5, <1>6 DEF Sound
<1>8. ASSUME NEW c \in Cells, Written(m, c) PROVE Written(n, c) /\ n.val[c] = m.val[c]
  BY <1>3, <1>8 DEF Written
<1>9. ASSUME NEW c \in Cells, NEW p \in m.links[c]
      PROVE  \/ p \in n.links[c]
             \/ Written(n, c) /\ Written(n, p) /\ n.val[c] = n.val[p]
  <2>1. CASE c \in reached /\ m.state[c] = "Linked"
    <3>1. p \in reached /\ p \in Cells
      BY <1>2, <1>4, <2>1
    <3> QED BY <1>3, <2>1, <3>1 DEF Written
  <2>2. CASE ~(c \in reached /\ m.state[c] = "Linked")
    BY <1>3, <2>2
  <2> QED BY <2>1, <2>2
<1>10. Grows(m, n)
  BY <1>8, <1>9 DEF Grows
<1>11. Written(n, start) /\ n.val[start] = v
  BY <1>2, <1>3 DEF Written
<1> QED BY <1>7, <1>10, <1>11

\* A read pins what it reads.
LEMMA ReadGrows ==
    ASSUME NEW m, Sound(m), NEW cs \in SUBSET Cells, NEW n, n = Read(m, cs)
    PROVE  /\ Sound(n) /\ Grows(m, n)
           /\ n.val = m.val /\ \A c \in cs : Written(n, c)
<1>1. m \in Memories
  BY DEF Sound
<1>2. /\ n.val = m.val /\ n.links = m.links /\ n.conflict = m.conflict
      /\ n.state = [c \in Cells |-> IF c \in cs THEN "Written" ELSE m.state[c]]
      /\ n.unread = m.unread \cup {c \in cs : ~Written(m, c)}
      /\ n = [val |-> n.val, state |-> n.state, links |-> n.links,
              unread |-> n.unread, conflict |-> n.conflict]
  BY <1>1 DEF Read, Memories
<1>3. n \in Memories
  <2>1. n.state \in [Cells -> States]
    BY <1>1, <1>2 DEF Memories, States
  <2>2. n.unread \in SUBSET Cells
    BY <1>1, <1>2 DEF Memories
  <2>3. n.val \in [Cells -> Words] /\ n.links \in [Cells -> SUBSET Cells]
        /\ n.conflict \in BOOLEAN
    BY <1>1, <1>2 DEF Memories
  <2> QED BY <1>2, <2>1, <2>2, <2>3 DEF Memories
<1>4. \A c \in Cells : m.links[c] \subseteq Cells
  BY <1>1 DEF Memories
<1>5. Sound(n)
  <2>1. \A c \in Cells : ~Written(n, c) => n.val[c] = Zero
    BY <1>2 DEF Sound, Written
  <2>2. ASSUME NEW c \in Cells, NEW p \in n.links[c]
        PROVE  /\ n.state[c] # "Unwritten" /\ n.state[p] # "Unwritten"
               /\ n.val[c] = n.val[p]
               /\ n.state[p] = "Linked" => c \in n.links[p]
    <3>1. /\ m.state[c] # "Unwritten" /\ m.state[p] # "Unwritten"
          /\ m.val[c] = m.val[p] /\ p \in Cells
          /\ m.state[p] = "Linked" => c \in m.links[p]
      BY <1>2, <1>4 DEF Sound
    <3> QED BY <1>2, <3>1
  <2>3. ~n.conflict
    BY <1>2 DEF Sound
  <2> QED BY <1>3, <2>1, <2>2, <2>3 DEF Sound
<1>6. Grows(m, n)
  BY <1>2 DEF Grows, Written
<1>7. \A c \in cs : Written(n, c)
  BY <1>2 DEF Written
<1> QED BY <1>2, <1>5, <1>6, <1>7

\* A link joins two cells that are both zero.
LEMMA LinkGrows ==
    ASSUME NEW m, Sound(m), NEW a \in Cells, NEW b \in Cells,
           ~Written(m, a), ~Written(m, b), NEW n, n = Link(m, a, b)
    PROVE  Sound(n) /\ Grows(m, n) /\ b \in n.links[a] /\ n.val = m.val
<1>1. m \in Memories
  BY DEF Sound
<1>2. /\ n.val = m.val /\ n.conflict = m.conflict /\ n.unread = m.unread
      /\ n.state = [c \in Cells |-> IF c \in {a, b} /\ m.state[c] = "Unwritten"
                                    THEN "Linked" ELSE m.state[c]]
      /\ n.links = [c \in Cells |-> m.links[c] \cup {p \in {a, b} : {c, p} = {a, b}}]
      /\ n = [val |-> n.val, state |-> n.state, links |-> n.links,
              unread |-> n.unread, conflict |-> n.conflict]
  BY <1>1 DEF Link, Memories
<1>3. n \in Memories
  <2>1. n.state \in [Cells -> States]
    BY <1>1, <1>2 DEF Memories, States
  <2>2. n.links \in [Cells -> SUBSET Cells]
    BY <1>1, <1>2 DEF Memories
  <2>3. n.val \in [Cells -> Words] /\ n.unread \in SUBSET Cells
        /\ n.conflict \in BOOLEAN
    BY <1>1, <1>2 DEF Memories
  <2> QED BY <1>2, <2>1, <2>2, <2>3 DEF Memories
<1>4. \A c \in Cells : m.links[c] \subseteq Cells /\ m.state[c] \in States
  BY <1>1 DEF Memories
<1>5. m.val[a] = Zero /\ m.val[b] = Zero
  BY DEF Sound
<1>6. \A c \in Cells : \A p \in n.links[c] :
        p \in m.links[c] \/ (c = a /\ p = b) \/ (c = b /\ p = a)
  BY <1>2
<1>7. b \in n.links[a] /\ a \in n.links[b]
  BY <1>2
<1>8. \A c \in Cells : m.links[c] \subseteq n.links[c]
  BY <1>2
<1>9. n.state[a] # "Unwritten" /\ n.state[b] # "Unwritten"
  BY <1>2
<1>10. \A c \in Cells :
        /\ m.state[c] # "Unwritten" => n.state[c] = m.state[c]
        /\ Written(n, c) <=> Written(m, c)
  BY <1>2 DEF Written
<1>11. ASSUME NEW c \in Cells, NEW p \in n.links[c]
       PROVE  /\ n.state[c] # "Unwritten" /\ n.state[p] # "Unwritten"
              /\ n.val[c] = n.val[p]
              /\ n.state[p] = "Linked" => c \in n.links[p]
  <2>1. CASE p \in m.links[c]
    <3>1. /\ m.state[c] # "Unwritten" /\ m.state[p] # "Unwritten"
          /\ m.val[c] = m.val[p] /\ p \in Cells
          /\ m.state[p] = "Linked" => c \in m.links[p]
      BY <1>4, <2>1 DEF Sound
    <3> QED BY <1>2, <1>8, <1>10, <3>1
  <2>2. CASE (c = a /\ p = b) \/ (c = b /\ p = a)
    BY <1>2, <1>5, <1>7, <1>9, <2>2
  <2> QED BY <1>6, <2>1, <2>2
<1>12. Sound(n)
  <2>1. \A c \in Cells : ~Written(n, c) => n.val[c] = Zero
    BY <1>2, <1>10 DEF Sound
  <2>2. ~n.conflict
    BY <1>2 DEF Sound
  <2> QED BY <1>3, <1>11, <2>1, <2>2 DEF Sound
<1>13. Grows(m, n)
  BY <1>2, <1>8, <1>10 DEF Grows
<1> QED BY <1>2, <1>7, <1>12, <1>13

\* What a DEREF does to its two cells: they are both written, or linked.
LEMMA EqualizeGrows ==
    ASSUME NEW m, Sound(m), NEW a \in Cells, NEW b \in Cells,
           NEW n, n = Equalize(m, a, b), ~n.conflict
    PROVE  /\ Sound(n) /\ Grows(m, n)
           /\ \/ Written(n, a) /\ Written(n, b) /\ n.val[a] = n.val[b]
              \/ b \in n.links[a]
<1>1. \A c \in Cells : m.val[c] \in Words
  BY DEF Sound, Memories
<1>2. CASE Written(m, a)
  <2>1. n = Put(m, b, m.val[a])
    BY <1>2 DEF Equalize
  <2>2. Sound(n) /\ Grows(m, n) /\ Written(n, b) /\ n.val[b] = m.val[a]
    BY <1>1, <2>1, PutGrows
  <2>3. Written(n, a) /\ n.val[a] = m.val[a]
    BY <1>2, <2>2 DEF Grows
  <2> QED BY <2>2, <2>3
<1>3. CASE ~Written(m, a) /\ Written(m, b)
  <2>1. n = Put(m, a, m.val[b])
    BY <1>3 DEF Equalize
  <2>2. Sound(n) /\ Grows(m, n) /\ Written(n, a) /\ n.val[a] = m.val[b]
    BY <1>1, <2>1, PutGrows
  <2>3. Written(n, b) /\ n.val[b] = m.val[b]
    BY <1>3, <2>2 DEF Grows
  <2> QED BY <2>2, <2>3
<1>4. CASE ~Written(m, a) /\ ~Written(m, b)
  <2>1. n = Link(m, a, b)
    BY <1>4 DEF Equalize
  <2> QED BY <1>4, <2>1, LinkGrows
<1> QED BY <1>2, <1>3, <1>4

-----------------------------------------------------------------------------
(***************************************************************************)
(* The steps.                                                              *)
(***************************************************************************)

\* What WrittenForGood says of one step.
Keeps ==
    \A c \in Cells : Written(mem, c) => Written(mem', c) /\ mem'.val[c] = mem.val[c]

LEMMA FailKeeps ==
    ASSUME IInv, NEW kind \in Faults, Fail(kind)
    PROVE  IInv' /\ Keeps
<1>1. mem' = mem /\ steps' = steps /\ row' = row /\ fault' = kind
  BY DEF Fail
<1>2. TypeOK'
  BY <1>1 DEF IInv, TypeOK
<1>3. Sound(mem') /\ RowStands(row', mem')
  BY <1>1 DEF IInv
<1>4. Keeps
  BY <1>1 DEF Keeps
<1> QED BY <1>2, <1>3, <1>4 DEF IInv

\* An instruction whose memory is sound and has grown, and whose row stands.
LEMMA CommitKeeps ==
    ASSUME IInv, Running, NEW m, NEW r, Commit(m, r),
           ~m.conflict => Sound(m) /\ Grows(mem, m) /\ RowStands(r, m)
    PROVE  IInv' /\ Keeps
<1>1. CASE m.conflict
  BY <1>1, FailKeeps DEF Commit, Faults
<1>2. CASE ~m.conflict
  <2>1. /\ mem' = m /\ steps' = steps + 1 /\ fault' = fault
        /\ row' = row \/ row' = r
    BY <1>2 DEF Commit
  <2>2. Sound(m) /\ Grows(mem, m) /\ RowStands(r, m)
    BY <1>2
  <2>3. m \in Memories /\ mem \in Memories
    BY <2>2 DEF Sound, IInv
  <2>4. steps + 1 \in 0 .. MaxSteps
    BY WriteOnceAssumption DEF IInv, TypeOK, Running
  <2>5. TypeOK'
    BY <2>1, <2>3, <2>4 DEF IInv, TypeOK
  <2>6. RowStands(row, m)
    BY <2>2, <2>3, RowsStand DEF IInv
  <2>7. Sound(mem') /\ RowStands(row', mem')
    BY <2>1, <2>2, <2>6
  <2>8. Keeps
    BY <2>1, <2>2 DEF Keeps, Grows
  <2> QED BY <2>5, <2>7, <2>8 DEF IInv
<1> QED BY <1>1, <1>2

\* A row of XOR or of MUL: its operands are read, its result is written.
LEMMA ArithmeticRow ==
    ASSUME NEW m, Sound(m), NEW read, Sound(read), NEW n, Sound(n),
           Grows(m, read), Grows(read, n), NEW t \in Triple,
           Written(read, t[1]), Written(read, t[2]), Written(n, t[3])
    PROVE  /\ Grows(m, n) /\ AllWritten(n, t)
           /\ n.val[t[1]] = read.val[t[1]] /\ n.val[t[2]] = read.val[t[2]]
<1>1. t[1] \in Cells /\ t[2] \in Cells /\ t[3] \in Cells
  BY DEF Triple
<1>2. /\ Written(n, t[1]) /\ n.val[t[1]] = read.val[t[1]]
      /\ Written(n, t[2]) /\ n.val[t[2]] = read.val[t[2]]
  BY <1>1 DEF Grows
<1>3. Grows(m, n)
  BY GrowsTransitive DEF Sound
<1>4. AllWritten(n, t)
  BY <1>2 DEF AllWritten
<1> QED BY <1>2, <1>3, <1>4

\* The words are closed under the operations of the field.
LEMMA WordsClosed ==
    /\ \A m : Sound(m) => \A c \in Cells : m.val[c] \in Words
    /\ \A x, y \in Words : Add(x, y) \in Words /\ Mul(x, y) \in Words
    /\ \A x \in Words : Inv(x) \in Words
<1>1. ASSUME NEW m, Sound(m), NEW c \in Cells PROVE m.val[c] \in Words
  BY <1>1 DEF Sound, Memories
<1> QED BY <1>1, WriteOnceAssumption

LEMMA XorKeeps ==
    ASSUME IInv, NEW t \in Operands, Xor(t)
    PROVE  IInv' /\ Keeps
<1> DEFINE m == Read(mem, {t[1], t[2]})
           v == Add(m.val[t[1]], m.val[t[2]])
           n == Put(m, t[3], v)
           r == Row("xor", t, Zero)
<1>1. t \in Triple /\ t[1] \in Cells /\ t[2] \in Cells /\ t[3] \in Cells
  BY WriteOnceAssumption DEF Triple
<1>2. Running /\ Commit(n, r)
  BY DEF Xor
<1>3. /\ Sound(mem) /\ Sound(m) /\ Grows(mem, m)
      /\ Written(m, t[1]) /\ Written(m, t[2])
  <2>1. {t[1], t[2]} \in SUBSET Cells
    BY <1>1
  <2> QED BY <2>1, ReadGrows DEF IInv
<1> HIDE DEF m
<1>4. v \in Words
  BY <1>1, <1>3, WordsClosed
<1> HIDE DEF v
<1>5. ASSUME ~n.conflict PROVE Sound(n) /\ Grows(mem, n) /\ RowStands(r, n)
  <2>1. Sound(n) /\ Grows(m, n) /\ Written(n, t[3]) /\ n.val[t[3]] = v
    BY <1>1, <1>3, <1>4, <1>5, PutGrows
  <2> HIDE DEF n
  <2>2. /\ Grows(mem, n) /\ AllWritten(n, t)
        /\ n.val[t[1]] = m.val[t[1]] /\ n.val[t[2]] = m.val[t[2]]
    BY <1>1, <1>3, <2>1, ArithmeticRow
  <2>3. n.val[t[3]] = Add(n.val[t[1]], n.val[t[2]])
    BY <2>1, <2>2 DEF v
  <2> QED BY <1>1, <2>1, <2>2, <2>3 DEF RowStands
<1> HIDE DEF n, r
<1> QED BY <1>2, <1>5, CommitKeeps

LEMMA MulKeeps ==
    ASSUME IInv, NEW t \in Operands, MulRow(t)
    PROVE  IInv' /\ Keeps
<1> DEFINE quotient == Mul(mem.val[t[3]], Inv(mem.val[Known(t)]))
           solved == IF BackSolves(t) THEN Put(mem, Unknown(t), quotient) ELSE mem
           m == Read(solved, {t[1], t[2]})
           v == Mul(m.val[t[1]], m.val[t[2]])
           n == IF solved.conflict THEN solved ELSE Put(m, t[3], v)
           r == Row("mul", t, Zero)
<1>1. t \in Triple /\ t[1] \in Cells /\ t[2] \in Cells /\ t[3] \in Cells
  BY WriteOnceAssumption DEF Triple
<1>2. CASE BackSolves(t) /\ mem.val[Known(t)] = Zero
  BY <1>2, FailKeeps DEF MulRow, Faults
<1>3. CASE ~(BackSolves(t) /\ mem.val[Known(t)] = Zero)
  <2>1. Running /\ Commit(n, r)
    BY <1>3 DEF MulRow
  <2>2. Sound(mem)
    BY DEF IInv
  <2>3. Known(t) \in Cells /\ Unknown(t) \in Cells
    BY <1>1 DEF Known, Unknown
  <2>4. quotient \in Words
    BY <1>1, <2>2, <2>3, WordsClosed
  <2> HIDE DEF quotient
  <2>5. ~solved.conflict => Sound(solved) /\ Grows(mem, solved)
    BY <2>2, <2>3, <2>4, PutGrows, GrowsReflexive
  <2> HIDE DEF solved
  <2>6. ASSUME ~n.conflict PROVE Sound(n) /\ Grows(mem, n) /\ RowStands(r, n)
    <3>1. ~solved.conflict /\ n = Put(m, t[3], v)
      BY <2>6
    <3>2. Sound(solved) /\ Grows(mem, solved)
      BY <2>5, <3>1
    <3>3. Sound(m) /\ Grows(solved, m) /\ Written(m, t[1]) /\ Written(m, t[2])
      <4>1. {t[1], t[2]} \in SUBSET Cells
        BY <1>1
      <4> QED BY <3>2, <4>1, ReadGrows
    <3> HIDE DEF m
    <3>4. v \in Words
      BY <1>1, <3>3, WordsClosed
    <3>5. v = Mul(m.val[t[1]], m.val[t[2]])
      OBVIOUS
    <3> HIDE DEF n, v
    <3>6. Sound(n) /\ Grows(m, n) /\ Written(n, t[3]) /\ n.val[t[3]] = v
      BY <1>1, <2>6, <3>1, <3>3, <3>4, PutGrows
    <3>7. /\ Grows(solved, n) /\ AllWritten(n, t)
          /\ n.val[t[1]] = m.val[t[1]] /\ n.val[t[2]] = m.val[t[2]]
      BY <1>1, <3>2, <3>3, <3>6, ArithmeticRow
    <3>8. n.val[t[3]] = Mul(n.val[t[1]], n.val[t[2]])
      BY <3>5, <3>6, <3>7
    <3>9. Grows(mem, n)
      BY <2>2, <3>2, <3>6, <3>7, GrowsTransitive DEF Sound
    <3> QED BY <1>1, <3>6, <3>7, <3>8, <3>9 DEF RowStands
  <2> HIDE DEF n, r
  <2> QED BY <2>1, <2>6, CommitKeeps
<1> QED BY <1>2, <1>3

LEMMA SetKeeps ==
    ASSUME IInv, NEW c \in Cells, NEW k \in Constants, Set(c, k)
    PROVE  IInv' /\ Keeps
<1> DEFINE n == Put(mem, c, k)
           r == Row("set", <<c>>, k)
<1>1. Running /\ Commit(n, r)
  BY DEF Set
<1>2. k \in Words
  BY WriteOnceAssumption
<1>3. ASSUME ~n.conflict PROVE Sound(n) /\ Grows(mem, n) /\ RowStands(r, n)
  <2>1. Sound(n) /\ Grows(mem, n) /\ Written(n, c) /\ n.val[c] = k
    BY <1>2, <1>3, PutGrows DEF IInv
  <2> HIDE DEF n
  <2> QED BY <1>2, <2>1 DEF RowStands
<1> HIDE DEF n, r
<1> QED BY <1>1, <1>3, CommitKeeps

LEMMA HintKeeps ==
    ASSUME IInv, NEW c \in Cells, NEW k \in Constants, Hint(c, k)
    PROVE  IInv' /\ Keeps
<1> DEFINE n == Put(mem, c, k)
<1>1. CASE n.conflict
  BY <1>1, FailKeeps DEF Hint, Faults
<1>2. CASE ~n.conflict
  <2>1. mem' = n /\ UNCHANGED <<steps, fault, row>>
    BY <1>2 DEF Hint
  <2>2. Sound(n) /\ Grows(mem, n)
    <3>1. k \in Words
      BY WriteOnceAssumption
    <3> QED BY <1>2, <3>1, PutGrows DEF IInv
  <2> HIDE DEF n
  <2>3. n \in Memories /\ mem \in Memories
    BY <2>2 DEF Sound, IInv
  <2>4. RowStands(row, n)
    BY <2>2, <2>3, RowsStand DEF IInv
  <2>5. TypeOK'
    BY <2>1, <2>3 DEF IInv, TypeOK
  <2>6. Sound(mem') /\ RowStands(row', mem')
    BY <2>1, <2>2, <2>4
  <2>7. Keeps
    BY <2>1, <2>2 DEF Keeps, Grows
  <2> QED BY <2>5, <2>6, <2>7 DEF IInv
<1> QED BY <1>1, <1>2

\* The operands of a DEREF are cells, and so is what its pointer reaches.
LEMMA DerefTypes ==
    ASSUME NEW d \in Derefs
    PROVE  /\ d[1] \in Cells /\ d[3] \in Cells
           /\ \A x \in Words : Cell(x, d[2]) # NoCell => Cell(x, d[2]) \in Cells
<1>1. d \in Cells \X Nat \X Cells
  BY WriteOnceAssumption
<1>2. \A x \in Words : Cell(x, d[2]) \in Cells \cup {NoCell}
  BY WriteOnceAssumption
<1> QED BY <1>1, <1>2

LEMMA DerefCellKeeps ==
    ASSUME IInv, NEW d \in Derefs, DerefCell(d[1], d[2], d[3])
    PROVE  IInv' /\ Keeps
<1> DEFINE m == Read(mem, {d[1]})
           a2 == Cell(m.val[d[1]], d[2])
           n == Equalize(m, a2, d[3])
           t == <<d[1], a2, d[3]>>
           r == Row("deref", t, d[2])
<1>1. CASE a2 = NoCell
  BY <1>1, FailKeeps DEF DerefCell, Faults
<1>2. CASE a2 # NoCell
  <2>1. Running /\ Commit(n, r)
    BY <1>2 DEF DerefCell
  <2>2. /\ Sound(mem) /\ Sound(m) /\ Grows(mem, m) /\ Written(m, d[1])
    <3>1. {d[1]} \in SUBSET Cells
      BY DerefTypes
    <3> QED BY <3>1, ReadGrows DEF IInv
  <2> HIDE DEF m
  <2>3. d[1] \in Cells /\ a2 \in Cells /\ d[3] \in Cells
    BY <1>2, <2>2, WordsClosed, DerefTypes
  <2>4. a2 = Cell(m.val[d[1]], d[2])
    OBVIOUS
  <2> HIDE DEF a2
  <2>5. ASSUME ~n.conflict PROVE Sound(n) /\ Grows(mem, n) /\ RowStands(r, n)
    <3>1. /\ Sound(n) /\ Grows(m, n)
          /\ \/ Written(n, a2) /\ Written(n, d[3]) /\ n.val[a2] = n.val[d[3]]
             \/ d[3] \in n.links[a2]
      BY <2>2, <2>3, <2>5, EqualizeGrows
    <3> HIDE DEF n
    <3>2. Written(n, d[1]) /\ n.val[d[1]] = m.val[d[1]]
      BY <2>2, <2>3, <3>1 DEF Grows
    <3>3. Grows(mem, n)
      BY <2>2, <3>1, GrowsTransitive DEF Sound
    <3>4. t \in Triple /\ t[1] = d[1] /\ t[2] = a2 /\ t[3] = d[3]
      BY <2>3 DEF Triple
    <3> HIDE DEF t
    <3>5. Written(n, t[1]) /\ Cell(n.val[t[1]], d[2]) = t[2]
      BY <2>4, <3>2, <3>4
    <3>6. \/ Written(n, t[2]) /\ Written(n, t[3]) /\ n.val[t[2]] = n.val[t[3]]
          \/ t[3] \in n.links[t[2]]
      BY <3>1, <3>4
    <3>7. RowStands(r, n)
      BY <3>4, <3>5, <3>6 DEF RowStands
    <3> QED BY <3>1, <3>3, <3>7
  <2> HIDE DEF n, r
  <2> QED BY <2>1, <2>5, CommitKeeps
<1> QED BY <1>1, <1>2

LEMMA DerefPointerKeeps ==
    ASSUME IInv, NEW d \in Derefs, NEW k \in Pointers, DerefPointer(d[1], d[2], k)
    PROVE  IInv' /\ Keeps
<1> DEFINE m == Read(mem, {d[1]})
           a2 == Cell(m.val[d[1]], d[2])
           n == Put(m, a2, k)
           r == Row("set", <<a2>>, k)
<1>1. CASE a2 = NoCell
  BY <1>1, FailKeeps DEF DerefPointer, Faults
<1>2. CASE a2 # NoCell
  <2>1. Running /\ Commit(n, r)
    BY <1>2 DEF DerefPointer
  <2>2. /\ Sound(mem) /\ Sound(m) /\ Grows(mem, m)
    <3>1. {d[1]} \in SUBSET Cells
      BY DerefTypes
    <3> QED BY <3>1, ReadGrows DEF IInv
  <2> HIDE DEF m
  <2>3. a2 \in Cells /\ k \in Words
    <3>1. Pointers \subseteq Words
      BY WriteOnceAssumption
    <3> QED BY <1>2, <2>2, <3>1, WordsClosed, DerefTypes
  <2> HIDE DEF a2
  <2>4. ASSUME ~n.conflict PROVE Sound(n) /\ Grows(mem, n) /\ RowStands(r, n)
    <3>1. Sound(n) /\ Grows(m, n) /\ Written(n, a2) /\ n.val[a2] = k
      BY <2>2, <2>3, <2>4, PutGrows
    <3> HIDE DEF n
    <3>2. Grows(mem, n)
      BY <2>2, <3>1, GrowsTransitive DEF Sound
    <3>3. RowStands(r, n)
      BY <2>3, <3>1 DEF RowStands
    <3> QED BY <3>1, <3>2, <3>3
  <2> HIDE DEF n, r
  <2> QED BY <2>1, <2>4, CommitKeeps
<1> QED BY <1>1, <1>2

LEMMA JumpKeeps ==
    ASSUME IInv, NEW t \in Operands, Jump(t)
    PROVE  IInv' /\ Keeps
<1> DEFINE m == Read(mem, {t[i] : i \in 1 .. 3})
           r == Row("jump", t, Zero)
<1>1. t \in Triple /\ \A i \in 1 .. 3 : t[i] \in Cells
  BY WriteOnceAssumption DEF Triple
<1>2. CASE ~ \A i \in 1 .. 3 : InK(m.val[t[i]])
  BY <1>2, FailKeeps DEF Jump, Faults
<1>3. CASE \A i \in 1 .. 3 : InK(m.val[t[i]])
  <2>1. Running /\ Commit(m, r)
    BY <1>3 DEF Jump
  <2>2. Sound(m) /\ Grows(mem, m) /\ AllWritten(m, t)
    <3>1. {t[i] : i \in 1 .. 3} \in SUBSET Cells
      BY <1>1
    <3>2. Sound(m) /\ Grows(mem, m) /\ \A c \in {t[i] : i \in 1 .. 3} : Written(m, c)
      BY <3>1, ReadGrows DEF IInv
    <3> QED BY <3>2 DEF AllWritten
  <2> HIDE DEF m
  <2>3. RowStands(r, m)
    BY <1>1, <1>3, <2>2 DEF RowStands
  <2> HIDE DEF r
  <2> QED BY <2>1, <2>2, <2>3, CommitKeeps
<1> QED BY <1>2, <1>3

LEMMA Blake2sKeeps ==
    ASSUME IInv, NEW h \in HashOperands, Blake2s(h)
    PROVE  IInv' /\ Keeps
<1> DEFINE m == Read(mem, {h.ins[i] : i \in 1 .. 3})
           v == Digest(m, h.ins)
           first == Put(m, h.out[1], v[1])
           n == IF first.conflict THEN first ELSE Put(first, h.out[2], v[2])
           r == Row("blake2s", h, Zero)
<1>1. /\ \A i \in 1 .. 3 : h.ins[i] \in Cells
      /\ h.out[1] \in Cells /\ h.out[2] \in Cells
  BY HashCells
<1>2. CASE ~ \A i \in 1 .. 3 : Canonical(m.val[h.ins[i]])
  BY <1>2, FailKeeps DEF Blake2s, Faults
<1>3. CASE \A i \in 1 .. 3 : Canonical(m.val[h.ins[i]])
  <2>1. Running /\ Commit(n, r)
    BY <1>3 DEF Blake2s
  <2>2. Sound(mem) /\ Sound(m) /\ Grows(mem, m) /\ AllWritten(m, h.ins)
    <3>1. {h.ins[i] : i \in 1 .. 3} \in SUBSET Cells
      BY <1>1
    <3>2. /\ Sound(mem) /\ Sound(m) /\ Grows(mem, m)
          /\ \A c \in {h.ins[i] : i \in 1 .. 3} : Written(m, c)
      BY <3>1, ReadGrows DEF IInv
    <3> QED BY <3>2 DEF AllWritten
  <2> HIDE DEF m
  <2>3. v \in Words \X Words
    <3>1. \A x, y, z \in Words : Hash(x, y, z) \in Words \X Words
      BY WriteOnceAssumption
    <3>2. /\ m.val[h.ins[1]] \in Words /\ m.val[h.ins[2]] \in Words
          /\ m.val[h.ins[3]] \in Words
      BY <1>1, <2>2, WordsClosed
    <3> QED BY <3>1, <3>2 DEF Digest
  <2>4. v = Digest(m, h.ins)
    OBVIOUS
  <2> HIDE DEF v
  <2>5. v[1] \in Words /\ v[2] \in Words /\ v = <<v[1], v[2]>>
    BY <2>3
  <2>6. ASSUME ~first.conflict
        PROVE  /\ Sound(first) /\ Grows(m, first)
               /\ Written(first, h.out[1]) /\ first.val[h.out[1]] = v[1]
    BY <1>1, <2>2, <2>5, <2>6, PutGrows
  <2> HIDE DEF first
  <2>7. ASSUME ~n.conflict PROVE Sound(n) /\ Grows(mem, n) /\ RowStands(r, n)
    <3>1. ~first.conflict /\ n = Put(first, h.out[2], v[2])
      BY <2>7
    <3>2. /\ Sound(n) /\ Grows(first, n)
          /\ Written(n, h.out[2]) /\ n.val[h.out[2]] = v[2]
      BY <1>1, <2>5, <2>6, <2>7, <3>1, PutGrows
    <3> HIDE DEF n
    <3>3. Written(n, h.out[1]) /\ n.val[h.out[1]] = v[1]
      BY <1>1, <2>6, <3>1, <3>2 DEF Grows
    <3>4. Grows(m, n) /\ Grows(mem, n)
      BY <2>2, <2>6, <3>1, <3>2, GrowsTransitive DEF Sound
    <3>5. AllWritten(n, h.ins) /\ \A i \in 1 .. 3 : n.val[h.ins[i]] = m.val[h.ins[i]]
      BY <1>1, <2>2, <3>4 DEF Grows, AllWritten
    <3>6. \A i \in 1 .. 3 : Canonical(n.val[h.ins[i]])
      BY <1>3, <3>5
    <3>7. Digest(n, h.ins) = v
      BY <2>4, <3>5 DEF Digest
    <3>8. <<n.val[h.out[1]], n.val[h.out[2]]>> = Digest(n, h.ins)
      BY <2>5, <3>2, <3>3, <3>7
    <3>9. RowStands(r, n)
      BY <3>2, <3>3, <3>5, <3>6, <3>8 DEF RowStands
    <3> QED BY <3>2, <3>4, <3>9
  <2> HIDE DEF n, r
  <2> QED BY <2>1, <2>7, CommitKeeps
<1> QED BY <1>2, <1>3

LEMMA NextKeeps ==
    ASSUME IInv, Next
    PROVE  IInv' /\ Keeps
<1>1. ASSUME NEW t \in Operands, Xor(t) PROVE IInv' /\ Keeps
  BY <1>1, XorKeeps
<1>2. ASSUME NEW t \in Operands, MulRow(t) PROVE IInv' /\ Keeps
  BY <1>2, MulKeeps
<1>3. ASSUME NEW t \in Operands, Jump(t) PROVE IInv' /\ Keeps
  BY <1>3, JumpKeeps
<1>4. ASSUME NEW c \in Cells, NEW k \in Constants, Set(c, k) PROVE IInv' /\ Keeps
  BY <1>4, SetKeeps
<1>5. ASSUME NEW c \in Cells, NEW k \in Constants, Hint(c, k) PROVE IInv' /\ Keeps
  BY <1>5, HintKeeps
<1>6. ASSUME NEW d \in Derefs, DerefCell(d[1], d[2], d[3]) PROVE IInv' /\ Keeps
  BY <1>6, DerefCellKeeps
<1>7. ASSUME NEW d \in Derefs, NEW k \in Pointers, DerefPointer(d[1], d[2], k)
      PROVE  IInv' /\ Keeps
  BY <1>7, DerefPointerKeeps
<1>8. ASSUME NEW h \in HashOperands, Blake2s(h) PROVE IInv' /\ Keeps
  BY <1>8, Blake2sKeeps
<1>9. CASE StopAtLimit
  BY <1>9, FailKeeps DEF StopAtLimit, Faults
<1> QED BY <1>1, <1>2, <1>3, <1>4, <1>5, <1>6, <1>7, <1>8, <1>9 DEF Next

LEMMA InitHolds ==
    ASSUME Init
    PROVE  IInv
<1>1. PICK pi \in Inputs : mem = Put(Put(Empty, 0, pi[1]), 1, pi[2])
  BY DEF Init
<1>2. pi[1] \in Words /\ pi[2] \in Words /\ 0 \in Cells /\ 1 \in Cells /\ Zero \in Words
  BY WriteOnceAssumption
<1> DEFINE first == Put(Empty, 0, pi[1])
           second == Put(first, 1, pi[2])
<1>3. Sound(Empty) /\ Empty.state[0] = "Unwritten"
  BY <1>2 DEF Sound, Empty, Memories, States, Written
<1>4. ~first.conflict /\ first.state[1] = "Unwritten"
  <2>1. Reach(Empty, 0) = {0}
    BY <1>3 DEF Reach
  <2>2. ~Conflicts(Empty, 0, pi[1])
    BY <1>3, <2>1 DEF Conflicts, Written
  <2>3. Empty \in Memories /\ ~Empty.conflict /\ Empty.state[1] = "Unwritten"
    BY <1>2, <1>3 DEF Sound, Empty
  <2>4. ~first.conflict
    BY <2>2, <2>3 DEF Put, Memories
  <2>5. first.state[1] = IF 1 \in {0} THEN "Written" ELSE Empty.state[1]
    BY <1>2, <2>1, <2>3, <2>4, PutFields
  <2> QED BY <2>3, <2>4, <2>5
<1>5. Sound(first)
  BY <1>2, <1>3, <1>4, PutGrows
<1> HIDE DEF first
<1>6. ~second.conflict
  <2>1. Reach(first, 1) = {1}
    BY <1>4 DEF Reach
  <2>2. ~Conflicts(first, 1, pi[2])
    BY <1>4, <2>1 DEF Conflicts, Written
  <2>3. first \in Memories /\ ~first.conflict
    BY <1>5 DEF Sound
  <2> QED BY <2>2, <2>3 DEF Put, Memories
<1>7. Sound(second)
  BY <1>2, <1>5, <1>6, PutGrows
<1>8. mem = second
  BY <1>1 DEF first
<1> HIDE DEF second
<1>9. Sound(mem)
  BY <1>7, <1>8
<1>10. TypeOK
  BY <1>9, WriteOnceAssumption DEF Sound, TypeOK, Init, Faults
<1>11. RowStands(row, mem)
  BY DEF Init, RowStands
<1> QED BY <1>9, <1>10, <1>11 DEF IInv

-----------------------------------------------------------------------------
\* The inductive invariant: memory is sound and the watched row stands.
THEOREM WriteOnceInvariant == Spec => []IInv
<1>1. Init => IInv
  BY InitHolds
<1>2. IInv /\ [Next]_vars => IInv'
  <2>1. CASE Next
    BY <2>1, NextKeeps
  <2>2. CASE UNCHANGED vars
    <3>1. mem' = mem /\ steps' = steps /\ fault' = fault /\ row' = row
      BY <2>2 DEF vars
    <3>2. ASSUME IInv PROVE TypeOK' /\ Sound(mem') /\ RowStands(row', mem')
      BY <3>1, <3>2 DEF IInv, TypeOK
    <3> QED BY <3>2 DEF IInv
  <2> QED BY <2>1, <2>2
<1> QED BY <1>1, <1>2, PTL DEF Spec

\* A row executed at any moment holds of the final image: rows are read back
\* from it (cpu/trace.rs).
THEOREM RowsHold == Spec => []RowHoldsToTheEnd
<1>1. IInv => RowHoldsToTheEnd
  <2> SUFFICES ASSUME Sound(mem), RowStands(row, mem) PROVE Holds(row, mem)
    BY DEF IInv, RowHoldsToTheEnd
  <2>1. CASE row = NoRow
    BY <2>1 DEF Holds, NoRow
  <2>2. CASE \E t \in Triple : /\ row = Row("xor", t, Zero) /\ AllWritten(mem, t)
                               /\ mem.val[t[3]] = Add(mem.val[t[1]], mem.val[t[2]])
    BY <2>2 DEF Holds, Row
  <2>3. CASE \E t \in Triple : /\ row = Row("mul", t, Zero) /\ AllWritten(mem, t)
                               /\ mem.val[t[3]] = Mul(mem.val[t[1]], mem.val[t[2]])
    BY <2>3 DEF Holds, Row
  <2>4. CASE \E c \in Cells, k \in Words :
               row = Row("set", <<c>>, k) /\ Written(mem, c) /\ mem.val[c] = k
    BY <2>4 DEF Holds, Row
  <2>5. CASE \E t \in Triple : \E d \in Derefs :
               /\ row = Row("deref", t, d[2])
               /\ Written(mem, t[1]) /\ Cell(mem.val[t[1]], d[2]) = t[2]
               /\ \/ Written(mem, t[2]) /\ Written(mem, t[3])
                     /\ mem.val[t[2]] = mem.val[t[3]]
                  \/ t[3] \in mem.links[t[2]]
    <3>1. PICK t \in Triple, d \in Derefs :
               /\ row = Row("deref", t, d[2])
               /\ Written(mem, t[1]) /\ Cell(mem.val[t[1]], d[2]) = t[2]
               /\ \/ Written(mem, t[2]) /\ Written(mem, t[3])
                     /\ mem.val[t[2]] = mem.val[t[3]]
                  \/ t[3] \in mem.links[t[2]]
      BY <2>5
    <3>2. mem.val[t[2]] = mem.val[t[3]]
      BY <3>1 DEF Sound, Triple
    <3> QED BY <3>1, <3>2 DEF Holds, Row
  <2>6. CASE \E t \in Triple : /\ row = Row("jump", t, Zero) /\ AllWritten(mem, t)
                               /\ \A i \in 1 .. 3 : InK(mem.val[t[i]])
    BY <2>6 DEF Holds, Row
  <2>7. CASE \E h \in HashOperands :
               /\ row = Row("blake2s", h, Zero) /\ AllWritten(mem, h.ins)
               /\ Written(mem, h.out[1]) /\ Written(mem, h.out[2])
               /\ \A i \in 1 .. 3 : Canonical(mem.val[h.ins[i]])
               /\ <<mem.val[h.out[1]], mem.val[h.out[2]]>> = Digest(mem, h.ins)
    BY <2>7 DEF Holds, Row
  <2> QED BY <2>1, <2>2, <2>3, <2>4, <2>5, <2>6, <2>7 DEF RowStands
<1> QED BY <1>1, WriteOnceInvariant, PTL

\* Linked cells agree in every state, along any chain of links.
THEOREM LinksAgree == Spec => []LinkedCellsAgree
<1>1. IInv => LinkedCellsAgree
  BY DEF IInv, Sound, LinkedCellsAgree
<1> QED BY <1>1, WriteOnceInvariant, PTL

\* A written cell never changes.
THEOREM CellsAreWriteOnce == Spec => WrittenForGood
<1>1. ASSUME IInv, [Next]_vars PROVE [\A c \in Cells : Written(mem, c) =>
            Written(mem', c) /\ mem'.val[c] = mem.val[c]]_vars
  BY <1>1, NextKeeps DEF Keeps
<1> QED BY <1>1, WriteOnceInvariant, PTL DEF Spec, WrittenForGood

-----------------------------------------------------------------------------
(***************************************************************************)
(* The index as a hash table: a word is looked for along its chain, up to  *)
(* the first slot that is empty or its own.                                *)
(***************************************************************************)

\* The powers of two grow past every number.
LEMMA PowersGrow ==
    ASSUME NEW n \in Nat
    PROVE  2 ^ n \in Nat /\ n < 2 ^ n
<1> DEFINE S == {k \in 0 .. n : 2 ^ k \in Nat /\ k < 2 ^ k}
<1>1. 0 \in S
  <2>1. 2 ^ 0 = 1
    OBVIOUS
  <2>2. QED
    BY <2>1
<1>2. ASSUME NEW k \in 0 .. n - 1, k \in S
      PROVE  k + 1 \in S
  <2>1. 2 ^ (k + 1) = 2 * 2 ^ k /\ 2 ^ k \in Nat
    BY Doubling
  <2>2. k < 2 ^ k
    BY <1>2
  <2> DEFINE w == 2 ^ k
             v == 2 ^ (k + 1)
  <2>3. v = 2 * w /\ w \in Nat /\ k < w
    BY <2>1, <2>2
  <2> HIDE DEF w, v
  <2>4. v \in Nat /\ k + 1 < v
    BY <2>3
  <2>5. QED
    BY <2>4 DEF v
<1>3. \A k \in 0 .. n : k \in S
  <2> HIDE DEF S
  <2>1. QED
    BY <1>1, <1>2, UpTo
<1>4. QED
  BY <1>3

\* There is a power of two from n up to its double.
LEMMA NextPower ==
    ASSUME NEW n \in Nat \ {0}
    PROVE  NextPowerOfTwo(n) \in Nat /\ NextPowerOfTwo(n) >= n
<1> DEFINE T == {i \in Nat : 2 ^ i >= n}
           P == {2 ^ i : i \in 0 .. n}
<1>1. n \in T
  BY PowersGrow
<1>2. PICK m \in T : \A i \in T : m <= i
  <2>1. T \in SUBSET Nat
    OBVIOUS
  <2> HIDE DEF T
  <2>2. QED
    BY <1>1, <2>1, LeastElement
<1>3. m \in 0 .. n
  BY <1>1, <1>2
<1> DEFINE w == 2 ^ m
<1>4. w \in P /\ w \in Nat /\ w >= n
  BY <1>2, <1>3, PowersGrow
<1>5. w < 2 * n
  <2>1. CASE m = 0
    <3>1. w = 1
      BY <2>1
    <3>2. QED
      BY <3>1
  <2>2. CASE m # 0
    <3>1. m - 1 \in Nat /\ (m - 1) + 1 = m
      BY <1>3, <2>2
    <3>2. ~(m - 1 \in T)
      BY <1>2, <1>3, <2>2
    <3>3. w = 2 * 2 ^ (m - 1) /\ 2 ^ (m - 1) \in Nat
      BY <3>1, Doubling
    <3>4. ~(2 ^ (m - 1) >= n)
      BY <3>1, <3>2
    <3> DEFINE v == 2 ^ (m - 1)
    <3>5. v \in Nat /\ w = 2 * v /\ ~(v >= n)
      BY <3>3, <3>4
    <3> HIDE DEF v, w
    <3>6. QED
      BY <3>5
  <2>3. QED
    BY <2>1, <2>2
<1> HIDE DEF w
<1>6. \A p \in P : p \in Nat
  BY PowersGrow
<1> HIDE DEF P
<1>7. NextPowerOfTwo(n) = CHOOSE p \in P : p >= n /\ p < 2 * n
  BY Zenon DEF NextPowerOfTwo, P
<1>8. NextPowerOfTwo(n) \in P /\ NextPowerOfTwo(n) >= n
  BY <1>4, <1>5, <1>7
<1>9. QED
  BY <1>6, <1>8

\* The longer of two lengths is no shorter than either.
LEMMA Lengths ==
    ASSUME NEW n \in Nat, NEW m \in Nat
    PROVE  Longest(n, m) \in Nat /\ Longest(n, m) >= n /\ Longest(n, m) >= m
BY DEF Longest

\* The words, each the exponent it is of g.
Exponents == 0 .. MaxWord

\* What can be covered is a word.
LEMMA ExponentsAreNumbers ==
    /\ Exponents \in SUBSET Nat
    /\ \A k \in 0 .. MaxCells - 1 : k \in Exponents
BY GPowAssumption DEF Exponents

\* The slots of a chain.
ChainSlot(x, len, d) == ((SlotOf(x, len) + d) % len) + 1

\* A chain passes every slot once.
LEMMA ChainCovers ==
    ASSUME mix \in [Exponents -> Nat], NEW x \in Exponents, NEW len \in Nat \ {0}
    PROVE  /\ Chain(x, len) = [d \in 0 .. len - 1 |-> ChainSlot(x, len, d)]
           /\ \A d \in 0 .. len - 1 : ChainSlot(x, len, d) \in 1 .. len
           /\ \A s \in 1 .. len : \E d \in 0 .. len - 1 : ChainSlot(x, len, d) = s
<1>1. Chain(x, len) = [d \in 0 .. len - 1 |-> ChainSlot(x, len, d)]
  BY Zenon DEF Chain, ChainSlot
<1>2. mix[x] \in Nat
  OBVIOUS
<1> DEFINE h == SlotOf(x, len)
<1>3. \A a \in Nat : a % len \in 0 .. len - 1
  BY Z3
<1>4. h \in 0 .. len - 1
  BY <1>2, <1>3 DEF SlotOf
<1>5. \A a \in 0 .. len - 1 : a % len = a /\ (a + len) % len = a
  BY Z3
<1> HIDE DEF h
<1>6. \A d : ChainSlot(x, len, d) = ((h + d) % len) + 1
  BY DEF ChainSlot, h
<1>7. ASSUME NEW d \in 0 .. len - 1
      PROVE  ChainSlot(x, len, d) \in 1 .. len
  <2>1. h + d \in Nat
    BY <1>4
  <2>2. (h + d) % len \in 0 .. len - 1
    BY <1>3, <2>1
  <2>3. QED
    BY <1>6, <2>2
<1>8. ASSUME NEW s \in 1 .. len
      PROVE  \E d \in 0 .. len - 1 : ChainSlot(x, len, d) = s
  <2> DEFINE a == s - 1
  <2>1. a \in 0 .. len - 1 /\ a + 1 = s
    OBVIOUS
  <2> HIDE DEF a
  <2>2. CASE a >= h
    <3>1. a - h \in 0 .. len - 1 /\ h + (a - h) = a
      BY <1>4, <2>1, <2>2
    <3>2. ChainSlot(x, len, a - h) = s
      BY <1>5, <1>6, <2>1, <3>1
    <3>3. QED
      BY <3>1, <3>2
  <2>3. CASE ~(a >= h)
    <3>1. a + len - h \in 0 .. len - 1 /\ h + (a + len - h) = a + len
      BY <1>4, <2>1, <2>3
    <3>2. ChainSlot(x, len, a + len - h) = s
      BY <1>5, <1>6, <2>1, <3>1
    <3>3. QED
      BY <3>1, <3>2
  <2>4. QED
    BY <2>2, <2>3
<1>9. QED
  BY <1>1, <1>7, <1>8

\* k is in its chain, and no slot before is empty.
Placed(index, k) ==
    \E d \in 0 .. Len(index) - 1 :
        /\ index[ChainSlot(k, Len(index), d)] = k + 1
        /\ \A e \in 0 .. d - 1 : index[ChainSlot(k, Len(index), e)] # 0

\* The index holds the exponents K, each once and where a search finds it.
IndexOk(index, K) ==
    /\ index \in [1 .. Len(index) -> Nat] /\ Len(index) \in Nat \ {0}
    /\ \A s \in 1 .. Len(index) : index[s] # 0 => index[s] - 1 \in K
    /\ \A s, u \in 1 .. Len(index) : index[s] # 0 /\ index[s] = index[u] => s = u
    /\ \A k \in K : Placed(index, k)

\* Some slot is empty.
Room(index) == \E s \in 1 .. Len(index) : index[s] = 0

\* A search ends at the first slot that is empty or holds x.
StopsAt(index, x, d) ==
    /\ Probe(index, x) = ChainSlot(x, Len(index), d)
    /\ index[ChainSlot(x, Len(index), d)] \in {0, x + 1}
    /\ \A e \in 0 .. d - 1 : index[ChainSlot(x, Len(index), e)] \notin {0, x + 1}

\* With room left, a search ends.
LEMMA SearchEnds ==
    ASSUME mix \in [Exponents -> Nat], NEW x \in Exponents, NEW index,
           index \in [1 .. Len(index) -> Nat], Len(index) \in Nat \ {0}, Room(index)
    PROVE  \E d \in 0 .. Len(index) - 1 : StopsAt(index, x, d)
<1> DEFINE len == Len(index)
           chain == Chain(x, len)
           ends == {d \in DOMAIN chain : index[chain[d]] \in {0, x + 1}}
<1>1. /\ chain = [d \in 0 .. len - 1 |-> ChainSlot(x, len, d)]
      /\ \A s \in 1 .. len : \E d \in 0 .. len - 1 : ChainSlot(x, len, d) = s
  BY ChainCovers
<1>2. DOMAIN chain = 0 .. len - 1 /\ \A d \in 0 .. len - 1 : chain[d] = ChainSlot(x, len, d)
  <2> HIDE DEF chain, len
  <2>1. QED
    BY <1>1
<1> DEFINE least == CHOOSE d \in ends : \A e \in ends : d <= e
<1>3. Probe(index, x) = IF ends = {} THEN Endless ELSE chain[least]
  BY Zenon DEF Probe
<1>4. ends # {}
  <2>1. PICK s \in 1 .. len : index[s] = 0
    BY DEF Room
  <2>2. PICK d \in 0 .. len - 1 : ChainSlot(x, len, d) = s
    BY <1>1
  <2> HIDE DEF chain, len
  <2>3. d \in ends
    BY <1>2, <2>1, <2>2
  <2>4. QED
    BY <2>3
<1>5. \A d : d \in ends <=> d \in 0 .. len - 1 /\ index[ChainSlot(x, len, d)] \in {0, x + 1}
  <2> HIDE DEF chain, len
  <2>1. QED
    BY <1>2
<1>6. ends \in SUBSET Nat
  <2> HIDE DEF ends
  <2>1. QED
    BY <1>5
<1> HIDE DEF ends
<1>7. least \in ends /\ \A e \in ends : least <= e
  <2>1. \E d \in ends : \A e \in ends : d <= e
    BY <1>4, <1>6, LeastElement
  <2>2. QED
    BY <2>1
<1> HIDE DEF least, chain
<1>8. least \in 0 .. len - 1 /\ index[ChainSlot(x, len, least)] \in {0, x + 1}
  BY <1>5, <1>7
<1>9. ASSUME NEW e \in 0 .. least - 1
      PROVE  index[ChainSlot(x, len, e)] \notin {0, x + 1}
  <2>1. e \in 0 .. len - 1 /\ ~(least <= e)
    BY <1>8
  <2>2. e \notin ends
    BY <1>7, <2>1
  <2>3. QED
    BY <1>5, <2>1, <2>2
<1>10. Probe(index, x) = ChainSlot(x, len, least)
  BY <1>2, <1>3, <1>4, <1>8
<1>11. QED
  BY <1>8, <1>9, <1>10 DEF StopsAt

\* What a search finds: x itself if it is among the exponents, and else an empty slot.
LEMMA SearchFinds ==
    ASSUME mix \in [Exponents -> Nat], NEW x \in Exponents, NEW K \in SUBSET Exponents,
           NEW index, IndexOk(index, K), Room(index)
    PROVE  /\ Probe(index, x) \in 1 .. Len(index)
           /\ index[Probe(index, x)] = IF x \in K THEN x + 1 ELSE 0
<1>1. index \in [1 .. Len(index) -> Nat] /\ Len(index) \in Nat \ {0}
  BY DEF IndexOk
<1>0. x \in Nat
  BY ExponentsAreNumbers
<1>2. PICK d \in 0 .. Len(index) - 1 : StopsAt(index, x, d)
  BY <1>1, SearchEnds
<1> DEFINE slot == ChainSlot(x, Len(index), d)
<1>3. Probe(index, x) = slot /\ index[slot] \in {0, x + 1}
  BY <1>2 DEF StopsAt
<1>4. slot \in 1 .. Len(index)
  BY <1>1, ChainCovers
<1> HIDE DEF slot
<1>5. CASE x \in K
  <2>1. PICK c \in 0 .. Len(index) - 1 :
          /\ index[ChainSlot(x, Len(index), c)] = x + 1
          /\ \A e \in 0 .. c - 1 : index[ChainSlot(x, Len(index), e)] # 0
    BY <1>5 DEF IndexOk, Placed
  <2>2. ~(c < d)
    <3>1. SUFFICES ASSUME c < d PROVE FALSE
      OBVIOUS
    <3>2. c \in 0 .. d - 1
      BY <3>1
    <3>3. index[ChainSlot(x, Len(index), c)] \notin {0, x + 1}
      BY <1>2, <3>2 DEF StopsAt
    <3>4. QED
      BY <2>1, <3>3
  <2>3. CASE c = d
    BY <1>3, <1>4, <1>5, <2>1, <2>3 DEF slot
  <2>4. CASE c > d
    <3>1. d \in 0 .. c - 1
      BY <2>4
    <3>2. index[slot] # 0
      BY <2>1, <3>1 DEF slot
    <3>3. QED
      BY <1>3, <1>4, <1>5, <3>2
  <2>5. QED
    BY <2>2, <2>3, <2>4
<1>6. CASE x \notin K
  <2>1. index[slot] # x + 1
    <3>1. SUFFICES ASSUME index[slot] = x + 1 PROVE FALSE
      OBVIOUS
    <3>2. x + 1 # 0 /\ (x + 1) - 1 = x
      BY <1>0
    <3>3. x \in K
      BY <1>4, <3>1, <3>2 DEF IndexOk
    <3>4. QED
      BY <1>6, <3>3
  <2>2. QED
    BY <1>3, <1>4, <1>6, <2>1
<1>7. QED
  BY <1>5, <1>6

\* Entering x where its search ends adds it, and moves nothing.
LEMMA EnterKeeps ==
    ASSUME mix \in [Exponents -> Nat], NEW x \in Exponents, NEW K \in SUBSET Exponents,
           NEW index, IndexOk(index, K), Room(index)
    PROVE  /\ IndexOk([index EXCEPT ![Probe(index, x)] = x + 1], K \cup {x})
           /\ Len([index EXCEPT ![Probe(index, x)] = x + 1]) = Len(index)
<1> DEFINE len == Len(index)
           slot == Probe(index, x)
           new == [index EXCEPT ![slot] = x + 1]
<1>0. x \in Nat /\ K \in SUBSET Nat
  BY ExponentsAreNumbers
<1>1. index \in [1 .. len -> Nat] /\ len \in Nat \ {0}
  BY DEF IndexOk
<1>2. slot \in 1 .. len /\ index[slot] = IF x \in K THEN x + 1 ELSE 0
  BY SearchFinds
<1>3. PICK d \in 0 .. len - 1 : StopsAt(index, x, d)
  BY <1>1, SearchEnds
<1>4. slot = ChainSlot(x, len, d)
      /\ \A e \in 0 .. d - 1 : index[ChainSlot(x, len, e)] \notin {0, x + 1}
  BY <1>3 DEF StopsAt
<1>5. \A k \in Exponents : \A e \in 0 .. len - 1 : ChainSlot(k, len, e) \in 1 .. len
  BY <1>1, ChainCovers
<1>6. /\ \A s \in 1 .. len : index[s] # 0 => index[s] - 1 \in K
      /\ \A s, u \in 1 .. len : index[s] # 0 /\ index[s] = index[u] => s = u
      /\ \A k \in K : Placed(index, k)
  BY DEF IndexOk
<1> HIDE DEF slot, len
<1>7. /\ new \in [1 .. len -> Nat] /\ new[slot] = x + 1
      /\ \A s \in 1 .. len : s # slot => new[s] = index[s]
  BY <1>0, <1>1, <1>2
<1>8. Len(new) = len
  BY <1>1, <1>7
<1> HIDE DEF new
<1>9. CASE x \in K
  <2>1. \A s \in 1 .. len : new[s] = index[s]
    BY <1>2, <1>7, <1>9
  <2>2. new = index
    BY <1>1, <1>7, <2>1
  <2>3. K \cup {x} = K
    BY <1>9
  <2>4. QED
    BY <2>2, <2>3 DEF new, slot
<1>10. CASE x \notin K
  <2>1. index[slot] = 0
    BY <1>2, <1>10
  <2>2. ASSUME NEW s \in 1 .. len, new[s] # 0
        PROVE  new[s] - 1 \in K \cup {x}
    <3>1. CASE s = slot
      BY <1>0, <1>7, <3>1
    <3>2. CASE s # slot
      BY <1>6, <1>7, <2>2, <3>2
    <3>3. QED
      BY <3>1, <3>2
  <2>3. ASSUME NEW s \in 1 .. len, index[s] = x + 1
        PROVE  FALSE
    <3>1. x + 1 # 0 /\ (x + 1) - 1 = x
      BY <1>0
    <3>2. QED
      BY <1>6, <1>10, <2>3, <3>1
  <2>4. ASSUME NEW s \in 1 .. len, NEW u \in 1 .. len, new[s] # 0, new[s] = new[u]
        PROVE  s = u
    <3>1. CASE s = slot /\ u = slot
      BY <3>1
    <3>2. CASE s = slot /\ u # slot
      BY <1>7, <2>3, <2>4, <3>2
    <3>3. CASE s # slot /\ u = slot
      BY <1>7, <2>3, <2>4, <3>3
    <3>4. CASE s # slot /\ u # slot
      BY <1>6, <1>7, <2>4, <3>4
    <3>5. QED
      BY <3>1, <3>2, <3>3, <3>4
  <2>5. ASSUME NEW k \in K
        PROVE  Placed(new, k)
    <3>1. PICK c \in 0 .. len - 1 :
            /\ index[ChainSlot(k, len, c)] = k + 1
            /\ \A e \in 0 .. c - 1 : index[ChainSlot(k, len, e)] # 0
      BY <1>6 DEF Placed, len
    <3>2. k \in Exponents /\ k + 1 # 0
      BY <1>0
    <3>3. new[ChainSlot(k, len, c)] = k + 1
      <4>1. ChainSlot(k, len, c) # slot
        BY <2>1, <3>1, <3>2
      <4>2. ChainSlot(k, len, c) \in 1 .. len
        BY <1>5, <3>2
      <4>3. QED
        BY <1>7, <3>1, <4>1, <4>2
    <3>4. ASSUME NEW e \in 0 .. c - 1
          PROVE  new[ChainSlot(k, len, e)] # 0
      <4>1. e \in 0 .. len - 1
        BY <1>1
      <4>2. ChainSlot(k, len, e) \in 1 .. len /\ index[ChainSlot(k, len, e)] # 0
        BY <1>5, <3>1, <3>2, <4>1
      <4>3. ChainSlot(k, len, e) # slot
        BY <2>1, <4>2
      <4>4. QED
        BY <1>7, <4>2, <4>3
    <3>5. QED
      BY <1>8, <3>3, <3>4 DEF Placed
  <2>6. Placed(new, x)
    <3>1. new[ChainSlot(x, len, d)] = x + 1
      BY <1>4, <1>7
    <3>2. ASSUME NEW e \in 0 .. d - 1
          PROVE  new[ChainSlot(x, len, e)] # 0
      <4>1. e \in 0 .. len - 1
        BY <1>1
      <4>2. ChainSlot(x, len, e) \in 1 .. len /\ index[ChainSlot(x, len, e)] # 0
        BY <1>4, <1>5, <4>1
      <4>3. ChainSlot(x, len, e) # slot
        BY <2>1, <4>2
      <4>4. QED
        BY <1>7, <4>2, <4>3
    <3>3. QED
      BY <1>8, <3>1, <3>2 DEF Placed
  <2>7. IndexOk(new, K \cup {x})
    <3>1. \A k \in K \cup {x} : Placed(new, k)
      BY <2>5, <2>6
    <3>2. Len(new) \in Nat \ {0} /\ new \in [1 .. Len(new) -> Nat]
      BY <1>1, <1>7, <1>8
    <3>3. /\ \A s \in 1 .. Len(new) : new[s] # 0 => new[s] - 1 \in K \cup {x}
          /\ \A s, u \in 1 .. Len(new) : new[s] # 0 /\ new[s] = new[u] => s = u
      BY <1>8, <2>2, <2>4
    <3>4. QED
      BY <3>1, <3>2, <3>3 DEF IndexOk
  <2>8. QED
    BY <1>8, <2>7 DEF new, slot, len
<1>11. QED
  BY <1>9, <1>10

\* With fewer exponents than slots, one is empty.
LEMMA RoomLeft ==
    ASSUME NEW list, NEW n \in Nat, NEW index,
           IndexOk(index, {list[i] : i \in 1 .. n}), n < Len(index)
    PROVE  Room(index)
<1> DEFINE len == Len(index)
           K == {list[i] : i \in 1 .. n}
           f == [s \in 1 .. len |-> CHOOSE i \in 1 .. n : list[i] = index[s] - 1]
<1> SUFFICES ASSUME ~Room(index) PROVE FALSE
  OBVIOUS
<1>1. len \in Nat /\ index \in [1 .. len -> Nat]
  BY DEF IndexOk
<1>2. \A s \in 1 .. len : index[s] - 1 \in K
  BY DEF IndexOk, Room
<1>3. \A s, u \in 1 .. len : index[s] = index[u] => s = u
  BY DEF IndexOk, Room
<1>4. ASSUME NEW s \in 1 .. len
      PROVE  f[s] \in 1 .. n /\ list[f[s]] = index[s] - 1
  <2>1. \E i \in 1 .. n : list[i] = index[s] - 1
    BY <1>2
  <2>2. f[s] = CHOOSE i \in 1 .. n : list[i] = index[s] - 1
    OBVIOUS
  <2> HIDE DEF f
  <2>3. QED
    BY <2>1, <2>2
<1>5. f \in Injection(1 .. len, 1 .. n)
  <2>1. f \in [1 .. len -> 1 .. n]
    <3>1. f = [s \in 1 .. len |-> f[s]]
      OBVIOUS
    <3> HIDE DEF f
    <3>2. QED
      BY <1>4, <3>1
  <2>2. ASSUME NEW s \in 1 .. len, NEW u \in 1 .. len, f[s] = f[u]
        PROVE  s = u
    <3> HIDE DEF f
    <3>1. index[s] - 1 = index[u] - 1 /\ index[s] \in Nat /\ index[u] \in Nat
      BY <1>1, <1>4, <2>2
    <3>2. index[s] = index[u]
      BY <3>1
    <3>3. QED
      BY <1>3, <3>2
  <2> HIDE DEF f
  <2>3. QED
    BY <2>1, <2>2, Fun_IsInj
<1> HIDE DEF f, K
<1>6. IsFiniteSet(1 .. n) /\ Cardinality(1 .. n) = IF 1 > n THEN 0 ELSE n - 1 + 1
  <2>1. n \in Int /\ 1 \in Int
    OBVIOUS
  <2>2. QED
    BY <2>1, FS_Interval
<1>7. Cardinality(1 .. len) = IF 1 > len THEN 0 ELSE len - 1 + 1
  BY <1>1, FS_Interval
<1>8. Cardinality(1 .. len) <= Cardinality(1 .. n)
  BY <1>5, <1>6, FS_Injection
<1>9. QED
  BY <1>1, <1>6, <1>7, <1>8

-----------------------------------------------------------------------------
(***************************************************************************)
(* The table of powers: what is noted is in the index, each power once,    *)
(* and the index has room.                                                 *)
(***************************************************************************)

\* The first n of a list, and the exponents a table has noted, as sets.
ListedTo(list, n) == {list[i] : i \in 1 .. n}
Noted(t) == ListedTo(t.noted, Len(t.noted))

\* A table in order.
TableOk(t) ==
    /\ t = [covered |-> t.covered, noted |-> t.noted, dense |-> t.dense, index |-> t.index]
    /\ t.covered \in 1 .. MaxCells /\ t.dense \in BOOLEAN
    /\ t.noted \in Seq(0 .. t.covered - 1)
    /\ \A i, j \in 1 .. Len(t.noted) : t.noted[i] = t.noted[j] => i = j
    /\ IndexOk(t.index, Noted(t))
    /\ Len(t.index) >= 2 /\ Len(t.noted) < Len(t.index)

\* Once all powers are indexed, every one that is covered is noted.
FullTable(t) == TableOk(t) /\ (t.dense => Noted(t) = 0 .. t.covered - 1)

\* A list is entered one by one.
LEMMA WidenKeeps ==
    ASSUME mix \in [Exponents -> Nat], NEW t, NEW n \in Nat \ {0},
           t.noted \in Seq(Exponents), Len(t.noted) = n
    PROVE  \E index : /\ Widen(t) = [t EXCEPT !.index = index]
                      /\ IndexOk(index, Noted(t)) /\ Len(index) >= 2 * n + 1
<1> USE GPowAssumption
<1> DEFINE list == t.noted
           len == Longest(MinIndex, NextPowerOfTwo(2 * Len(t.noted) + 1))
           empty == [s \in 1 .. len |-> 0]
           X == [1 .. len -> Nat]
           entries == [k \in 1 .. n |-> [x \in X |-> Put1(x, list[k])]]
           Body(h) == [i \in 0 .. Len(t.noted) |->
                          IF i = 0 THEN [s \in 1 .. len |-> 0] ELSE Put1(h[i - 1], t.noted[i])]
           placed == CHOOSE h : h = Body(h)
<1>1. len \in Nat /\ len >= 2 * n + 1
  <2>1. 2 * Len(t.noted) + 1 \in Nat \ {0} /\ 2 * Len(t.noted) + 1 = 2 * n + 1
    OBVIOUS
  <2>2. NextPowerOfTwo(2 * Len(t.noted) + 1) \in Nat /\ NextPowerOfTwo(2 * Len(t.noted) + 1) >= 2 * n + 1
    BY <2>1, NextPower
  <2> DEFINE power == NextPowerOfTwo(2 * Len(t.noted) + 1)
  <2>3. power \in Nat /\ power >= 2 * n + 1 /\ MinIndex \in Nat
    BY <2>2
  <2> HIDE DEF power
  <2>4. Longest(MinIndex, power) \in Nat /\ Longest(MinIndex, power) >= power
    BY <2>3, Lengths
  <2>5. Longest(MinIndex, power) >= 2 * n + 1
    BY <2>3, <2>4
  <2>6. QED
    BY <2>4, <2>5 DEF power
<1>2. Widen(t) = [t EXCEPT !.index = placed[Len(t.noted)]]
  BY Zenon DEF Widen
<1> HIDE DEF len
<1>3. \A k \in 1 .. n : list[k] \in Exponents /\ list[k] + 1 \in Nat
  <2>1. \A k \in 1 .. n : list[k] \in Exponents
    OBVIOUS
  <2>2. \A x \in Exponents : x + 1 \in Nat
    BY ExponentsAreNumbers
  <2>3. QED
    BY <2>1, <2>2
<1>4. \A x \in X : \A k \in 1 .. n : Put1(x, list[k]) \in X
  BY <1>3 DEF Put1
<1>5. entries \in [1 .. n -> [X -> X]]
  <2> HIDE DEF X
  <2>1. QED
    BY <1>4
<1>6. empty \in X
  OBVIOUS
<1>7. PICK f : IsRun(f, n, X, empty, entries)
  <2> HIDE DEF X, entries, empty
  <2>1. n \in Nat
    OBVIOUS
  <2>2. QED
    BY <1>5, <1>6, <2>1, Runs
<1>8. f = Body(f)
  <2>1. f \in [0 .. n -> X] /\ f[0] = empty /\ \A k \in 1 .. n : f[k] = entries[k][f[k - 1]]
    BY <1>7 DEF IsRun
  <2>2. ASSUME NEW i \in 0 .. n
        PROVE  f[i] = Body(f)[i]
    <3>1. CASE i = 0
      BY <2>1, <3>1
    <3>2. CASE i # 0
      <4>1. i \in 1 .. n /\ i - 1 \in 0 .. n
        BY <3>2
      <4>2. f[i - 1] \in X
        BY <2>1, <4>1
      <4>3. f[i] = entries[i][f[i - 1]]
        BY <2>1, <4>1
      <4>4. f[i] = Put1(f[i - 1], list[i])
        <5> HIDE DEF X
        <5>1. QED
          BY <4>1, <4>2, <4>3
      <4>5. Body(f)[i] = Put1(f[i - 1], list[i])
        BY <3>2
      <4>6. QED
        BY <4>4, <4>5
    <3>3. QED
      BY <3>1, <3>2
  <2>3. f = [i \in 0 .. n |-> f[i]] /\ Body(f) = [i \in 0 .. n |-> Body(f)[i]]
    <3>1. f = [i \in 0 .. n |-> f[i]]
      BY <2>1
    <3>2. QED
      BY <3>1
  <2> HIDE DEF Body
  <2>4. QED
    BY <2>2, <2>3
<1>9. placed = Body(placed)
  <2> HIDE DEF Body
  <2>1. QED
    BY <1>8
<1> HIDE DEF placed
<1>10. placed[0] = empty /\ \A k \in 1 .. n : placed[k] = Put1(placed[k - 1], list[k])
  <2>1. 0 \in 0 .. Len(t.noted) /\ \A k \in 1 .. n : k \in 0 .. Len(t.noted) /\ k # 0
    OBVIOUS
  <2>2. \A k \in 0 .. Len(t.noted) : placed[k] = Body(placed)[k]
    BY <1>9
  <2>3. Body(placed)[0] = empty
    BY <2>1
  <2>4. \A k \in 1 .. n : Body(placed)[k] = Put1(placed[k - 1], list[k])
    BY <2>1
  <2> HIDE DEF Body, empty
  <2>5. QED
    BY <2>1, <2>2, <2>3, <2>4
<1> DEFINE S == {k \in 0 .. n : IndexOk(placed[k], ListedTo(list, k)) /\ Len(placed[k]) = len}
<1>11. 0 \in S
  <2>1. Len(empty) = len /\ empty \in [1 .. len -> Nat] /\ \A s \in 1 .. len : empty[s] = 0
    BY <1>1
  <2>2. ListedTo(list, 0) = {}
    BY DEF ListedTo
  <2> HIDE DEF empty
  <2>3. IndexOk(empty, {})
    BY <1>1, <2>1 DEF IndexOk
  <2>4. IndexOk(placed[0], ListedTo(list, 0)) /\ Len(placed[0]) = len
    <3>1. placed[0] = empty
      BY <1>10
    <3> HIDE DEF list
    <3>2. QED
      BY <2>1, <2>2, <2>3, <3>1
  <2>5. QED
    BY <2>4
<1>12. ASSUME NEW k \in 0 .. n - 1, k \in S
       PROVE  k + 1 \in S
  <2> DEFINE below == placed[k]
             K == ListedTo(list, k)
             x == list[k + 1]
  <2>1. k + 1 \in 1 .. n /\ (k + 1) - 1 = k /\ k \in Nat
    OBVIOUS
  <2>2. IndexOk(below, K) /\ Len(below) = len
    BY <1>12
  <2>3. x \in Exponents
    BY <1>3, <2>1
  <2>4. K \in SUBSET Exponents
    BY <1>3, <2>1 DEF ListedTo
  <2>5. Room(below)
    <3>1. k < Len(below)
      BY <1>1, <2>2
    <3>2. IndexOk(below, {list[i] : i \in 1 .. k})
      BY <2>2 DEF ListedTo
    <3> HIDE DEF below, K, x
    <3>3. QED
      BY <2>1, <3>1, <3>2, RoomLeft
  <2>6. placed[k + 1] = [below EXCEPT ![Probe(below, x)] = x + 1]
    BY <1>10, <2>1 DEF Put1
  <2>7. ListedTo(list, k + 1) = K \cup {x}
    BY <2>1 DEF ListedTo
  <2> HIDE DEF below, K, x
  <2>8. /\ IndexOk([below EXCEPT ![Probe(below, x)] = x + 1], K \cup {x})
        /\ Len([below EXCEPT ![Probe(below, x)] = x + 1]) = Len(below)
    BY <2>2, <2>3, <2>4, <2>5, EnterKeeps
  <2>9. IndexOk(placed[k + 1], ListedTo(list, k + 1)) /\ Len(placed[k + 1]) = len
    <3> HIDE DEF list
    <3>1. QED
      BY <2>2, <2>6, <2>7, <2>8
  <2>10. k + 1 \in 0 .. n
    OBVIOUS
  <2>11. QED
    BY <2>9, <2>10
<1>13. n \in S
  <2> HIDE DEF S
  <2>1. \A k \in 0 .. n : k \in S
    BY <1>11, <1>12, UpTo
  <2>2. QED
    BY <2>1
<1>14. IndexOk(placed[n], Noted(t)) /\ Len(placed[n]) >= 2 * n + 1
  BY <1>1, <1>13 DEF Noted
<1>15. QED
  BY <1>2, <1>14

\* What noting does to a table.
NotedAlso(t, u, K) ==
    /\ TableOk(u) /\ u.covered = t.covered /\ u.dense = t.dense
    /\ Noted(u) = Noted(t) \cup K

\* Noting keeps a table in order, and adds the exponent.
LEMMA NoteKeeps ==
    ASSUME mix \in [Exponents -> Nat], NEW t, TableOk(t), NEW k \in 0 .. t.covered - 1
    PROVE  NotedAlso(t, Note(t, k), {k})
<1> DEFINE w == IF 2 * Len(t.noted) >= Len(t.index) THEN Widen(t) ELSE t
           n == Len(t.noted)
           K == Noted(t)
<1>1. /\ t = [covered |-> t.covered, noted |-> t.noted, dense |-> t.dense, index |-> t.index]
      /\ t.covered \in 1 .. MaxCells /\ t.dense \in BOOLEAN
      /\ t.noted \in Seq(0 .. t.covered - 1) /\ n \in Nat
      /\ \A i, j \in 1 .. n : t.noted[i] = t.noted[j] => i = j
      /\ IndexOk(t.index, K) /\ Len(t.index) >= 2 /\ Len(t.index) \in Nat
  BY DEF TableOk, IndexOk
<1>2. k \in Exponents /\ K \in SUBSET Exponents /\ t.noted \in Seq(Exponents)
  <2>1. \A i \in 0 .. t.covered - 1 : i \in Exponents
    BY <1>1, ExponentsAreNumbers, GPowAssumption
  <2> DEFINE R == 0 .. t.covered - 1
             list == t.noted
  <2>2. \A i \in 1 .. n : t.noted[i] \in Exponents
    <3>1. list \in Seq(R) /\ \A i \in R : i \in Exponents
      BY <1>1, <2>1
    <3> HIDE DEF R
    <3>2. \A i \in 1 .. Len(list) : list[i] \in R
      <4> HIDE DEF list
      <4>1. QED
        BY <3>1
    <3>3. QED
      BY <3>1, <3>2
  <2>3. K \in SUBSET Exponents
    BY <2>2 DEF Noted, ListedTo
  <2>4. t.noted \in Seq(Exponents)
    <3>1. list \in Seq(R) /\ \A i \in 1 .. Len(list) : list[i] \in Exponents
      BY <1>1, <2>2
    <3>2. list \in Seq(Exponents)
      <4> HIDE DEF list, R
      <4>1. QED
        BY <3>1
    <3>3. QED
      BY <3>2
  <2>5. QED
    BY <2>1, <2>3, <2>4
<1>3. \E index : /\ w = [t EXCEPT !.index = index]
                 /\ IndexOk(index, K) /\ Len(index) >= 2 /\ 2 * n < Len(index)
  <2>1. CASE 2 * n >= Len(t.index)
    <3>1. n \in Nat \ {0}
      BY <1>1, <2>1
    <3>2. \E index : /\ Widen(t) = [t EXCEPT !.index = index]
                     /\ IndexOk(index, Noted(t)) /\ Len(index) >= 2 * n + 1
      BY <1>2, <3>1, WidenKeeps
    <3>3. PICK index : /\ Widen(t) = [t EXCEPT !.index = index]
                       /\ IndexOk(index, K) /\ Len(index) >= 2 * n + 1
      BY <3>2
    <3>4. Len(index) \in Nat
      BY <3>3 DEF IndexOk
    <3>5. Len(index) >= 2 /\ 2 * n < Len(index)
      BY <3>1, <3>3, <3>4
    <3>6. QED
      BY <2>1, <3>3, <3>5
  <2>2. CASE ~(2 * n >= Len(t.index))
    <3>1. t = [t EXCEPT !.index = t.index]
      BY <1>1
    <3>2. 2 * n < Len(t.index)
      BY <1>1, <2>2
    <3>3. w = t
      BY <2>2
    <3>4. QED
      BY <1>1, <3>1, <3>2, <3>3
  <2>3. QED
    BY <2>1, <2>2
<1>4. PICK index : /\ w = [t EXCEPT !.index = index]
                   /\ IndexOk(index, K) /\ Len(index) >= 2 /\ 2 * n < Len(index)
  BY <1>3
<1> DEFINE slot == Probe(w.index, k)
<1>5. Note(t, k) = IF slot = Endless \/ w.index[slot] = k + 1 THEN w
                   ELSE [w EXCEPT !.index = Put1(@, k), !.noted = Append(@, k)]
  BY Zenon DEF Note
<1> HIDE DEF w
<1>6. w = [covered |-> t.covered, noted |-> t.noted, dense |-> t.dense, index |-> index]
  BY <1>1, <1>4
<1>7. /\ w.covered = t.covered /\ w.noted = t.noted /\ w.dense = t.dense /\ w.index = index
  BY <1>6
<1>8. Len(index) \in Nat /\ n < Len(index) /\ n + 1 < Len(index)
  <2>1. Len(index) \in Nat
    BY <1>4 DEF IndexOk
  <2>2. QED
    BY <1>1, <1>4, <2>1
<1>9. Room(index)
  <2>1. IndexOk(index, {t.noted[i] : i \in 1 .. n})
    BY <1>4 DEF Noted, ListedTo
  <2> HIDE DEF n
  <2>2. QED
    BY <1>1, <1>8, <2>1, RoomLeft
<1>10. slot \in 1 .. Len(index) /\ index[slot] = IF k \in K THEN k + 1 ELSE 0
  BY <1>2, <1>4, <1>7, <1>9, SearchFinds, SMTT(60)
<1>11. slot # Endless /\ k + 1 # 0
  BY <1>1, <1>8, <1>10 DEF Endless
<1>12. CASE k \in K
  <2>1. Note(t, k) = w
    BY <1>5, <1>7, <1>10, <1>12
  <2>2. Noted(w) = K /\ K = K \cup {k}
    BY <1>7, <1>12 DEF Noted
  <2>3. TableOk(w)
    <3>1. w = [covered |-> w.covered, noted |-> w.noted, dense |-> w.dense, index |-> w.index]
      BY <1>6, <1>7
    <3>2. Len(w.noted) < Len(w.index)
      BY <1>7, <1>8
    <3>3. QED
      BY <1>1, <1>4, <1>7, <2>2, <3>1, <3>2 DEF TableOk
  <2>4. QED
    BY <1>7, <2>1, <2>2, <2>3 DEF NotedAlso
<1>13. CASE k \notin K
  <2> DEFINE more == Append(t.noted, k)
             new == [index EXCEPT ![slot] = k + 1]
             u == [covered |-> t.covered, noted |-> more, dense |-> t.dense, index |-> new]
  <2>1. Note(t, k) = [w EXCEPT !.index = Put1(@, k), !.noted = Append(@, k)]
    BY <1>5, <1>7, <1>10, <1>11, <1>13
  <2>2. Note(t, k) = u
    <3>1. Put1(index, k) = new
      BY <1>7 DEF Put1
    <3>2. [w EXCEPT !.index = Put1(@, k), !.noted = Append(@, k)]
            = [covered |-> t.covered, noted |-> more, dense |-> t.dense, index |-> Put1(index, k)]
      <4>1. ASSUME NEW i, NEW l
            PROVE  [w EXCEPT !.index = i, !.noted = l]
                     = [covered |-> t.covered, noted |-> l, dense |-> t.dense, index |-> i]
        <5> DEFINE v == [w EXCEPT !.index = i]
        <5>1. [w EXCEPT !.index = i, !.noted = l] = [v EXCEPT !.noted = l]
          OBVIOUS
        <5>2. v = [covered |-> t.covered, noted |-> t.noted, dense |-> t.dense, index |-> i]
          BY <1>6
        <5> HIDE DEF v
        <5>3. [v EXCEPT !.noted = l]
                = [covered |-> t.covered, noted |-> l, dense |-> t.dense, index |-> i]
          BY <5>2
        <5>4. QED
          BY <5>1, <5>3
      <4>2. [w EXCEPT !.index = Put1(w.index, k), !.noted = Append(w.noted, k)]
              = [covered |-> t.covered, noted |-> Append(w.noted, k), dense |-> t.dense,
                 index |-> Put1(w.index, k)]
        BY <4>1
      <4>3. QED
        BY <1>7, <4>2
    <3> HIDE DEF slot, new
    <3>3. QED
      BY <2>1, <3>1, <3>2
  <2>3. IndexOk(new, K \cup {k}) /\ Len(new) = Len(index)
    <3>1. new = [index EXCEPT ![Probe(index, k)] = k + 1]
      BY <1>7
    <3>2. QED
      BY <1>2, <1>4, <1>9, <3>1, EnterKeeps
  <2> HIDE DEF new
  <2>4. /\ more \in Seq(0 .. t.covered - 1) /\ Len(more) = n + 1
        /\ more[n + 1] = k /\ \A i \in 1 .. n : more[i] = t.noted[i]
    BY <1>1
  <2> HIDE DEF more
  <2>5. \A i \in 1 .. n : t.noted[i] # k
    BY <1>13 DEF Noted, ListedTo
  <2>6. ASSUME NEW i \in 1 .. n + 1, NEW j \in 1 .. n + 1, more[i] = more[j]
        PROVE  i = j
    <3>1. (i = n + 1 \/ i \in 1 .. n) /\ (j = n + 1 \/ j \in 1 .. n)
      BY <1>1
    <3>2. QED
      BY <1>1, <2>4, <2>5, <2>6, <3>1
  <2>7. Noted(u) = K \cup {k}
    <3>1. u.noted = more
      OBVIOUS
    <3>2. \A x : x \in ListedTo(more, n + 1) <=> x \in K \/ x = k
      <4>1. \A x : x \in K <=> \E i \in 1 .. n : x = t.noted[i]
        BY DEF Noted, ListedTo
      <4>2. \A x : x \in ListedTo(more, n + 1) <=> \E i \in 1 .. n + 1 : x = more[i]
        BY DEF ListedTo
      <4>3. \A i \in 1 .. n + 1 : i = n + 1 \/ i \in 1 .. n
        BY <1>1
      <4>4. n + 1 \in 1 .. n + 1 /\ \A i \in 1 .. n : i \in 1 .. n + 1
        BY <1>1
      <4> HIDE DEF n, K
      <4>5. QED
        BY <2>4, <4>1, <4>2, <4>3, <4>4
    <3>3. Noted(u) = ListedTo(more, n + 1)
      BY <2>4, <3>1 DEF Noted
    <3> HIDE DEF n, K, u
    <3>4. QED
      BY <3>2, <3>3
  <2>8. TableOk(u)
    <3>1. /\ u.covered = t.covered /\ u.noted = more /\ u.dense = t.dense /\ u.index = new
          /\ u = [covered |-> u.covered, noted |-> u.noted, dense |-> u.dense, index |-> u.index]
      OBVIOUS
    <3> HIDE DEF u, K, n
    <3>2. QED
      BY <1>1, <1>4, <1>8, <2>3, <2>4, <2>6, <2>7, <3>1 DEF TableOk
  <2>9. u.covered = t.covered /\ u.dense = t.dense
    OBVIOUS
  <2> HIDE DEF u
  <2>10. QED
    BY <2>2, <2>7, <2>8, <2>9 DEF NotedAlso
<1>14. QED
  BY <1>12, <1>13

\* The tables, as a set.
Tables == [covered : Nat, noted : Seq(Nat), dense : BOOLEAN, index : Seq(Nat)]

\* What is in order is a table.
LEMMA TablesAre ==
    ASSUME NEW u, TableOk(u)
    PROVE  u \in Tables
<1>1. u = [covered |-> u.covered, noted |-> u.noted, dense |-> u.dense, index |-> u.index]
  BY DEF TableOk
<1>2. u.covered \in Nat /\ u.dense \in BOOLEAN
  BY GPowAssumption DEF TableOk
<1>3. u.noted \in Seq(Nat)
  <2>1. u.noted \in Seq(0 .. u.covered - 1)
    BY DEF TableOk
  <2> DEFINE R == 0 .. u.covered - 1
             list == u.noted
  <2>2. R \in SUBSET Nat /\ list \in Seq(R)
    BY <1>2, <2>1
  <2> HIDE DEF R, list
  <2>3. \A i \in 1 .. Len(list) : list[i] \in R
    BY <2>2
  <2>4. \A i \in 1 .. Len(list) : list[i] \in Nat
    BY <2>2, <2>3
  <2>5. list \in Seq(Nat)
    BY <2>2, <2>4
  <2>6. QED
    BY <2>5 DEF list
<1>4. u.index \in Seq(Nat)
  <2>1. u.index \in [1 .. Len(u.index) -> Nat] /\ Len(u.index) \in Nat
    BY DEF TableOk, IndexOk
  <2> DEFINE list == u.index
             l == Len(u.index)
  <2>2. list \in [1 .. l -> Nat] /\ l \in Nat
    BY <2>1
  <2> HIDE DEF list, l
  <2>3. list \in Seq(Nat)
    BY <2>2
  <2>4. QED
    BY <2>3 DEF list
<1>5. QED
  BY <1>1, <1>2, <1>3, <1>4 DEF Tables

\* A run of exponents is noted one by one.
LEMMA NoteAllKeeps ==
    ASSUME mix \in [Exponents -> Nat], NEW t, TableOk(t), NEW from \in Nat, NEW to \in Nat,
           from <= to, to < t.covered
    PROVE  NotedAlso(t, NoteAll(t, from, to), from .. to)
<1> DEFINE n == to - from + 1
           X == {u \in Tables : TableOk(u) /\ u.covered = t.covered}
           entries == [k \in 1 .. n |-> [u \in X |-> Note(u, from + k - 1)]]
           Body(h) == [k \in from - 1 .. to |-> IF k = from - 1 THEN t ELSE Note(h[k - 1], k)]
           after == CHOOSE h : h = Body(h)
<1>1. NoteAll(t, from, to) = after[to]
  BY Zenon DEF NoteAll
<1>2. n \in Nat /\ t.covered \in Nat /\ \A k \in 1 .. n : from + k - 1 \in 0 .. t.covered - 1
  BY DEF TableOk
<1>3. \A u : TableOk(u) => u \in Tables
  BY TablesAre
<1>4. t \in X
  BY <1>3
<1>5. ASSUME NEW u \in X, NEW k \in 1 .. n
      PROVE  Note(u, from + k - 1) \in X
  <2>1. from + k - 1 \in 0 .. u.covered - 1 /\ TableOk(u)
    BY <1>2
  <2>2. NotedAlso(u, Note(u, from + k - 1), {from + k - 1})
    BY <2>1, NoteKeeps
  <2>3. QED
    BY <1>3, <2>2 DEF NotedAlso
<1>6. entries \in [1 .. n -> [X -> X]]
  <2> HIDE DEF X
  <2>1. QED
    BY <1>5
<1>7. PICK f : IsRun(f, n, X, t, entries)
  <2> HIDE DEF X, entries, n
  <2>1. QED
    BY <1>2, <1>4, <1>6, Runs
<1>8. f \in [0 .. n -> X] /\ f[0] = t /\ \A k \in 1 .. n : f[k] = Note(f[k - 1], from + k - 1)
  <2>1. f \in [0 .. n -> X] /\ f[0] = t /\ \A k \in 1 .. n : f[k] = entries[k][f[k - 1]]
    BY <1>7 DEF IsRun
  <2>2. ASSUME NEW k \in 1 .. n
        PROVE  f[k] = Note(f[k - 1], from + k - 1)
    <3>1. k - 1 \in 0 .. n
      BY <1>2
    <3> HIDE DEF X
    <3>2. f[k - 1] \in X
      BY <2>1, <3>1
    <3>3. entries[k][f[k - 1]] = Note(f[k - 1], from + k - 1)
      BY <3>2
    <3>4. QED
      BY <2>1, <3>3
  <2>3. QED
    BY <2>1, <2>2
<1> HIDE DEF X, entries
<1> DEFINE made == [k \in from - 1 .. to |-> f[k - (from - 1)]]
<1>9. made = Body(made)
  <2>1. ASSUME NEW k \in from - 1 .. to
        PROVE  made[k] = Body(made)[k]
    <3>1. CASE k = from - 1
      <4>1. k - (from - 1) = 0
        BY <3>1
      <4>2. QED
        BY <1>8, <3>1, <4>1
    <3>2. CASE k # from - 1
      <4> DEFINE j == k - (from - 1)
      <4>1. j \in 1 .. n /\ from + j - 1 = k /\ k - 1 \in from - 1 .. to
            /\ (k - 1) - (from - 1) = j - 1
        BY <3>2
      <4>2. made[k] = f[j] /\ made[k - 1] = f[j - 1]
        BY <4>1
      <4>3. f[j] = Note(f[j - 1], k)
        <5>1. f[j] = Note(f[j - 1], from + j - 1)
          BY <1>8, <4>1
        <5> HIDE DEF j
        <5>2. QED
          BY <4>1, <5>1
      <4> HIDE DEF made, j
      <4>4. Body(made)[k] = Note(made[k - 1], k)
        BY <3>2
      <4>5. QED
        BY <4>2, <4>3, <4>4
    <3>3. QED
      BY <3>1, <3>2
  <2>2. /\ made = [k \in from - 1 .. to |-> made[k]]
        /\ Body(made) = [k \in from - 1 .. to |-> Body(made)[k]]
    OBVIOUS
  <2> HIDE DEF made, Body
  <2>3. QED
    BY <2>1, <2>2
<1>10. after = Body(after)
  <2> HIDE DEF made, Body
  <2>1. QED
    BY <1>9
<1> HIDE DEF after, made
<1>11. /\ after[from - 1] = t
       /\ \A k \in from .. to : after[k] = Note(after[k - 1], k)
  <2>1. \A k \in from - 1 .. to : after[k] = Body(after)[k]
    BY <1>10
  <2>2. from - 1 \in from - 1 .. to /\ \A k \in from .. to : k \in from - 1 .. to /\ k # from - 1
    OBVIOUS
  <2>3. QED
    BY <2>1, <2>2
<1> DEFINE S == {k \in 0 .. n : NotedAlso(t, after[k + (from - 1)], from .. k + (from - 1))}
<1>12. 0 \in S
  <2>1. 0 + (from - 1) = from - 1 /\ from .. 0 + (from - 1) = {}
    OBVIOUS
  <2>2. NotedAlso(t, t, {})
    BY DEF NotedAlso
  <2>3. QED
    BY <1>2, <1>11, <2>1, <2>2
<1>13. ASSUME NEW k \in 0 .. n - 1, k \in S
       PROVE  k + 1 \in S
  <2> DEFINE j == k + (from - 1)
             u == after[j]
  <2>1. (k + 1) + (from - 1) = j + 1 /\ j + 1 \in from .. to /\ (j + 1) - 1 = j /\ j \in Int
    OBVIOUS
  <2>2. NotedAlso(t, u, from .. j)
    BY <1>13
  <2>3. after[j + 1] = Note(u, j + 1)
    BY <1>11, <2>1
  <2>4. from .. j + 1 = (from .. j) \cup {j + 1}
    BY <2>1
  <2> HIDE DEF j
  <2>5. TableOk(u) /\ j + 1 \in 0 .. u.covered - 1
    BY <1>2, <2>1, <2>2 DEF NotedAlso
  <2>6. NotedAlso(u, Note(u, j + 1), {j + 1})
    BY <2>5, NoteKeeps
  <2> HIDE DEF u
  <2>7. NotedAlso(t, after[j + 1], from .. j + 1)
    BY <2>2, <2>3, <2>4, <2>6 DEF NotedAlso
  <2>8. k + 1 \in 0 .. n
    OBVIOUS
  <2>9. QED
    <3>1. NotedAlso(t, after[(k + 1) + (from - 1)], from .. (k + 1) + (from - 1))
      BY <2>1, <2>7, Zenon
    <3>2. QED
      BY <2>8, <3>1
<1>14. n \in S
  <2> HIDE DEF S
  <2>1. \A k \in 0 .. n : k \in S
    BY <1>2, <1>12, <1>13, UpTo
  <2> HIDE DEF n
  <2>2. QED
    BY <1>2, <2>1
<1>15. n + (from - 1) = to
  OBVIOUS
<1>16. NotedAlso(t, after[n + (from - 1)], from .. n + (from - 1))
  BY <1>14
<1>17. QED
  <2> HIDE DEF n
  <2>1. NotedAlso(t, after[to], from .. to)
    BY <1>15, <1>16
  <2>2. QED
    BY <1>1, <2>1

\* Covering more powers: those that are new are noted once all are indexed.
LEMMA GrowToKeeps ==
    ASSUME mix \in [Exponents -> Nat], NEW t, FullTable(t), NEW upto \in 0 .. MaxCells - 1
    PROVE  FullTable(GrowTo(t, upto))
<1> USE GPowAssumption
<1>1. CASE upto < t.covered
  BY <1>1 DEF GrowTo
<1>2. CASE ~(upto < t.covered)
  <2> DEFINE u == [t EXCEPT !.covered = upto + 1]
  <2>1. GrowTo(t, upto) = IF t.dense THEN NoteAll(u, t.covered, upto) ELSE u
    BY <1>2 DEF GrowTo
  <2>2. TableOk(t) /\ t.covered \in 1 .. MaxCells
    BY DEF FullTable, TableOk
  <2>3. t = [covered |-> t.covered, noted |-> t.noted, dense |-> t.dense, index |-> t.index]
    BY <2>2 DEF TableOk
  <2>4. u = [covered |-> upto + 1, noted |-> t.noted, dense |-> t.dense, index |-> t.index]
    BY <2>3, SMTT(60)
  <2> HIDE DEF u
  <2>5. /\ u.covered = upto + 1 /\ u.noted = t.noted /\ u.dense = t.dense /\ u.index = t.index
        /\ u = [covered |-> u.covered, noted |-> u.noted, dense |-> u.dense, index |-> u.index]
    BY <2>4
  <2>6. Noted(u) = Noted(t)
    BY <2>5 DEF Noted
  <2>7. TableOk(u)
    <3>1. u.noted \in Seq(0 .. upto)
      <4> DEFINE list == t.noted
                 R == 0 .. t.covered - 1
                 T == 0 .. upto
      <4>1. list \in Seq(R) /\ \A i \in R : i \in T
        BY <1>2, <2>2 DEF TableOk
      <4> HIDE DEF list, R, T
      <4>2. \A i \in 1 .. Len(list) : list[i] \in T
        BY <4>1
      <4>3. list \in Seq(T)
        BY <4>1, <4>2
      <4>4. QED
        BY <2>5, <4>3 DEF list, T
    <3>2. u.covered - 1 = upto /\ u.covered \in 1 .. MaxCells
      BY <2>5
    <3>3. QED
      BY <2>2, <2>5, <2>6, <3>1, <3>2 DEF TableOk
  <2>8. CASE t.dense
    <3>1. NotedAlso(u, NoteAll(u, t.covered, upto), t.covered .. upto)
      <4>1. t.covered \in Nat /\ upto \in Nat /\ t.covered <= upto /\ upto < u.covered
        BY <1>2, <2>2, <2>5
      <4>2. QED
        BY <2>7, <4>1, NoteAllKeeps
    <3>2. Noted(t) = 0 .. t.covered - 1
      BY <2>8 DEF FullTable
    <3>3. (0 .. t.covered - 1) \cup (t.covered .. upto) = 0 .. upto /\ (upto + 1) - 1 = upto
      BY <1>2, <2>2
    <3>4. FullTable(NoteAll(u, t.covered, upto))
      BY <2>5, <2>6, <3>1, <3>2, <3>3 DEF FullTable, NotedAlso
    <3>5. QED
      BY <2>1, <2>8, <3>4
  <2>9. CASE ~t.dense
    BY <2>1, <2>5, <2>7, <2>9 DEF FullTable
  <2>10. QED
    BY <2>8, <2>9
<1>3. QED
  BY <1>1, <1>2

\* The first table.
LEMMA NewIsFull ==
    ASSUME mix \in [Exponents -> Nat], NEW upto \in 0 .. MaxCells - 1
    PROVE  FullTable(New(upto))
<1> USE GPowAssumption
<1> DEFINE power == NextPowerOfTwo(2 * (upto + 1))
           len == Longest(MinIndex, power)
           empty == [s \in 1 .. len |-> 0]
           t == [covered |-> upto + 1, noted |-> << >>, dense |-> FALSE, index |-> empty]
<1>1. New(upto) = NoteAll(t, 0, upto)
  BY Zenon DEF New
<1>2. len \in Nat /\ len >= 2
  <2>1. 2 * (upto + 1) \in Nat \ {0} /\ 2 * (upto + 1) >= 2 /\ MinIndex \in Nat
    OBVIOUS
  <2>2. power \in Nat /\ power >= 2 * (upto + 1)
    BY <2>1, NextPower
  <2> HIDE DEF power
  <2>3. Longest(MinIndex, power) \in Nat /\ Longest(MinIndex, power) >= power
    BY <2>1, <2>2, Lengths
  <2>4. QED
    BY <2>1, <2>2, <2>3
<1> HIDE DEF len
<1>3. Len(empty) = len /\ empty \in [1 .. len -> Nat] /\ \A s \in 1 .. len : empty[s] = 0
  BY <1>2
<1> HIDE DEF empty
<1>4. /\ t.covered = upto + 1 /\ t.noted = << >> /\ t.dense = FALSE /\ t.index = empty
      /\ t = [covered |-> t.covered, noted |-> t.noted, dense |-> t.dense, index |-> t.index]
  OBVIOUS
<1> HIDE DEF t
<1>5. Noted(t) = {} /\ Len(t.noted) = 0
  BY <1>4 DEF Noted, ListedTo
<1>6. IndexOk(t.index, {})
  BY <1>2, <1>3, <1>4 DEF IndexOk
<1>7. TableOk(t)
  <2>1. t.covered \in 1 .. MaxCells /\ t.dense \in BOOLEAN
    <3>1. t.covered \in 1 .. MaxCells
      <4>1. t.covered = upto + 1
        BY <1>4
      <4>2. upto + 1 \in 1 .. MaxCells
        OBVIOUS
      <4>3. QED
        BY <4>1, <4>2
    <3>2. t.dense \in BOOLEAN
      BY <1>4, Zenon
    <3>3. QED
      BY <3>1, <3>2
  <2>2. t.noted \in Seq(0 .. t.covered - 1)
    <3> DEFINE R == 0 .. t.covered - 1
    <3> HIDE DEF R
    <3>1. << >> \in Seq(R)
      OBVIOUS
    <3>2. QED
      BY <1>4, <3>1 DEF R
  <2>3. \A i, j \in 1 .. Len(t.noted) : t.noted[i] = t.noted[j] => i = j
    BY <1>5
  <2>4. IndexOk(t.index, Noted(t)) /\ Len(t.index) >= 2 /\ Len(t.noted) < Len(t.index)
    BY <1>2, <1>3, <1>4, <1>5, <1>6
  <2>5. QED
    BY <1>4, <2>1, <2>2, <2>3, <2>4 DEF TableOk
<1>8. NotedAlso(t, NoteAll(t, 0, upto), 0 .. upto)
  <2>1. 0 \in Nat /\ upto \in Nat /\ 0 <= upto /\ upto < t.covered
    BY <1>4
  <2>2. QED
    BY <1>7, <2>1, NoteAllKeeps
<1>9. QED
  BY <1>1, <1>4, <1>8 DEF FullTable, NotedAlso

\* A word is found if and only if it is noted, as the exponent it has.
LEMMA LookupFinds ==
    ASSUME mix \in [Exponents -> Nat], NEW t, TableOk(t), NEW x \in Exponents
    PROVE  Lookup(t, x) = IF x \in Noted(t) THEN x ELSE Absent
<1> DEFINE slot == Probe(t.index, x)
           n == Len(t.noted)
<1>1. IndexOk(t.index, Noted(t)) /\ n < Len(t.index) /\ n \in Nat
  BY DEF TableOk
<1>2. Noted(t) \in SUBSET Exponents
  <2>1. t.covered \in 1 .. MaxCells /\ t.noted \in Seq(0 .. t.covered - 1)
    BY DEF TableOk
  <2>2. \A i \in 0 .. t.covered - 1 : i \in Exponents
    BY <2>1, ExponentsAreNumbers, GPowAssumption
  <2> DEFINE list == t.noted
             R == 0 .. t.covered - 1
  <2>3. \A i \in 1 .. Len(list) : list[i] \in Exponents
    <3>1. list \in Seq(R) /\ \A i \in R : i \in Exponents
      BY <2>1, <2>2
    <3> HIDE DEF list, R
    <3>2. \A i \in 1 .. Len(list) : list[i] \in R
      BY <3>1
    <3>3. QED
      BY <3>1, <3>2
  <2>4. QED
    BY <2>3 DEF Noted, ListedTo
<1>3. Room(t.index)
  <2>1. IndexOk(t.index, {t.noted[i] : i \in 1 .. n})
    BY <1>1 DEF Noted, ListedTo
  <2> HIDE DEF n
  <2>2. QED
    BY <1>1, <2>1, RoomLeft
<1>4. slot \in 1 .. Len(t.index) /\ t.index[slot] = IF x \in Noted(t) THEN x + 1 ELSE 0
  BY <1>1, <1>2, <1>3, SearchFinds
<1>5. Lookup(t, x) = IF slot = Endless THEN Endless ELSE t.index[slot] - 1
  BY Zenon DEF Lookup
<1>6. slot # Endless
  <2>1. Len(t.index) \in Nat
    BY <1>1 DEF IndexOk
  <2> HIDE DEF slot
  <2>2. QED
    BY <1>4, <2>1 DEF Endless
<1>7. x \in Nat
  BY ExponentsAreNumbers
<1> HIDE DEF slot
<1>8. QED
  BY <1>4, <1>5, <1>6, <1>7 DEF Absent

\* When as many are noted as are covered, all are.
LEMMA AllNoted ==
    ASSUME NEW t, TableOk(t), Len(t.noted) = t.covered
    PROVE  Noted(t) = 0 .. t.covered - 1
<1> USE GPowAssumption
<1> DEFINE n == t.covered
           R == 0 .. n - 1
           list == t.noted
<1>1. /\ n \in Nat \ {0} /\ list \in Seq(R) /\ Len(list) = n
      /\ \A i, j \in 1 .. n : list[i] = list[j] => i = j
  BY DEF TableOk
<1> HIDE DEF n
<1>2. list \in [1 .. n -> R]
  <2> HIDE DEF R, list
  <2>1. QED
    BY <1>1
<1>3. list \in Injection(1 .. n, R)
  BY <1>1, <1>2, Fun_IsInj
<1>4. /\ IsFiniteSet(R) /\ Cardinality(R) = n
      /\ IsFiniteSet(1 .. n) /\ Cardinality(1 .. n) = n
  <2>1. n \in Int /\ 0 \in Int /\ 1 \in Int /\ n - 1 \in Int
    BY <1>1
  <2>2. IsFiniteSet(R) /\ Cardinality(R) = IF 0 > n - 1 THEN 0 ELSE (n - 1) - 0 + 1
    BY <2>1, FS_Interval
  <2>3. IsFiniteSet(1 .. n) /\ Cardinality(1 .. n) = IF 1 > n THEN 0 ELSE n - 1 + 1
    BY <2>1, FS_Interval
  <2>4. QED
    BY <1>1, <2>2, <2>3
<1> HIDE DEF R
<1>5. list \in Surjection(1 .. n, R)
  BY <1>3, <1>4, FS_Injection
<1>6. \A r \in R : \E i \in 1 .. n : list[i] = r
  BY <1>5 DEF Surjection
<1>7. \A r : r \in ListedTo(list, n) <=> r \in R
  BY <1>2, <1>6, ZenonT(60) DEF ListedTo
<1>8. Noted(t) = ListedTo(list, n)
  BY <1>1 DEF Noted
<1>9. QED
  BY <1>7, <1>8 DEF R, n

-----------------------------------------------------------------------------
(***************************************************************************)
(* What the interpreter asks.                                              *)
(***************************************************************************)

\* An answer: a table in order, and the exponent of x in it.
Right(r, x) ==
    /\ r = [t |-> r.t, k |-> r.k] /\ FullTable(r.t)
    /\ r.k = IF x < r.t.covered THEN x ELSE Absent

\* Indexing every power.
LEMMA DenselyIsFull ==
    ASSUME mix \in [Exponents -> Nat], NEW t, TableOk(t)
    PROVE  /\ TableOk(Densely(t)) /\ Densely(t).covered = t.covered
           /\ Noted(Densely(t)) = 0 .. t.covered - 1
<1> DEFINE n == t.covered
           all == [i \in 1 .. n |-> i - 1]
           v == [t EXCEPT !.dense = TRUE]
           u == [t EXCEPT !.dense = TRUE, !.noted = all]
<1>1. /\ t = [covered |-> t.covered, noted |-> t.noted, dense |-> t.dense, index |-> t.index]
      /\ n \in 1 .. MaxCells /\ n \in Nat \ {0}
  BY GPowAssumption DEF TableOk
<1>2. u = [v EXCEPT !.noted = all]
  OBVIOUS
<1>3. v = [covered |-> n, noted |-> t.noted, dense |-> TRUE, index |-> t.index]
  <2>1. ASSUME NEW b
        PROVE  [t EXCEPT !.dense = b]
                 = [covered |-> n, noted |-> t.noted, dense |-> b, index |-> t.index]
    BY <1>1
  <2>2. QED
    BY <2>1
<1>4. Densely(t) = Widen(u)
  BY Zenon DEF Densely
<1> HIDE DEF n
<1>5. /\ all \in Seq(0 .. n - 1) /\ all \in Seq(Exponents) /\ Len(all) = n
      /\ \A i \in 1 .. n : all[i] = i - 1
  <2>1. \A i \in 1 .. n : i - 1 \in 0 .. n - 1 /\ i - 1 \in Exponents
    BY <1>1, ExponentsAreNumbers, GPowAssumption
  <2>2. all = [i \in 1 .. n |-> i - 1] /\ DOMAIN all = 1 .. n /\ \A i \in 1 .. n : all[i] = i - 1
    OBVIOUS
  <2> DEFINE R == 0 .. n - 1
  <2>3. \A i \in 1 .. n : all[i] \in R /\ all[i] \in Exponents
    BY <2>1, <2>2
  <2>4. all = [i \in 1 .. n |-> all[i]] /\ n \in Nat
    BY <1>1, <2>2
  <2> HIDE DEF all, R
  <2>5. all \in Seq(R) /\ all \in Seq(Exponents) /\ Len(all) = n
    BY <2>3, <2>4, SMTT(60)
  <2>6. QED
    BY <2>2, <2>5 DEF R
<1> HIDE DEF all, u, v
<1>6. u = [covered |-> n, noted |-> all, dense |-> TRUE, index |-> t.index]
  BY <1>2, <1>3
<1>7. u.covered = n /\ u.noted = all /\ u.dense = TRUE
  BY <1>6
<1>8. Noted(u) = 0 .. n - 1
  <2>1. ASSUME NEW x
        PROVE  x \in ListedTo(all, n) <=> x \in 0 .. n - 1
    <3>1. x \in ListedTo(all, n) => x \in 0 .. n - 1
      BY <1>1, <1>5 DEF ListedTo
    <3>2. ASSUME x \in 0 .. n - 1
          PROVE  x \in ListedTo(all, n)
      <4>1. x + 1 \in 1 .. n /\ (x + 1) - 1 = x
        BY <1>1, <3>2
      <4>2. all[x + 1] = x
        BY <1>5, <4>1
      <4>3. QED
        BY <4>1, <4>2 DEF ListedTo
    <3>3. QED
      BY <3>1, <3>2
  <2>2. Noted(u) = ListedTo(all, n)
    BY <1>5, <1>7 DEF Noted
  <2>3. QED
    BY <2>1, <2>2
<1>9. PICK index : /\ Widen(u) = [u EXCEPT !.index = index]
                   /\ IndexOk(index, Noted(u)) /\ Len(index) >= 2 * n + 1
  BY <1>1, <1>5, <1>7, WidenKeeps
<1> DEFINE w == Widen(u)
<1>10. w = [covered |-> n, noted |-> all, dense |-> TRUE, index |-> index]
  BY <1>6, <1>9
<1> HIDE DEF w
<1>11. /\ w.covered = n /\ w.noted = all /\ w.dense = TRUE /\ w.index = index
       /\ w = [covered |-> w.covered, noted |-> w.noted, dense |-> w.dense, index |-> w.index]
  BY <1>10
<1>12. Noted(w) = 0 .. n - 1
  BY <1>7, <1>8, <1>11 DEF Noted
<1>13. TableOk(w)
  <2>1. \A i, j \in 1 .. n : all[i] = all[j] => i = j
    BY <1>1, <1>5
  <2>2. Len(index) \in Nat
    BY <1>9 DEF IndexOk
  <2>3. Len(w.index) >= 2 /\ Len(w.noted) < Len(w.index)
    BY <1>1, <1>5, <1>9, <1>11, <2>2
  <2>4. QED
    BY <1>1, <1>5, <1>8, <1>9, <1>11, <1>12, <2>1, <2>3 DEF TableOk
<1>14. QED
  BY <1>4, <1>11, <1>12, <1>13 DEF w, n

\* A question, whatever was noted.
LEMMA LogIsRight ==
    ASSUME mix \in [Exponents -> Nat], NEW t, FullTable(t), NEW x \in Exponents
    PROVE  Right(Log(t, x), x) /\ Log(t, x).t.covered = t.covered
<1> DEFINE k == Lookup(t, x)
           d == Densely(t)
<1>1. TableOk(t) /\ t.covered \in Nat /\ x \in Nat
  BY ExponentsAreNumbers, GPowAssumption DEF FullTable, TableOk
<1>2. k = IF x \in Noted(t) THEN x ELSE Absent
  BY <1>1, LookupFinds
<1>3. x # Absent
  BY <1>1 DEF Absent
<1>4. x \in 0 .. t.covered - 1 <=> x < t.covered
  BY <1>1
<1>5. Log(t, x) = IF k # Absent \/ t.dense \/ Len(t.noted) = t.covered THEN [t |-> t, k |-> k]
                  ELSE [t |-> d, k |-> Lookup(d, x)]
  BY Zenon DEF Log
<1>6. CASE k # Absent \/ t.dense \/ Len(t.noted) = t.covered
  <2>1. Log(t, x) = [t |-> t, k |-> k]
    BY <1>5, <1>6
  <2>2. Log(t, x).t = t /\ Log(t, x).k = k
    BY <2>1
  <2>3. k = IF x < t.covered THEN x ELSE Absent
    <3>1. CASE x \in Noted(t)
      <4>1. \A i \in Noted(t) : i \in 0 .. t.covered - 1
        BY <1>1 DEF TableOk, Noted, ListedTo
      <4>2. QED
        BY <1>2, <1>4, <3>1, <4>1
    <3>2. CASE x \notin Noted(t)
      <4>1. t.dense \/ Len(t.noted) = t.covered
        BY <1>2, <1>6, <3>2
      <4>2. Noted(t) = 0 .. t.covered - 1
        BY <1>1, <4>1, AllNoted DEF FullTable
      <4>3. QED
        BY <1>2, <1>4, <3>2, <4>2
    <3>3. QED
      BY <3>1, <3>2
  <2>4. Log(t, x) = [t |-> Log(t, x).t, k |-> Log(t, x).k]
    BY <2>1, <2>2
  <2>5. QED
    BY <2>2, <2>3, <2>4 DEF Right
<1>7. CASE ~(k # Absent \/ t.dense \/ Len(t.noted) = t.covered)
  <2>1. Log(t, x) = [t |-> d, k |-> Lookup(d, x)]
    BY <1>5, <1>7
  <2>2. TableOk(d) /\ d.covered = t.covered /\ Noted(d) = 0 .. t.covered - 1
    BY <1>1, DenselyIsFull
  <2>3. Lookup(d, x) = IF x \in Noted(d) THEN x ELSE Absent
    <3> HIDE DEF d
    <3>1. QED
      BY <2>2, LookupFinds
  <2> HIDE DEF d
  <2>4. Log(t, x).t = d /\ Log(t, x).k = Lookup(d, x)
    BY <2>1
  <2>5. Log(t, x) = [t |-> Log(t, x).t, k |-> Log(t, x).k]
    BY <2>1, <2>4
  <2>6. FullTable(d)
    BY <2>2 DEF FullTable
  <2>7. QED
    BY <1>4, <2>2, <2>3, <2>4, <2>5, <2>6 DEF Right
<1>8. QED
  BY <1>6, <1>7

\* A question that is asked again when more powers are covered.
LEMMA ReachingIsRight ==
    ASSUME mix \in [Exponents -> Nat], NEW t, FullTable(t), NEW x \in Exponents,
           NEW upto \in 0 .. MaxCells - 1
    PROVE  Right(LogReaching(t, x, upto), x)
<1> DEFINE first == Log(t, x)
<1>1. Right(first, x)
  BY LogIsRight
<1>2. FullTable(first.t)
  BY <1>1 DEF Right
<1>3. FullTable(GrowTo(first.t, upto))
  BY <1>2, GrowToKeeps
<1>4. Right(Log(GrowTo(first.t, upto), x), x)
  BY <1>3, LogIsRight
<1>5. LogReaching(t, x, upto) = IF first.k # Absent THEN first ELSE Log(GrowTo(first.t, upto), x)
  BY Zenon DEF LogReaching
<1> HIDE DEF first
<1>6. QED
  BY <1>1, <1>4, <1>5

\* And one that is asked again and again.
LEMMA SpanIsRight ==
    ASSUME mix \in [Exponents -> Nat], NEW t, FullTable(t), NEW x \in Exponents,
           NEW maxSpan \in 0 .. MaxCells - 1
    PROVE  Right(LogSpan(t, x, maxSpan), x)
<1> USE GPowAssumption
<1> DEFINE n == MaxCells
           Grown(r) == GrowTo(r.t, IF 2 * r.t.covered < maxSpan THEN 2 * r.t.covered ELSE maxSpan)
           Again(r) == IF r.k # Absent \/ r.t.covered > maxSpan THEN r ELSE Log(Grown(r), x)
           Body(h) == [i \in 0 .. MaxCells |-> IF i = 0 THEN Log(t, x) ELSE LET r == h[i - 1] IN
                          IF r.k # Absent \/ r.t.covered > maxSpan THEN r
                          ELSE Log(GrowTo(r.t, IF 2 * r.t.covered < maxSpan THEN 2 * r.t.covered
                                               ELSE maxSpan), x)]
           tried == CHOOSE h : h = Body(h)
<1>1. LogSpan(t, x, maxSpan) = tried[MaxCells]
  BY Zenon DEF LogSpan
<1>2. Right(Log(t, x), x)
  BY LogIsRight
<1>3. ASSUME NEW r, Right(r, x)
      PROVE  Right(Again(r), x)
  <2> DEFINE upto == IF 2 * r.t.covered < maxSpan THEN 2 * r.t.covered ELSE maxSpan
  <2>1. FullTable(r.t)
    BY <1>3 DEF Right
  <2>2. r.t.covered \in Nat
    BY <2>1, SMTT(60) DEF FullTable, TableOk
  <2>3. upto \in 0 .. MaxCells - 1
    BY <2>2, SMTT(60)
  <2> HIDE DEF upto
  <2>4. Right(Log(GrowTo(r.t, upto), x), x)
    BY <2>1, <2>3, GrowToKeeps, LogIsRight
  <2>5. QED
    BY <1>3, <2>4 DEF upto
<1> DEFINE X == {r \in [t : Tables, k : Int] : Right(r, x)}
           step == [r \in X |-> Again(r)]
<1>4. ASSUME NEW r, Right(r, x)
      PROVE  r \in X
  <2>1. r.t \in Tables
    BY <1>4, TablesAre DEF Right, FullTable
  <2>2. x \in Int
    BY ExponentsAreNumbers
  <2>3. r.k \in Int
    BY <1>4, <2>2 DEF Right, Absent
  <2>4. r = [t |-> r.t, k |-> r.k]
    BY <1>4 DEF Right
  <2>5. r \in [t : Tables, k : Int]
    BY <2>1, <2>3, <2>4
  <2>6. QED
    BY <1>4, <2>5
<1>5. \A r \in X : Right(r, x)
  OBVIOUS
<1> HIDE DEF X, Again
<1>6. Log(t, x) \in X
  BY <1>2, <1>4
<1>7. step \in [X -> X]
  BY <1>3, <1>4, <1>5
<1>8. PICK f : IsIteration(f, n, X, Log(t, x), step)
  <2> HIDE DEF step
  <2>1. n \in Nat
    OBVIOUS
  <2>2. QED
    BY <1>6, <1>7, <2>1, Iterates
<1>9. /\ f \in [0 .. n -> X] /\ f[0] = Log(t, x)
      /\ \A i \in 1 .. n : f[i - 1] \in X /\ f[i] = Again(f[i - 1])
  <2>1. f \in [0 .. n -> X] /\ f[0] = Log(t, x) /\ \A i \in 1 .. n : f[i] = step[f[i - 1]]
    <3> HIDE DEF step
    <3>1. QED
      BY <1>8 DEF IsIteration
  <2>2. \A i \in 1 .. n : i - 1 \in 0 .. n
    OBVIOUS
  <2>3. QED
    BY <2>1, <2>2
<1>10. \A h : Body(h) = [i \in 0 .. MaxCells |-> IF i = 0 THEN Log(t, x) ELSE Again(h[i - 1])]
  BY Zenon DEF Again
<1> HIDE DEF Body
<1>11. f = Body(f)
  <2>1. ASSUME NEW i \in 0 .. n
        PROVE  f[i] = IF i = 0 THEN Log(t, x) ELSE Again(f[i - 1])
    <3>1. i # 0 => i \in 1 .. n
      OBVIOUS
    <3>2. QED
      BY <1>9, <3>1
  <2>2. f = [i \in 0 .. n |-> f[i]]
    BY <1>9
  <2>3. QED
    BY <1>10, <2>1, <2>2
<1>12. tried = Body(tried)
  BY <1>11
<1> HIDE DEF tried
<1>13. tried[0] = Log(t, x) /\ \A i \in 1 .. n : tried[i] = Again(tried[i - 1])
  <2>1. tried = [i \in 0 .. MaxCells |-> IF i = 0 THEN Log(t, x) ELSE Again(tried[i - 1])]
    BY <1>10, <1>12
  <2>2. 0 \in 0 .. n /\ \A i \in 1 .. n : i \in 0 .. n /\ i # 0
    OBVIOUS
  <2>3. QED
    BY <2>1, <2>2
<1> DEFINE S == {i \in 0 .. n : Right(tried[i], x)}
<1>14. 0 \in S
  BY <1>2, <1>13
<1>15. ASSUME NEW i \in 0 .. n - 1, i \in S
       PROVE  i + 1 \in S
  <2>1. i + 1 \in 1 .. n /\ (i + 1) - 1 = i
    OBVIOUS
  <2>2. tried[i + 1] = Again(tried[i])
    BY <1>13, <2>1
  <2>3. Right(tried[i + 1], x)
    BY <1>3, <1>15, <2>2
  <2>4. QED
    BY <2>1, <2>3
<1>16. n \in S
  <2> HIDE DEF S
  <2>1. \A i \in 0 .. n : i \in S
    BY <1>14, <1>15, UpTo
  <2>2. QED
    BY <2>1
<1>17. QED
  BY <1>1, <1>16

-----------------------------------------------------------------------------
(***************************************************************************)
(* The invariant, step by step.                                            *)
(***************************************************************************)

\* The table is in order whatever the mix gives, and the last answer is right.
GPowInv == mix \in Mixes /\ FullTable(g) /\ LogInvertsPow

\* The mix is defined on every word.
LEMMA MixIsTotal ==
    ASSUME mix \in Mixes
    PROVE  mix \in [Exponents -> Nat]
BY GPowAssumption DEF Exponents

\* The first table is in order.
LEMMA IndexInit == GPowInit => GPowInv
<1> SUFFICES ASSUME GPowInit PROVE GPowInv
  OBVIOUS
<1>1. mix \in Mixes /\ g = New(Seeded) /\ answer = NoAnswer
  BY DEF GPowInit
<1>2. Seeded \in 0 .. MaxCells - 1
  BY GPowAssumption
<1>3. FullTable(New(Seeded))
  BY <1>1, <1>2, MixIsTotal, NewIsFull
<1>4. QED
  BY <1>1, <1>3 DEF GPowInv, LogInvertsPow

\* More powers are covered.
LEMMA CoverKeeps == GPowInv /\ Cover => GPowInv'
<1> SUFFICES ASSUME GPowInv, Cover PROVE GPowInv'
  OBVIOUS
<1>1. PICK upto \in g.covered .. MaxCells - 1 : g' = GrowTo(g, upto)
  BY DEF Cover
<1>2. mix' = mix /\ answer' = NoAnswer /\ mix \in Mixes /\ FullTable(g)
  BY DEF Cover, GPowInv
<1>3. upto \in 0 .. MaxCells - 1
  BY <1>2, GPowAssumption DEF FullTable, TableOk
<1>4. FullTable(GrowTo(g, upto))
  BY <1>2, <1>3, MixIsTotal, GrowToKeeps
<1>5. FullTable(g')
  BY <1>1, <1>4
<1>6. FullTable(g)'
  BY <1>2, <1>5 DEF FullTable, TableOk, IndexOk, Placed, Noted, ListedTo, ChainSlot, SlotOf
<1>7. QED
  BY <1>2, <1>6 DEF GPowInv, LogInvertsPow

\* An exponent is noted: once all are indexed, it was noted before.
LEMMA AnnounceKeeps == GPowInv /\ Announce => GPowInv'
<1> SUFFICES ASSUME GPowInv, Announce PROVE GPowInv'
  OBVIOUS
<1>1. PICK k \in 0 .. g.covered - 1 : g' = Note(g, k)
  BY DEF Announce
<1>2. mix' = mix /\ answer' = NoAnswer /\ mix \in Mixes /\ FullTable(g) /\ TableOk(g)
  BY DEF Announce, GPowInv, FullTable
<1>3. NotedAlso(g, Note(g, k), {k})
  BY <1>2, MixIsTotal, NoteKeeps
<1>4. TableOk(g') /\ g'.covered = g.covered /\ g'.dense = g.dense /\ Noted(g') = Noted(g) \cup {k}
  BY <1>1, <1>3 DEF NotedAlso
<1>5. g.dense => Noted(g') = 0 .. g'.covered - 1
  BY <1>2, <1>4 DEF FullTable
<1>6. FullTable(g')
  BY <1>4, <1>5 DEF FullTable
<1>7. FullTable(g)'
  BY <1>2, <1>6 DEF FullTable, TableOk, IndexOk, Placed, Noted, ListedTo, ChainSlot, SlotOf
<1>8. QED
  BY <1>2, <1>7 DEF GPowInv, LogInvertsPow

\* A question is answered.
LEMMA AnsweredKeeps ==
    ASSUME GPowInv, NEW x \in 0 .. MaxWord, NEW r, Right(r, x), Answered(x, r)
    PROVE  GPowInv'
<1>1. g' = r.t /\ answer' = [of |-> x, k |-> r.k] /\ mix' = mix /\ mix \in Mixes
  BY DEF Answered, GPowInv
<1>2. FullTable(g') /\ r.k = IF x < g'.covered THEN x ELSE Absent
  BY <1>1 DEF Right
<1>3. FullTable(g)'
  BY <1>1, <1>2 DEF FullTable, TableOk, IndexOk, Placed, Noted, ListedTo, ChainSlot, SlotOf
<1>4. answer'.of = x /\ answer'.k = r.k
  BY <1>1
<1>5. LogInvertsPow'
  BY <1>2, <1>4 DEF LogInvertsPow
<1>6. QED
  BY <1>1, <1>3, <1>5 DEF GPowInv

\* The three ways to ask.
LEMMA QuestionsKeep == GPowInv /\ (Invert \/ InvertSize \/ InvertSpan) => GPowInv'
<1> SUFFICES ASSUME GPowInv, Invert \/ InvertSize \/ InvertSpan PROVE GPowInv'
  OBVIOUS
<1>1. mix \in [Exponents -> Nat] /\ FullTable(g)
  BY MixIsTotal DEF GPowInv
<1>2. CASE Invert
  <2>1. PICK x \in 0 .. MaxWord : Answered(x, Log(g, x))
    BY <1>2 DEF Invert
  <2>2. Right(Log(g, x), x)
    BY <1>1, LogIsRight DEF Exponents
  <2>3. QED
    BY <2>1, <2>2, AnsweredKeeps
<1>3. CASE InvertSize
  <2>1. PICK x \in 0 .. MaxWord : Answered(x, LogReaching(g, x, LargestSize))
    BY <1>3 DEF InvertSize
  <2>2. LargestSize \in 0 .. MaxCells - 1
    BY GPowAssumption
  <2>3. Right(LogReaching(g, x, LargestSize), x)
    BY <1>1, <2>2, ReachingIsRight DEF Exponents
  <2>4. QED
    BY <2>1, <2>3, AnsweredKeeps
<1>4. CASE InvertSpan
  <2>1. PICK x \in 0 .. MaxWord, maxSpan \in 0 .. MaxCells - 1 : Answered(x, LogSpan(g, x, maxSpan))
    BY <1>4 DEF InvertSpan
  <2>2. Right(LogSpan(g, x, maxSpan), x)
    BY <1>1, SpanIsRight DEF Exponents
  <2>3. QED
    BY <2>1, <2>2, AnsweredKeeps
<1>5. QED
  BY <1>2, <1>3, <1>4

-----------------------------------------------------------------------------
(***************************************************************************)
(* The theorems.                                                           *)
(***************************************************************************)

\* The index stays in order, for every mix, every size and every order of the calls of
\* hints.rs: each noted exponent is entered once, no search for it passes an empty
\* slot, there is room, and once all powers are indexed none is missing.
THEOREM GPowInvariant == GPowSpec => []GPowInv
<1>1. GPowInit => GPowInv
  BY IndexInit
<1>2. GPowInv /\ [GPowNext]_gpowVars => GPowInv'
  <2> SUFFICES ASSUME GPowInv, [GPowNext]_gpowVars PROVE GPowInv'
    OBVIOUS
  <2>1. CASE Cover
    BY <2>1, CoverKeeps
  <2>2. CASE Announce
    BY <2>2, AnnounceKeeps
  <2>3. CASE Invert \/ InvertSize \/ InvertSpan
    BY <2>3, QuestionsKeep
  <2>4. CASE UNCHANGED gpowVars
    BY <2>4 DEF gpowVars, GPowInv, LogInvertsPow, FullTable, TableOk, IndexOk, Placed, Noted,
                ListedTo, ChainSlot, SlotOf
  <2>5. QED
    BY <2>1, <2>2, <2>3, <2>4 DEF GPowNext
<1>3. QED
  BY <1>1, <1>2, PTL DEF GPowSpec

\* The discrete logarithm of hints.rs is "slow, never wrong": a word is found if and only
\* if it is a covered power, as its exponent, whatever was noted, covered or asked before.
THEOREM LogsInvertPowers == GPowSpec => []LogInvertsPow
<1>1. GPowInv => LogInvertsPow
  BY DEF GPowInv
<1>2. QED
  BY <1>1, GPowInvariant, PTL

=============================================================================
