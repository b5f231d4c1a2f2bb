------------------------------ MODULE WriteOnce ------------------------------
(***************************************************************************)
(* The write-once data memory of the interpreter, crates/lean_vm           *)
(* cpu/execute.rs, under every instruction of the machine: `Mem` with its  *)
(* links, and what each opcode and each hint does to it.                   *)
(*                                                                         *)
(* The rows of a proof are not recorded values: they are filled from the   *)
(* final image (cpu/trace.rs), so an instruction is proved of what memory  *)
(* holds in the end, not of what it read. The program is any sequence of   *)
(* instructions: each step picks an instruction and its operand cells.     *)
(* The field is a parameter.                                               *)
(*                                                                         *)
(* A definition commented "Variant" is a plausible fault of the one it     *)
(* precedes; it is used by nothing and is there to be swapped in.          *)
(***************************************************************************)
EXTENDS Integers

CONSTANTS
    Cells,          \* the data cells
    Words,          \* F192
    Zero, One,
    Add(_, _), Mul(_, _), Inv(_),
    Cell(_, _),     \* the cell a word points at, with an offset, or NoCell
    NoCell,
    InK(_),         \* the word is in the base field
    Canonical(_),   \* the word is a 128-bit embedding
    Hash(_, _, _),  \* the two output words of a compression
    Pointers,       \* the words g^pc and g^fp a DEREF stores
    Constants,      \* the words SET stores and hints supply
    Derefs,         \* the operands of DEREF: pointer cell, offset, local cell
    Operands,       \* the operand triples of XOR, MUL and JUMP
    HashOperands,   \* the operand cells of BLAKE2s: three of its seven inputs (a
                    \* message, a chaining and the metadata cell) and two outputs
    Inputs,         \* the public inputs
    MaxSteps        \* MAX_STEPS

ASSUME WriteOnceAssumption ==
    /\ {0, 1} \subseteq Cells
    /\ NoCell \notin Cells
    /\ {Zero, One} \subseteq Words /\ Zero # One
    /\ \A x, y \in Words : Add(x, y) \in Words /\ Mul(x, y) \in Words
    /\ \A x \in Words : Inv(x) \in Words
    /\ Derefs \subseteq Cells \X Nat \X Cells
    /\ \A x \in Words, d \in Derefs : Cell(x, d[2]) \in Cells \cup {NoCell}
    /\ \A x, y, z \in Words : Hash(x, y, z) \in Words \X Words
    /\ Pointers \subseteq Words /\ Constants \subseteq Words
    /\ Operands \subseteq Cells \X Cells \X Cells
    /\ HashOperands \subseteq [ins : Cells \X Cells \X Cells, out : Cells \X Cells]
    /\ Inputs \subseteq Words \X Words
    /\ MaxSteps \in Nat

VARIABLES
    mem,        \* the memory: values, states, links, unwritten_reads
    steps,
    fault,      \* what stopped the run, or "none"
    row         \* history: one executed row, any one, that a proof contains

vars == <<mem, steps, fault, row>>

States == {"Unwritten", "Linked", "Written"}

Memories ==
    [val : [Cells -> Words], state : [Cells -> States], links : [Cells -> SUBSET Cells],
     unread : SUBSET Cells, conflict : BOOLEAN]

Faults == {"none", "Conflict", "WildPointer", "NotInK", "NotCanonical",
           "BackSolveThroughZero", "StepLimit"}

NoRow == [op |-> "none"]

TypeOK ==
    /\ mem \in Memories
    /\ steps \in 0 .. MaxSteps
    /\ fault \in Faults

-----------------------------------------------------------------------------
(***************************************************************************)
(* Mem.                                                                    *)
(***************************************************************************)

Written(m, c) == m.state[c] = "Written"

\* Variant: an unwritten cell reads as zero and stays unwritten.
ReadUnpinned(m, cs) ==
    [m EXCEPT !.unread = @ \cup {c \in cs : ~Written(m, c)}]

\* An instruction's reads: an unwritten cell holds zero, which is pinned there
\* and noted, without reaching the cells it is linked to.
Read(m, cs) ==
    [m EXCEPT !.state = [c \in Cells |-> IF c \in cs THEN "Written" ELSE @[c]],
              !.unread = @ \cup {c \in cs : ~Written(m, c)}]

\* The links that a write of start follows: its own, and those of the linked
\* cells it comes to.
Closed(m, start, cs) ==
    \A c \in cs : c = start \/ m.state[c] = "Linked" => m.links[c] \subseteq cs

\* Variant: the spread stops after one link.
ReachOnce(m, start) ==
    IF m.state[start] = "Linked" THEN {start} \cup m.links[start] ELSE {start}

\* The cells a write to start reaches.
Reach(m, start) ==
    IF m.state[start] = "Linked"
    THEN {c \in Cells :
            \A cs \in SUBSET Cells : start \in cs /\ Closed(m, start, cs) => c \in cs}
    ELSE {start}

\* Variant: only the cell itself is checked, the linked ones are overwritten.
ConflictsAtStart(m, start, v) == Written(m, start) /\ m.val[start] # v

\* A cell that is reached holds another value for good.
Conflicts(m, start, v) ==
    \E c \in Reach(m, start) : Written(m, c) /\ m.val[c] # v

\* put: a write-once store, carried to the linked cells. The links it followed
\* are gone; another value in any of the cells is a conflict.
Put(m, start, v) ==
    LET reached == Reach(m, start)
    IN  IF Conflicts(m, start, v)
        THEN [m EXCEPT !.conflict = TRUE]
        ELSE [m EXCEPT !.val = [c \in Cells |-> IF c \in reached THEN v ELSE @[c]],
                       !.state = [c \in Cells |->
                                    IF c \in reached THEN "Written" ELSE @[c]],
                       !.links = [c \in Cells |->
                                    IF c \in reached /\ m.state[c] = "Linked"
                                    THEN {} ELSE @[c]]]

\* Variant: the link is one way.
LinkOneWay(m, a, b) ==
    [m EXCEPT !.state = [c \in Cells |-> IF c = a THEN "Linked" ELSE @[c]],
              !.links = [@ EXCEPT ![a] = @ \cup {b}]]

Link(m, a, b) ==
    [m EXCEPT !.state = [c \in Cells |->
                           IF c \in {a, b} /\ @[c] = "Unwritten" THEN "Linked" ELSE @[c]],
              !.links = [c \in Cells |->
                           @[c] \cup {p \in {a, b} : {c, p} = {a, b}}]]

Empty ==
    [val |-> [c \in Cells |-> Zero], state |-> [c \in Cells |-> "Unwritten"],
     links |-> [c \in Cells |-> {}], unread |-> {}, conflict |-> FALSE]

Init ==
    /\ \E pi \in Inputs : mem = Put(Put(Empty, 0, pi[1]), 1, pi[2])
    /\ steps = 0
    /\ fault = "none"
    /\ row = NoRow

-----------------------------------------------------------------------------
(***************************************************************************)
(* The instructions.                                                       *)
(***************************************************************************)

Running == fault = "none" /\ steps < MaxSteps

\* An error ends the run; the image of a failed run is dropped.
Fail(kind) == fault' = kind /\ UNCHANGED <<mem, steps, row>>

\* The run goes on with the memory m and its new row, or stops in a conflict.
Commit(m, r) ==
    /\ IF m.conflict
       THEN Fail("Conflict")
       ELSE /\ mem' = m
            /\ row' \in IF row = NoRow THEN {NoRow, r} ELSE {row}
            /\ steps' = steps + 1
            /\ UNCHANGED fault

Row(op, at, w) == [op |-> op, at |-> at, w |-> w]

\* XOR never deduces an operand: that is how an assertion is spelled.
Xor(t) ==
    LET m == Read(mem, {t[1], t[2]})
    IN  /\ Running
        /\ Commit(Put(m, t[3], Add(m.val[t[1]], m.val[t[2]])), Row("xor", t, Zero))

\* A written product and exactly one written factor.
BackSolves(t) ==
    /\ Written(mem, t[3])
    /\ Written(mem, t[1]) # Written(mem, t[2])

Known(t)   == IF Written(mem, t[1]) THEN t[1] ELSE t[2]
Unknown(t) == IF Written(mem, t[1]) THEN t[2] ELSE t[1]

\* The other factor is solved for first, then the row is computed forward.
MulRow(t) ==
    /\ Running
    /\ IF BackSolves(t) /\ mem.val[Known(t)] = Zero
       THEN Fail("BackSolveThroughZero")
       ELSE LET solved == IF BackSolves(t)
                          THEN Put(mem, Unknown(t),
                                   Mul(mem.val[t[3]], Inv(mem.val[Known(t)])))
                          ELSE mem
                m == Read(solved, {t[1], t[2]})
            IN  Commit(IF solved.conflict THEN solved
                       ELSE Put(m, t[3], Mul(m.val[t[1]], m.val[t[2]])),
                       Row("mul", t, Zero))

Set(c, k) == Running /\ Commit(Put(mem, c, k), Row("set", <<c>>, k))

\* Variant: nothing is kept of two cells that are both unwritten.
EqualizeWritten(m, a2, a3) ==
    IF Written(m, a2) THEN Put(m, a3, m.val[a2])
    ELSE IF Written(m, a3) THEN Put(m, a2, m.val[a3])
    ELSE m

\* A written side is carried to the other; two unwritten sides are linked.
Equalize(m, a2, a3) ==
    IF Written(m, a2) THEN Put(m, a3, m.val[a2])
    ELSE IF Written(m, a3) THEN Put(m, a2, m.val[a3])
    ELSE Link(m, a2, a3)

\* The pointer is read, hence pinned, before the two cells are made equal.
DerefCell(a1, o2, a3) ==
    LET m == Read(mem, {a1})
        a2 == Cell(m.val[a1], o2)
    IN  /\ Running
        /\ IF a2 = NoCell
           THEN Fail("WildPointer")
           ELSE Commit(Equalize(m, a2, a3), Row("deref", <<a1, a2, a3>>, o2))

\* A return target or a frame base goes to the cell pointed at.
DerefPointer(a1, o2, k) ==
    LET m == Read(mem, {a1})
        a2 == Cell(m.val[a1], o2)
    IN  /\ Running
        /\ IF a2 = NoCell
           THEN Fail("WildPointer")
           ELSE Commit(Put(m, a2, k), Row("set", <<a2>>, k))

\* Condition, target and frame are in K on every row, taken or not.
Jump(t) ==
    LET m == Read(mem, {t[i] : i \in 1 .. 3})
    IN  /\ Running
        /\ IF \A i \in 1 .. 3 : InK(m.val[t[i]])
           THEN Commit(m, Row("jump", t, Zero))
           ELSE Fail("NotInK")

Digest(m, ins) == Hash(m.val[ins[1]], m.val[ins[2]], m.val[ins[3]])

Blake2s(h) ==
    LET m == Read(mem, {h.ins[i] : i \in 1 .. 3})
        first == Put(m, h.out[1], Digest(m, h.ins)[1])
    IN  /\ Running
        /\ IF \A i \in 1 .. 3 : Canonical(m.val[h.ins[i]])
           THEN Commit(IF first.conflict THEN first
                       ELSE Put(first, h.out[2], Digest(m, h.ins)[2]),
                       Row("blake2s", h, Zero))
           ELSE Fail("NotCanonical")

\* A hint stores advice: a witness word, a bit, an inverse, a fresh address. It
\* leaves no row.
Hint(c, k) ==
    LET m == Put(mem, c, k)
    IN  /\ Running
        /\ IF m.conflict
           THEN Fail("Conflict")
           ELSE mem' = m /\ UNCHANGED <<steps, fault, row>>

StopAtLimit == fault = "none" /\ steps = MaxSteps /\ Fail("StepLimit")

Next ==
    \/ \E t \in Operands : Xor(t) \/ MulRow(t) \/ Jump(t)
    \/ \E c \in Cells, k \in Constants : Set(c, k) \/ Hint(c, k)
    \/ \E d \in Derefs :
        DerefCell(d[1], d[2], d[3]) \/ \E k \in Pointers : DerefPointer(d[1], d[2], k)
    \/ \E h \in HashOperands : Blake2s(h)
    \/ StopAtLimit

Spec == Init /\ [][Next]_vars

-----------------------------------------------------------------------------
(***************************************************************************)
(* Properties.                                                             *)
(***************************************************************************)

\* What the tables of the machine constrain of a row, over the image m.
Holds(r, m) ==
    CASE r.op = "none"    -> TRUE
      [] r.op = "xor"     -> m.val[r.at[3]] = Add(m.val[r.at[1]], m.val[r.at[2]])
      [] r.op = "mul"     -> m.val[r.at[3]] = Mul(m.val[r.at[1]], m.val[r.at[2]])
      [] r.op = "set"     -> m.val[r.at[1]] = r.w
      [] r.op = "deref"   -> /\ Cell(m.val[r.at[1]], r.w) = r.at[2]
                             /\ m.val[r.at[2]] = m.val[r.at[3]]
      [] r.op = "jump"    -> \A i \in 1 .. 3 : InK(m.val[r.at[i]])
      [] r.op = "blake2s" ->
            /\ \A i \in 1 .. 3 : Canonical(m.val[r.at.ins[i]])
            /\ <<m.val[r.at.out[1]], m.val[r.at.out[2]]>> = Digest(m, r.at.ins)

\* The comment of cpu/trace.rs: rows are read back from the final image. Every
\* executed row holds of the image at whatever later moment the run halts,
\* although the cells it used may have been unwritten, linked or aliased.
RowHoldsToTheEnd == Holds(row, mem)

\* "Write-once": a written cell never changes, and a cell that reads as zero
\* never turns out to be something else.
WrittenForGood ==
    [][\A c \in Cells : Written(mem, c) =>
          Written(mem', c) /\ mem'.val[c] = mem.val[c]]_vars

\* "A DEREF between two unwritten cells links them, and a write to either
\* reaches the other at once": linked cells agree in every state, through any
\* chain of links, and no link is one way.
LinkedCellsAgree ==
    \A c \in Cells : \A p \in mem.links[c] :
        mem.val[c] = mem.val[p] /\ (mem.state[p] = "Linked" => c \in mem.links[p])

=============================================================================
