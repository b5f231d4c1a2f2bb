------------------------------ MODULE Machine ------------------------------
(***************************************************************************)
(* The interpreter (lean_vm/src/cpu/execute.rs).  It runs a program to its *)
(* last slot on a write-once memory whose addresses are exponents of g,    *)
(* and keeps the rows the tables are filled from: a row is what was        *)
(* executed and the counts its accesses read.  Hints, which no table sees, *)
(* run before their instruction and only ever choose values of cells.      *)
(*                                                                         *)
(* An execution is a record; a step that fails sets its fault, after which *)
(* nothing is done.                                                        *)
(***************************************************************************)
EXTENDS Field, Integers, Sequences, FiniteSets

CONSTANTS Cells,             \* cells of memory: powers of g below the order of g
          Compression(_, _, _, _) \* the hash: two halves of message, chaining value, metadata

Tables6 == {"XOR", "MUL", "SET", "DEREF", "JUMP", "BLAKE2S"}

Addresses == 0..Cells - 1

InK(v) == v[2] = 0 /\ v[3] = 0

\* The exponent of a power of g below bound, -1 when x is none.
LogBelow(x, bound) ==
  IF \E n \in 0..bound - 1 : GPow(n) = x THEN CHOOSE n \in 0..bound - 1 : GPow(n) = x ELSE -1

AddressOf(v) == IF InK(v) THEN LogBelow(v[1], Cells) ELSE -1

Fault(e, why) == IF e.fault = "none" THEN [e EXCEPT !.fault = why] ELSE e

-----------------------------------------------------------------------------
(* Memory. *)

Written(e, cell) == e.status[cell] = "written"

\* What a store at a linked cell reaches: through linked cells, each of which
\* takes the value; a written one ends the walk and has to hold it already.
Reached(e, cell) ==
  LET grow[i \in 0..Cardinality(e.links)] ==
        IF i = 0 THEN {cell}
        ELSE LET s == grow[i - 1]
             IN  s \cup {l[2] : l \in {x \in e.links : x[1] \in s /\ e.status[x[1]] = "linked"}}
  IN  grow[Cardinality(e.links)]

Put(e, cell, v) ==
  IF e.fault # "none" THEN e
  ELSE IF cell \notin Addresses THEN Fault(e, "out of memory")
  ELSE IF e.status[cell] # "linked"
  THEN IF Written(e, cell) /\ e.cells[cell] # v THEN Fault(e, "conflict")
       ELSE [e EXCEPT !.cells[cell] = v, !.status[cell] = "written"]
  ELSE LET reach == Reached(e, cell)
       IN  IF \E c \in reach : Written(e, c) /\ e.cells[c] # v THEN Fault(e, "conflict")
           ELSE [e EXCEPT !.cells  = [c \in Addresses |-> IF c \in reach THEN v ELSE @[c]],
                          !.status = [c \in Addresses |-> IF c \in reach THEN "written" ELSE @[c]],
                          !.links  = {l \in @ : l[1] \notin reach}]

\* Reading a cell nothing wrote settles it at zero, and is noted.
Read(e, cell) ==
  IF e.fault # "none" THEN e
  ELSE IF cell \notin Addresses THEN Fault(e, "out of memory")
  ELSE IF Written(e, cell) THEN e
  ELSE [e EXCEPT !.status[cell] = "written", !.unread = Append(@, cell)]

ReadAll(e, cells) ==
  LET r[i \in 0..Len(cells)] == IF i = 0 THEN e ELSE Read(r[i - 1], cells[i])
  IN  r[Len(cells)]

Link(e, a, b) ==
  IF {a, b} \subseteq Addresses
  THEN [e EXCEPT !.links = @ \cup {<<a, b>>, <<b, a>>},
                 !.status = [c \in Addresses |->
                               IF c \in {a, b} /\ @[c] = "unwritten" THEN "linked" ELSE @[c]]]
  ELSE Fault(e, "out of memory")

\* Access the cells in turn: the row gets the count each has, which goes up.
Row(e, t, cells) ==
  IF e.fault # "none" THEN e
  ELSE LET upto(i, c) == Cardinality({j \in 1..i : cells[j] = c})
           raised(k, n) == LET f[i \in 0..n] == IF i = 0 THEN k ELSE KTimesG(f[i - 1]) IN f[n]
       IN  [e EXCEPT
              !.count = [c \in Addresses |-> raised(@[c], upto(Len(cells), c))],
              !.pcCount[e.pc] = KTimesG(@),
              !.rows[t] = Append(@, [pc |-> e.pc, fp |-> e.fp,
                            counts |-> [i \in 1..Len(cells) |->
                                          raised(e.count[cells[i]], upto(i - 1, cells[i]))]
                                       \o <<e.pcCount[e.pc]>>])]

-----------------------------------------------------------------------------
(* Instructions. *)

Advance(e) == [e EXCEPT !.pc = @ + 1]

\* A product whose result is there and whose other operand is: solve for the
\* missing operand.
BackSolve(e, a, b, c) ==
  IF Written(e, c) /\ Written(e, a) # Written(e, b)
  THEN LET known   == IF Written(e, a) THEN a ELSE b
           missing == IF Written(e, a) THEN b ELSE a
       IN  IF e.cells[known] = EZero THEN Fault(e, "back-solve through zero")
           ELSE Put(e, missing, EMul(e.cells[c], EInv(e.cells[known])))
  ELSE e

Arith(e, op) ==
  LET a == e.fp + op.a
      b == e.fp + op.b
      c == e.fp + op.c
      solved == IF op.op = "MUL" THEN BackSolve(e, a, b, c) ELSE e
      read   == ReadAll(solved, <<a, b>>)
      value  == IF op.op = "XOR" THEN EAdd(read.cells[a], read.cells[b])
                ELSE EMul(read.cells[a], read.cells[b])
  IN  IF ~({a, b, c} \subseteq Addresses) THEN Fault(e, "out of memory")
      ELSE Advance(Row(Put(read, c, value), op.op, <<a, b, c>>))

Set(e, op) == Advance(Row(Put(e, e.fp + op.o, op.k), "SET", <<e.fp + op.o>>))

\* The store of mode Cell goes whichever way a value is known; with none, the
\* two cells are tied until one is.
DerefStoreAt(e, op, a2, a3) ==
  CASE op.mode = "Pc" -> Put(e, a2, Lift(GPow(e.pc + 2)))
    [] op.mode = "Fp" -> Put(e, a2, Lift(GPow(e.fp)))
    [] op.mode = "Cell" /\ Written(e, a2) -> Put(e, a3, e.cells[a2])
    [] op.mode = "Cell" /\ ~Written(e, a2) /\ Written(e, a3) -> Put(e, a2, e.cells[a3])
    [] OTHER -> Link(e, a2, a3)

Deref(e, op) ==
  LET a1   == e.fp + op.o1
      read == Read(e, a1)
      base == AddressOf(read.cells[a1])
      a2   == base + op.o2
      a3   == e.fp + op.o3
  IN  IF ~({a1, a3} \subseteq Addresses) THEN Fault(e, "out of memory")
      ELSE IF base < 0 THEN Fault(read, "wild pointer")
      ELSE IF a2 \notin Addresses THEN Fault(read, "out of memory")
      ELSE Advance(Row(DerefStoreAt(read, op, a2, a3), "DEREF", <<a1, a2, a3>>))

Jump(e, op, size) ==
  LET at   == <<e.fp + op.oc, e.fp + op.od, e.fp + op.of>>
      read == ReadAll(e, at)
      v    == [i \in 1..3 |-> read.cells[at[i]]]
      row  == Row(read, "JUMP", at)
      target == LogBelow(v[2][1], size)
      frame  == LogBelow(v[3][1], Cells)
  IN  IF \E i \in 1..3 : at[i] \notin Addresses THEN Fault(e, "out of memory")
      ELSE IF \E i \in 1..3 : ~InK(v[i]) THEN Fault(read, "not in K")
      ELSE IF v[1] = EZero THEN Advance(row)
      ELSE IF target < 0 \/ frame < 0 THEN Fault(read, "not a g-power")
      ELSE [row EXCEPT !.pc = target, !.fp = frame]

Blake2s(e, op) ==
  LET in  == [i \in 1..4 |-> e.fp + op.ins[i]] \o <<e.fp + op.cv, e.fp + op.cv + 1, e.fp + op.md>>
      out == <<e.fp + op.out, e.fp + op.out + 1>>
      read == ReadAll(e, in)
      w(i) == read.cells[in[i]]
      half(i) == <<w(i)[1], w(i)[2], w(i + 1)[1], w(i + 1)[2]>>
      digest == Compression(half(1), half(3), half(5), <<w(7)[1], w(7)[2]>>)
      stored == Put(Put(read, out[1], <<digest[1], digest[2], 0>>), out[2], <<digest[3], digest[4], 0>>)
  IN  IF \E i \in 1..7 : in[i] \notin Addresses THEN Fault(e, "out of memory")
      ELSE IF \E i \in 1..7 : w(i)[3] # 0 THEN Fault(read, "not canonical")
      ELSE Advance(Row(stored, "BLAKE2S", SubSeq(in, 1, 6) \o out \o <<in[7]>>))

Execute(e, op, size) ==
  CASE op.op \in {"XOR", "MUL"} -> Arith(e, op)
    [] op.op = "SET"     -> Set(e, op)
    [] op.op = "DEREF"   -> Deref(e, op)
    [] op.op = "JUMP"    -> Jump(e, op, size)
    [] op.op = "BLAKE2S" -> Blake2s(e, op)

-----------------------------------------------------------------------------
(* A run: the public input is in the first two cells, and the program ends  *)
(* in its last slot, in the first frame.                                    *)

StartExecution(prog, pi, mainFrame) ==
  LET blank == [pc |-> 0, fp |-> 0, fault |-> "none",
                cells  |-> [c \in Addresses |-> EZero],
                status |-> [c \in Addresses |-> "unwritten"],
                count  |-> [c \in Addresses |-> 1],
                pcCount |-> [p \in 0..Len(prog) - 1 |-> 1],
                links |-> {}, unread |-> << >>, nextFree |-> mainFrame,
                rows |-> [t \in Tables6 |-> << >>]]
  IN  Put(Put(blank, 0, pi[1]), 1, pi[2])

Halted(e, prog) == e.pc = Len(prog) - 1

ExecuteStep(e, prog) == Execute(e, prog[e.pc + 1], Len(prog))

\* What the prover takes from a finished run.
ExecutionOf(e) ==
  [mem      |-> [i \in 1..Cells |-> e.cells[i - 1]] \o << >>,
   memCount |-> [i \in 1..Cells |-> e.count[i - 1]] \o << >>,
   pcCount  |-> [i \in 1..Cardinality(DOMAIN e.pcCount) |-> e.pcCount[i - 1]] \o << >>,
   rows     |-> e.rows]
=============================================================================
