----------------------------- MODULE ArenaProofs -----------------------------
(***************************************************************************)
(* What the arena's runs check on a small instance, for every number of    *)
(* threads, buffers and slabs, every slab size, list capacity and set of   *)
(* requests: one phase is open at a time; and, where no buffer is kept     *)
(* into a later phase, no two valid buffers share a unit, a held block is  *)
(* nobody's, and no two held blocks touch.                                 *)
(*                                                                         *)
(* The inductive invariant is BlockInv. It says more than the properties   *)
(* in three ways: the cursor bounds every entry and every buffer of a      *)
(* slab, the slabs of two threads differ, and a valid buffer of an entry's *)
(* size is aligned as an entry must be, so that its release may hold it.   *)
(* The lemmas up to VecsStep are about values and not states: each says    *)
(* what one function of the allocator does to a list, a slab or the map of *)
(* slabs, and the steps of the specification only apply them.              *)
(***************************************************************************)
EXTENDS Arena, Induction

-----------------------------------------------------------------------------
(***************************************************************************)
(* Arithmetic.                                                             *)
(***************************************************************************)

\* The parts of ArenaAssumption the arithmetic uses.
LEMMA Constants ==
    /\ CacheLine \in Nat \ {0} /\ ReuseMin \in Nat /\ ReuseMin >= CacheLine
    /\ SlabSize \in Nat \ {0} /\ SlabSize % CacheLine = 0
    /\ MaxSlabs \in Nat /\ FreeListCap \in Nat
BY ArenaAssumption

\* A number leaves no remainder exactly where it is a multiple: align_up and the slab bases
\* are multiples, the properties speak of remainders.
LEMMA Divides ==
    \A a \in Nat, d \in Nat \ {0} :
        a % d = 0 <=> \E q \in Nat : a = d * q
<1> SUFFICES ASSUME NEW a \in Nat, NEW d \in Nat \ {0}
             PROVE  a % d = 0 <=> \E q \in Nat : a = d * q
    OBVIOUS
<1>1. a = d * (a \div d) + (a % d) /\ a % d \in 0 .. d - 1
    OBVIOUS
<1>2. a \div d \in Nat
    OBVIOUS
<1>3. ASSUME NEW q \in Nat, a = d * q
      PROVE  a % d = 0
    <2>1. \A x \in Nat : (d * x) % d = 0
        OBVIOUS
    <2>2. QED
        BY <1>3, <2>1
<1>4. ASSUME a % d = 0
      PROVE  \E q \in Nat : a = d * q
    <2> DEFINE q == a \div d
    <2>1. a = d * q
        BY <1>1, <1>4
    <2> HIDE DEF q
    <2>2. QED
        BY <1>2, <2>1 DEF q
<1>5. QED
    BY <1>3, <1>4

\* align_up: the result is aligned and not below the address.
LEMMA AlignUpBounds ==
    \A addr \in Nat, align \in Nat \ {0} :
        /\ AlignUp(addr, align) \in Nat
        /\ AlignUp(addr, align) >= addr
        /\ AlignUp(addr, align) % align = 0
<1> SUFFICES ASSUME NEW addr \in Nat, NEW align \in Nat \ {0}
             PROVE  /\ AlignUp(addr, align) \in Nat
                    /\ AlignUp(addr, align) >= addr
                    /\ AlignUp(addr, align) % align = 0
    OBVIOUS
<1> DEFINE q == (addr + align - 1) \div align
<1>1. q \in Nat
    OBVIOUS
<1>2. addr + align - 1 = align * q + ((addr + align - 1) % align)
      /\ (addr + align - 1) % align \in 0 .. align - 1
    OBVIOUS
<1>3. align * q \in Nat /\ align * q >= addr
    <2> HIDE DEF q
    <2>1. align * q \in Nat BY <1>1
    <2>2. QED
    BY <1>1, <1>2, <2>1
<1>4. AlignUp(addr, align) = align * q
    <2> HIDE DEF q
    <2>1. q * align = align * q BY <1>1
    <2>2. QED BY <2>1 DEF AlignUp, q
<1> HIDE DEF q
<1>5. QED
    BY <1>1, <1>3, <1>4, Divides

\* A multiple of a slab size, or of a larger alignment, is a multiple of the cache line.
LEMMA DividesTrans ==
    \A a \in Nat, d \in Nat \ {0}, c \in Nat \ {0} :
        a % d = 0 /\ d % c = 0 => a % c = 0
<1> SUFFICES ASSUME NEW a \in Nat, NEW d \in Nat \ {0}, NEW c \in Nat \ {0},
                    a % d = 0, d % c = 0
             PROVE  a % c = 0
    OBVIOUS
<1>1. PICK p \in Nat : a = d * p
    BY Divides
<1>2. PICK q \in Nat : d = c * q
    BY Divides
<1>3. a = c * (q * p) /\ q * p \in Nat
    BY <1>1, <1>2
<1>4. QED
    BY <1>3, Divides

\* The slabs of alloc_slow: cache-line aligned, above address zero, one after the other.
LEMMA SlabsApart ==
    \A i, j \in Nat :
        /\ SlabBase(i) \in Nat /\ SlabBase(i) >= SlabSize /\ SlabBase(i) % CacheLine = 0
        /\ i < j => SlabBase(i) + SlabSize <= SlabBase(j)
<1> SUFFICES ASSUME NEW i \in Nat, NEW j \in Nat
             PROVE  /\ SlabBase(i) \in Nat /\ SlabBase(i) >= SlabSize /\ SlabBase(i) % CacheLine = 0
                    /\ i < j => SlabBase(i) + SlabSize <= SlabBase(j)
    OBVIOUS
<1> USE Constants
<1>1. SlabBase(i) \in Nat /\ SlabBase(i) >= SlabSize
    BY DEF SlabBase
<1>2. SlabBase(i) % SlabSize = 0
    <2>1. SlabBase(i) = SlabSize * (i + 1)
        BY DEF SlabBase
    <2>2. QED BY <1>1, <2>1, Divides
<1>3. SlabBase(i) % CacheLine = 0
    BY <1>1, <1>2, DividesTrans
<1>4. ASSUME i < j
      PROVE  SlabBase(i) + SlabSize <= SlabBase(j)
    <2>1. PICK k \in Nat : j = i + 1 + k
        <3>1. j - i - 1 \in Nat /\ j = i + 1 + (j - i - 1)
            BY <1>4
        <3>2. QED BY <3>1
    <2>2. SlabBase(j) = SlabBase(i) + SlabSize + k * SlabSize
        BY <2>1 DEF SlabBase
    <2>3. k * SlabSize \in Nat
        OBVIOUS
    <2>4. QED
        BY <1>1, <2>2, <2>3
<1>5. QED
    BY <1>1, <1>3, <1>4

-----------------------------------------------------------------------------
(***************************************************************************)
(* The free list.                                                          *)
(***************************************************************************)

Off(b, c) == b.addr + b.size <= c.addr \/ c.addr + c.size <= b.addr

Apart(b, c) == b.addr + b.size < c.addr \/ c.addr + c.size < b.addr

\* A block the list may hold, between the base and the cursor of a slab.
Held(b, lo, hi) ==
    /\ lo <= b.addr /\ b.addr + b.size <= hi
    /\ b.addr % CacheLine = 0 /\ b.size >= ReuseMin

FreeOK(free, lo, hi) ==
    /\ free \in Seq(Blocks)
    /\ \A i \in 1 .. Len(free) : Held(free[i], lo, hi)
    /\ \A i, j \in 1 .. Len(free) : i # j => Apart(free[i], free[j])

Avoids(free, c) == \A i \in 1 .. Len(free) : Off(free[i], c)

\* An entry of a list is an address and a size.
LEMMA HeldTypes ==
    ASSUME NEW free \in Seq(Blocks)
    PROVE  /\ Len(free) \in Nat
           /\ \A i \in 1 .. Len(free) :
                free[i] \in Blocks /\ free[i].addr \in Nat /\ free[i].size \in Nat
<1>1. \A i \in 1 .. Len(free) : free[i] \in Blocks
    OBVIOUS
<1>2. \A b \in Blocks : b.addr \in Nat /\ b.size \in Nat
    BY DEF Blocks
<1>3. QED
    BY <1>1, <1>2

\* What is apart from a block is apart from a part of it.
LEMMA Shrink ==
    ASSUME NEW a, NEW b, NEW e,
           a.addr \in Nat, a.size \in Nat, b.addr \in Nat, b.size \in Nat,
           e.addr \in Nat, e.size \in Nat,
           b.addr <= e.addr, e.addr + e.size <= b.addr + b.size
    PROVE  /\ Apart(a, b) => Apart(a, e)
           /\ Apart(a, b) => Off(a, e)
           /\ Off(b, a) => Off(e, a)
BY DEF Apart, Off

\* FreeList::remove: one entry fewer, the last one in the place of the removed one.
LEMMA RemoveAtIs ==
    ASSUME NEW free \in Seq(Blocks), NEW i \in 1 .. Len(free)
    PROVE  /\ RemoveAt(free, i) \in Seq(Blocks)
           /\ Len(RemoveAt(free, i)) = Len(free) - 1
           /\ \A j \in 1 .. Len(free) - 1 :
                RemoveAt(free, i)[j] = free[IF j = i THEN Len(free) ELSE j]
<1> DEFINE n == Len(free) - 1
           f == [j \in 1 .. n |-> IF j = i THEN free[Len(free)] ELSE free[j]]
<1>1. n \in Nat /\ \A j \in 1 .. Len(free) : free[j] \in Blocks
    OBVIOUS
<1>2. \A j \in 1 .. n : (IF j = i THEN free[Len(free)] ELSE free[j]) \in Blocks
    BY <1>1
<1> HIDE DEF n
<1>3. f \in Seq(Blocks) /\ Len(f) = n
    BY <1>1, <1>2
<1> USE DEF n
<1>4. QED
    BY <1>3 DEF RemoveAt

\* What holds of the entries of a list holds without one of them.
LEMMA RemoveKeeps ==
    ASSUME NEW free, NEW lo, NEW hi, FreeOK(free, lo, hi), NEW i \in 1 .. Len(free)
    PROVE  /\ FreeOK(RemoveAt(free, i), lo, hi)
           /\ \A c : Avoids(free, c) => Avoids(RemoveAt(free, i), c)
<1> DEFINE f == RemoveAt(free, i)
           from(j) == IF j = i THEN Len(free) ELSE j
<1>1. /\ f \in Seq(Blocks) /\ Len(f) = Len(free) - 1
      /\ \A j \in 1 .. Len(free) - 1 : f[j] = free[from(j)]
    BY RemoveAtIs DEF FreeOK
<1>2. Len(free) \in Nat
    BY DEF FreeOK
<1>3. /\ \A j \in 1 .. Len(f) : from(j) \in 1 .. Len(free)
      /\ \A j, k \in 1 .. Len(f) : j # k => from(j) # from(k)
    BY <1>1, <1>2
<1> HIDE DEF f, from
<1>4. FreeOK(f, lo, hi)
    BY <1>1, <1>2, <1>3 DEF FreeOK
<1>5. \A c : Avoids(free, c) => Avoids(f, c)
    BY <1>1, <1>2, <1>3 DEF Avoids
<1>6. QED
    BY <1>4, <1>5 DEF f

\* FreeList::take finds an entry, and it is large enough.
LEMMA FirstFitIs ==
    ASSUME NEW free \in Seq(Blocks), NEW size \in Nat, Fits(free, size) # {}
    PROVE  FirstFit(free, size) \in 1 .. Len(free) /\ free[FirstFit(free, size)].size >= size
<1>1. Fits(free, size) \in SUBSET Nat
    BY DEF Fits
<1>2. \E i \in Fits(free, size) : \A j \in Fits(free, size) : i <= j
    BY <1>1, LeastElement
<1>3. FirstFit(free, size) \in Fits(free, size)
    BY <1>2 DEF FirstFit
<1>4. QED
    BY <1>3 DEF Fits

\* FreeList::take, carving: the list still is one of blocks that do not touch, no entry meets
\* the part served, and what no entry met before it none meets now.
LEMMA CarveIs ==
    ASSUME NEW free, NEW lo \in Nat, NEW hi \in Nat, FreeOK(free, lo, hi),
           NEW i \in 1 .. Len(free), NEW size \in Nat \ {0}, free[i].size >= size
    PROVE  /\ FreeOK(Carve(free, i, size), lo, hi)
           /\ Avoids(Carve(free, i, size), [addr |-> free[i].addr, size |-> size])
           /\ \A c : c.addr \in Nat /\ c.size \in Nat /\ Avoids(free, c) =>
                   Avoids(Carve(free, i, size), c)
<1> DEFINE b == free[i]
           rest == AlignUp(b.addr + size, CacheLine)
           left == b.addr + b.size - rest
           served == [addr |-> b.addr, size |-> size]
<1>1. b \in Blocks /\ b.addr \in Nat /\ b.size \in Nat /\ free \in Seq(Blocks)
    BY HeldTypes DEF FreeOK
<1>2. rest \in Nat /\ rest >= b.addr + size /\ rest % CacheLine = 0
    <2>1. b.addr + size \in Nat
        BY <1>1
    <2> HIDE DEF b
    <2>2. QED
        BY <2>1, AlignUpBounds, Constants
<1>3. \A j \in 1 .. Len(free) : /\ free[j] \in Blocks /\ Held(free[j], lo, hi)
                                /\ free[j].addr \in Nat /\ free[j].size \in Nat
                                /\ j # i => Apart(free[j], b)
    BY HeldTypes DEF FreeOK
<1>a. served.addr = b.addr /\ served.size = size /\ served.addr \in Nat /\ served.size \in Nat
    BY <1>1
<1>b. Held(b, lo, hi) /\ \A c : Avoids(free, c) => Off(b, c)
    BY <1>3 DEF Avoids
<1> HIDE DEF rest, served, b
<1>c. \A j \in 1 .. Len(free) : j # i => Off(free[j], served)
    <2> SUFFICES ASSUME NEW j \in 1 .. Len(free), j # i
                 PROVE  Off(free[j], served)
        OBVIOUS
    <2>1. Apart(free[j], b) /\ free[j].addr \in Nat /\ free[j].size \in Nat
        BY <1>3
    <2>2. b.addr <= served.addr /\ served.addr + served.size <= b.addr + b.size
        <3>1. b.size >= size
            BY DEF b
        <3>2. QED
            BY <1>1, <1>a, <3>1
    <2>3. QED
        BY <1>1, <1>a, <2>1, <2>2, Shrink
<1>4. CASE left >= ReuseMin
    <2> DEFINE e == [addr |-> rest, size |-> left]
               f == [free EXCEPT ![i] = e]
    <2>1. Carve(free, i, size) = f
        BY <1>4 DEF Carve, rest, b
    <2>2. left \in Nat /\ e \in Blocks /\ e.addr = rest /\ e.size = left
        <3>1. left \in Int
            BY <1>1, <1>2
        <3> HIDE DEF left
        <3>2. left \in Nat
            BY <1>4, <3>1, Constants
        <3>3. QED
            BY <1>2, <3>2 DEF Blocks
    <2> HIDE DEF e, left
    <2>3. Held(e, lo, hi) /\ rest + left = b.addr + b.size
        <3>1. rest + left = b.addr + b.size
            BY <1>1, <1>2 DEF left
        <3>2. left >= ReuseMin
            BY <1>4
        <3>3. QED
            BY <1>1, <1>2, <1>b, <2>2, <3>1, <3>2 DEF Held
    <2>4. f \in Seq(Blocks) /\ Len(f) = Len(free) /\ f[i] = e
          /\ \A j \in 1 .. Len(free) : j # i => f[j] = free[j]
        BY <1>1, <2>2
    <2> HIDE DEF f
    <2>5. \A j \in 1 .. Len(free) : j # i => Apart(f[j], e)
        <3>1. b.addr <= e.addr /\ e.addr + e.size <= b.addr + b.size
            BY <1>1, <1>2, <2>2, <2>3
        <3>2. QED
            <4> SUFFICES ASSUME NEW j \in 1 .. Len(free), j # i PROVE Apart(f[j], e)
                OBVIOUS
            <4>1. /\ f[j] = free[j] /\ Apart(free[j], b)
                  /\ free[j].addr \in Nat /\ free[j].size \in Nat
                BY <1>3, <2>4
            <4>2. e.addr \in Nat /\ e.size \in Nat
                BY <1>2, <2>2
            <4>3. QED
                BY <1>1, <3>1, <4>1, <4>2, Shrink
    <2>6. FreeOK(f, lo, hi)
        <3>1. \A j \in 1 .. Len(f) : Held(f[j], lo, hi)
            BY <1>3, <2>3, <2>4
        <3>2. ASSUME NEW j \in 1 .. Len(f), NEW k \in 1 .. Len(f), j # k
              PROVE  Apart(f[j], f[k])
            <4>1. CASE j = i
                BY <2>4, <2>5, <3>2, <4>1 DEF Apart
            <4>2. CASE k = i
                BY <2>4, <2>5, <3>2, <4>2 DEF Apart
            <4>3. CASE j # i /\ k # i
                BY <2>4, <3>2, <4>3 DEF FreeOK
            <4>4. QED
                BY <4>1, <4>2, <4>3
        <3>3. QED
            BY <2>4, <3>1, <3>2 DEF FreeOK
    <2>7. Avoids(f, served)
        <3>1. Off(e, served)
            BY <1>1, <1>2, <1>a, <2>2 DEF Off
        <3>2. QED
            BY <1>c, <2>4, <3>1 DEF Avoids
    <2>8. ASSUME NEW c, c.addr \in Nat, c.size \in Nat, Avoids(free, c)
          PROVE  Avoids(f, c)
        <3>1. Off(b, c) /\ c.addr \in Nat /\ c.size \in Nat
            BY <1>b, <2>8
        <3>2. Off(e, c)
            BY <1>1, <1>2, <2>2, <2>3, <3>1 DEF Off
        <3>3. QED
            BY <2>4, <2>8, <3>2 DEF Avoids
    <2>9. QED
        BY <2>1, <2>6, <2>7, <2>8 DEF served, b
<1>5. CASE ~(left >= ReuseMin)
    <2> DEFINE f == RemoveAt(free, i)
    <2>1. Carve(free, i, size) = f
        BY <1>5 DEF Carve, rest, b
    <2>2. FreeOK(f, lo, hi) /\ \A c : Avoids(free, c) => Avoids(f, c)
        BY RemoveKeeps
    <2>3. ASSUME NEW j \in 1 .. Len(f)
          PROVE  Off(f[j], served)
        <3> DEFINE k == IF j = i THEN Len(free) ELSE j
        <3>1. k \in 1 .. Len(free) /\ k # i /\ f[j] = free[k]
            <4>1. /\ Len(f) = Len(free) - 1
                  /\ \A l \in 1 .. Len(free) - 1 :
                        f[l] = free[IF l = i THEN Len(free) ELSE l]
                BY <1>1, RemoveAtIs
            <4>2. Len(free) \in Nat
                BY <1>1
            <4> HIDE DEF f
            <4>3. QED
                BY <4>1, <4>2
        <3> HIDE DEF k, f
        <3>2. QED
            BY <1>c, <3>1
    <2> HIDE DEF f
    <2>4. QED
        BY <2>1, <2>2, <2>3 DEF Avoids, served, b
<1>6. QED
    BY <1>4, <1>5

-----------------------------------------------------------------------------
(***************************************************************************)
(* Merging.                                                                *)
(***************************************************************************)

Passes == [free : Seq(Blocks), at : Nat \ {0}, addr : Nat, size : Nat]

\* What an iteration of merge keeps: the union is still held, still nobody
\* else's, and apart from the entries examined; no entry left meets it.
MergeOK(p, lo, hi, others) ==
    /\ p \in Passes
    /\ FreeOK(p.free, lo, hi)
    /\ Held(p, lo, hi)
    /\ Avoids(p.free, p)
    /\ \A i \in 1 .. Len(p.free) : i < p.at => Apart(p.free[i], p)
    /\ \A c \in others : Avoids(p.free, c) /\ Off(p, c)

\* The union of two blocks that touch meets only what one of them meets.
LEMMA Join ==
    ASSUME NEW p, NEW b, NEW m,
           p.addr \in Nat, p.size \in Nat \ {0}, b.addr \in Nat, b.size \in Nat \ {0},
           \/ b.addr + b.size = p.addr /\ m.addr = b.addr
           \/ p.addr + p.size = b.addr /\ m.addr = p.addr,
           m.size = p.size + b.size
    PROVE  \A c : c.addr \in Nat /\ c.size \in Nat \ {0} =>
               /\ Off(b, c) /\ Off(p, c) => Off(m, c)
               /\ Apart(c, b) /\ Off(c, p) => Off(c, m)
               /\ Apart(c, b) /\ Apart(c, p) => Apart(c, m)
BY DEF Off, Apart

\* An iteration of FreeList::merge keeps MergeOK and examines or absorbs one entry.
LEMMA MergeStepIs ==
    ASSUME NEW lo \in Nat, NEW hi \in Nat,
           NEW others, \A c \in others : c.addr \in Nat /\ c.size \in Nat \ {0},
           NEW p, MergeOK(p, lo, hi, others)
    PROVE  /\ MergeOK(MergeStep(p), lo, hi, others)
           /\ MergeStep(p).size >= p.size
           /\ p.at > Len(p.free) => MergeStep(p) = p
           /\ p.at <= Len(p.free) =>
                MergeStep(p).at - Len(MergeStep(p).free) = p.at - Len(p.free) + 1
<1> DEFINE n == Len(p.free)
           b == p.free[p.at]
           f == RemoveAt(p.free, p.at)
<1>1. /\ p.free \in Seq(Blocks) /\ p.at \in Nat \ {0} /\ p.addr \in Nat /\ p.size \in Nat
      /\ FreeOK(p.free, lo, hi) /\ Held(p, lo, hi) /\ Avoids(p.free, p)
    BY DEF MergeOK, Passes
<1>2. /\ n \in Nat /\ p.size \in Nat \ {0}
      /\ \A i \in 1 .. n : /\ p.free[i] \in Blocks /\ p.free[i].addr \in Nat
                           /\ p.free[i].size \in Nat \ {0}
                           /\ Held(p.free[i], lo, hi)
    <2>1. \A i \in 1 .. n : p.free[i] \in Blocks /\ p.free[i].addr \in Nat
                            /\ p.free[i].size \in Nat /\ Held(p.free[i], lo, hi)
        BY <1>1, HeldTypes DEF FreeOK
    <2>2. QED
        BY <1>1, <2>1, Constants, SMTT(60) DEF Held
<1>3. CASE p.at > n
    <2>1. MergeStep(p) = p
        BY <1>3 DEF MergeStep
    <2>2. QED
        BY <1>1, <1>2, <1>3, <2>1
<1>4. CASE p.at <= n /\ (b.addr + b.size = p.addr \/ p.addr + p.size = b.addr)
    <2> DEFINE m == [free |-> f, at |-> p.at,
                     addr |-> IF b.addr + b.size = p.addr THEN b.addr ELSE p.addr,
                     size |-> p.size + b.size]
    <2>1. p.at \in 1 .. n
        BY <1>1, <1>2, <1>4
    <2>2. /\ b.addr \in Nat /\ b.size \in Nat \ {0} /\ Held(b, lo, hi)
          /\ \A i \in 1 .. n : i # p.at => Apart(p.free[i], b)
        BY <1>1, <1>2, <2>1 DEF FreeOK
    <2>3. MergeStep(p) = m
        <3>1. ~(p.at > Len(p.free))
            BY <1>1, <1>2, <1>4
        <3>2. CASE b.addr + b.size = p.addr
            <4>1. ~(p.addr + p.size = b.addr)
                <5> HIDE DEF b
                <5>1. QED
                    BY <1>1, <1>2, <2>2, <3>2
            <4>2. QED
                BY <3>1, <3>2, <4>1 DEF MergeStep
        <3>3. CASE b.addr + b.size # p.addr
            BY <1>4, <3>1, <3>3 DEF MergeStep
        <3>4. QED
            BY <3>2, <3>3
    <2>4. /\ f \in Seq(Blocks) /\ Len(f) = n - 1
          /\ \A j \in 1 .. n - 1 : f[j] = p.free[IF j = p.at THEN n ELSE j]
        BY <1>1, <2>1, RemoveAtIs
    <2>5. FreeOK(f, lo, hi) /\ \A c : Avoids(p.free, c) => Avoids(f, c)
        BY <1>1, <2>1, RemoveKeeps
    <2>6. /\ m.free = f /\ m.at = p.at /\ m.size = p.size + b.size
          /\ \/ b.addr + b.size = p.addr /\ m.addr = b.addr
             \/ p.addr + p.size = b.addr /\ m.addr = p.addr
        BY <1>4
    <2> HIDE DEF b, f, m
    <2>7. m.addr \in Nat /\ m.size \in Nat
        BY <1>2, <1>1, <2>2, <2>6
    <2>8. m \in Passes
        <3>1. m = [free |-> f, at |-> p.at, addr |-> m.addr, size |-> m.size]
            BY <2>6 DEF m
        <3>2. QED
            BY <1>1, <2>4, <2>7, <3>1 DEF Passes
    <2>9. Held(m, lo, hi) /\ m.size >= p.size
        <3>1. m.addr % CacheLine = 0
            BY <1>1, <2>2, <2>6 DEF Held
        <3>2. /\ lo <= p.addr /\ p.addr + p.size <= hi /\ p.size >= ReuseMin
              /\ lo <= b.addr /\ b.addr + b.size <= hi
            BY <1>1, <2>2 DEF Held
        <3>3. lo <= m.addr /\ m.addr + m.size <= hi /\ m.size >= p.size /\ m.size >= ReuseMin
            <4>1. /\ p.addr \in Nat /\ p.size \in Nat /\ b.addr \in Nat /\ b.size \in Nat
                  /\ m.addr \in Nat /\ m.size = p.size + b.size
                BY <1>1, <2>2, <2>6, <2>7
            <4>2. lo <= m.addr /\ m.addr + m.size <= hi
                BY <2>6, <3>2, <4>1
            <4>3. QED
                BY <3>2, <4>1, <4>2, Constants
        <3>4. QED
            BY <3>1, <3>3 DEF Held
    <2>10. \A c : c.addr \in Nat /\ c.size \in Nat \ {0} =>
               /\ Off(b, c) /\ Off(p, c) => Off(m, c)
               /\ Apart(c, b) /\ Off(c, p) => Off(c, m)
               /\ Apart(c, b) /\ Apart(c, p) => Apart(c, m)
        BY <1>1, <1>2, <2>2, <2>6, Join
    <2>11. ASSUME NEW j \in 1 .. Len(f)
           PROVE  Off(f[j], m) /\ (j < p.at => Apart(f[j], m))
        <3> DEFINE k == IF j = p.at THEN n ELSE j
        <3>1. k \in 1 .. n /\ k # p.at /\ f[j] = p.free[k] /\ (j < p.at => k = j)
            BY <1>2, <2>1, <2>4, SMTT(60)
        <3> HIDE DEF k
        <3>2. /\ p.free[k].addr \in Nat /\ p.free[k].size \in Nat \ {0}
              /\ Apart(p.free[k], b) /\ Off(p.free[k], p)
              /\ k < p.at => Apart(p.free[k], p)
            BY <1>1, <1>2, <2>2, <3>1 DEF Avoids, MergeOK
        <3>3. QED
            BY <2>10, <3>1, <3>2
    <2>12. ASSUME NEW c \in others
           PROVE  Avoids(f, c) /\ Off(m, c)
        <3>1. Avoids(p.free, c) /\ Off(p, c)
            BY DEF MergeOK
        <3>2. Off(b, c)
            BY <2>1, <3>1 DEF Avoids, b
        <3>3. QED
            BY <2>5, <2>10, <3>1, <3>2
    <2>13. MergeOK(m, lo, hi, others)
        BY <2>5, <2>6, <2>8, <2>9, <2>11, <2>12 DEF MergeOK, Avoids
    <2>14. p.at <= n
        BY <1>4
    <2>15. QED
        BY <1>1, <1>2, <2>3, <2>4, <2>6, <2>9, <2>13, <2>14
<1>5. CASE p.at <= n /\ ~(b.addr + b.size = p.addr \/ p.addr + p.size = b.addr)
    <2> DEFINE m == [p EXCEPT !.at = @ + 1]
    <2>1. MergeStep(p) = m
        <3>1. ~(p.at > Len(p.free))
            BY <1>1, <1>2, <1>5
        <3>2. QED
            BY <1>5, <3>1 DEF MergeStep
    <2>2. m \in Passes /\ m.free = p.free /\ m.at = p.at + 1 /\ m.addr = p.addr /\ m.size = p.size
        BY DEF MergeOK, Passes
    <2> HIDE DEF m
    <2>3. p.at \in 1 .. n
        BY <1>1, <1>2, <1>5
    <2>4. Apart(p.free[p.at], p)
        <3>1. Off(b, p) /\ b.addr \in Nat /\ b.size \in Nat
            BY <1>1, <1>2, <2>3 DEF Avoids
        <3>2. b.addr + b.size # p.addr /\ p.addr + p.size # b.addr
            BY <1>5
        <3> HIDE DEF b
        <3>3. Apart(b, p)
            BY <1>1, <3>1, <3>2, SMTT(60) DEF Off, Apart
        <3>4. QED
            BY <3>3 DEF b
    <2>5. \A i \in 1 .. n : i < m.at => Apart(p.free[i], m)
        <3> SUFFICES ASSUME NEW i \in 1 .. n, i < m.at PROVE Apart(p.free[i], m)
            OBVIOUS
        <3>1. i < p.at \/ i = p.at
            BY <1>1, <1>2, <2>2
        <3>2. Apart(p.free[i], p)
            BY <2>4, <3>1 DEF MergeOK
        <3>3. QED
            BY <2>2, <3>2 DEF Apart
    <2>6. MergeOK(m, lo, hi, others)
        BY <1>1, <2>2, <2>5 DEF MergeOK, Avoids, Off, Held
    <2>7. p.at <= n
        BY <1>5
    <2>8. QED
        BY <1>1, <1>2, <2>1, <2>2, <2>6, <2>7
<1>6. QED
    BY <1>1, <1>2, <1>3, <1>4, <1>5


\* FreeList::merge: the single pass examines every entry, so that none is left that touches the
\* union; the union meets nobody else's block.
LEMMA MergeIs ==
    ASSUME NEW lo \in Nat, NEW hi \in Nat,
           NEW others, \A c \in others : c.addr \in Nat /\ c.size \in Nat \ {0},
           NEW free, FreeOK(free, lo, hi), NEW b \in Blocks,
           Held(b, lo, hi), Avoids(free, b),
           \A c \in others : Avoids(free, c) /\ Off(b, c)
    PROVE  /\ MergeOK(Merge(free, b.addr, b.size), lo, hi, others)
           /\ Merge(free, b.addr, b.size).size >= b.size
           /\ Merge(free, b.addr, b.size).at > Len(Merge(free, b.addr, b.size).free)
<1> DEFINE N == Len(free)
           start == [free |-> free, at |-> 1, addr |-> b.addr, size |-> b.size]
           X == {p \in Passes : MergeOK(p, lo, hi, others)}
           IsPass(g) == g = [k \in 0 .. N |-> IF k = 0 THEN start ELSE MergeStep(g[k - 1])]
           pass == CHOOSE g : IsPass(g)
<1>1. N \in Nat /\ free \in Seq(Blocks) /\ b.addr \in Nat /\ b.size \in Nat
    BY DEF FreeOK, Blocks
<1>2. MergeOK(start, lo, hi, others)
    <2>1. /\ start \in Passes /\ start.free = free /\ start.at = 1
          /\ start.addr = b.addr /\ start.size = b.size
        BY <1>1 DEF Passes
    <2> HIDE DEF start
    <2>2. Held(start, lo, hi) /\ Avoids(free, start) /\ \A c \in others : Off(start, c)
        BY <2>1 DEF Held, Avoids, Off
    <2>3. QED
        BY <1>1, <2>1, <2>2 DEF MergeOK
<1>3. \A p \in X : MergeStep(p) \in X
    <2> SUFFICES ASSUME NEW p, MergeOK(p, lo, hi, others)
                 PROVE  MergeStep(p) \in Passes /\ MergeOK(MergeStep(p), lo, hi, others)
        OBVIOUS
    <2>1. MergeOK(MergeStep(p), lo, hi, others)
        BY MergeStepIs
    <2>2. QED
        BY <2>1 DEF MergeOK
<1>4. start \in X
    BY <1>2 DEF MergeOK
<1> HIDE DEF N, start, X
<1>5. \E g : IsPass(g)
    <2> DEFINE step == [p \in X |-> MergeStep(p)]
    <2>1. step \in [X -> X]
        BY <1>3
    <2> HIDE DEF step, IsPass, pass
    <2>2. PICK g : IsIteration(g, N, X, start, step)
        BY <1>1, <1>4, <2>1, Iterates
    <2>3. \A k \in 1 .. N : g[k - 1] \in X /\ g[k] = MergeStep(g[k - 1])
        <3>1. \A k \in 1 .. N : k - 1 \in 0 .. N
            BY <1>1
        <3>2. QED
            BY <2>2, <3>1 DEF step, IsIteration
    <2>4. \A k \in 0 .. N : k # 0 => k \in 1 .. N
        BY <1>1
    <2>5. \A k \in 0 .. N : g[k] = IF k = 0 THEN start ELSE MergeStep(g[k - 1])
        BY <2>2, <2>3, <2>4 DEF IsIteration
    <2>6. g = [k \in 0 .. N |-> g[k]]
        BY <2>2 DEF IsIteration
    <2>7. IsPass(g)
        BY <2>5, <2>6 DEF IsPass
    <2>8. QED
        BY <2>7
<1>6. IsPass(pass)
    BY <1>5
<1>7. Merge(free, b.addr, b.size) = pass[N]
    BY DEF Merge, N, start
<1>8. /\ pass[0] = start
      /\ \A k \in 0 .. N - 1 : pass[k + 1] = MergeStep(pass[k])
    <2> HIDE DEF pass
    <2>1. pass = [k \in 0 .. N |-> IF k = 0 THEN start ELSE MergeStep(pass[k - 1])]
        BY <1>6
    <2>2. 0 \in 0 .. N
        BY <1>1
    <2>3. \A k \in 0 .. N - 1 : k + 1 \in 0 .. N /\ k + 1 # 0 /\ (k + 1) - 1 = k
        BY <1>1
    <2>4. QED
        BY <2>1, <2>2, <2>3
<1> DEFINE At(k) == /\ MergeOK(pass[k], lo, hi, others)
                    /\ pass[k].size >= b.size
                    /\ \/ pass[k].at > Len(pass[k].free)
                       \/ pass[k].at - Len(pass[k].free) = k + 1 - N
           S == {k \in 0 .. N : At(k)}
<1> HIDE DEF pass, IsPass
<1>9. 0 \in S
    <2>1. /\ start.at = 1 /\ start.free = free /\ start.size = b.size
        BY DEF start
    <2>2. At(0)
        BY <1>1, <1>2, <1>8, <2>1 DEF N
    <2>3. QED
        BY <1>1, <2>2
<1>10. ASSUME NEW k \in 0 .. N - 1, k \in S
       PROVE  k + 1 \in S
    <2> DEFINE p == pass[k]
               q == pass[k + 1]
    <2>1. /\ MergeOK(p, lo, hi, others) /\ p.size >= b.size
          /\ p.at > Len(p.free) \/ p.at - Len(p.free) = k + 1 - N
        BY <1>10
    <2>2. q = MergeStep(p)
        BY <1>8
    <2>3. /\ p.at \in Nat /\ Len(p.free) \in Nat /\ p.size \in Nat
        BY <2>1 DEF MergeOK, Passes
    <2> HIDE DEF p, q
    <2>4. /\ MergeOK(q, lo, hi, others)
          /\ q.size >= p.size
          /\ p.at > Len(p.free) => q = p
          /\ p.at <= Len(p.free) => q.at - Len(q.free) = p.at - Len(p.free) + 1
        BY <2>1, <2>2, MergeStepIs, SMTT(60)
    <2>5. q.at \in Nat /\ Len(q.free) \in Nat /\ q.size \in Nat
        BY <2>4 DEF MergeOK, Passes
    <2>6. /\ q.size >= b.size
          /\ q.at > Len(q.free) \/ q.at - Len(q.free) = (k + 1) + 1 - N
        <3>1. q.size >= b.size
            BY <1>1, <2>1, <2>3, <2>4, <2>5, SMTT(60)
        <3>2. CASE p.at > Len(p.free)
            BY <2>4, <3>1, <3>2
        <3>3. CASE ~(p.at > Len(p.free))
            <4>1. p.at <= Len(p.free) /\ p.at - Len(p.free) = k + 1 - N
                BY <2>1, <2>3, <3>3
            <4>2. q.at - Len(q.free) = p.at - Len(p.free) + 1
                BY <2>4, <4>1
            <4>3. QED
                BY <1>1, <2>3, <2>5, <3>1, <4>1, <4>2
        <3>4. QED
            BY <3>2, <3>3
    <2>7. At(k + 1)
        BY <2>4, <2>6 DEF q
    <2>8. k + 1 \in 0 .. N
        BY <1>1
    <2>9. QED
        BY <2>7, <2>8
<1> HIDE DEF S
<1>11. N \in S
    <2>1. \A k \in 0 .. N : k \in S
        BY <1>1, <1>9, <1>10, UpTo
    <2>2. QED
        BY <1>1, <2>1
<1>12. /\ MergeOK(pass[N], lo, hi, others) /\ pass[N].size >= b.size
       /\ pass[N].at > Len(pass[N].free) \/ pass[N].at - Len(pass[N].free) = N + 1 - N
    BY <1>11 DEF S
<1>13. pass[N].at > Len(pass[N].free)
    <2>1. pass[N].at \in Nat /\ Len(pass[N].free) \in Nat
        BY <1>12 DEF MergeOK, Passes
    <2>2. QED
        BY <1>1, <1>12, <2>1
<1>14. QED
    BY <1>7, <1>12, <1>13

-----------------------------------------------------------------------------
(***************************************************************************)
(* The inductive invariant.                                                *)
(***************************************************************************)

Handles == [addr : Nat, size : Nat, phase : Nat]

SlabOK(s, n) ==
    /\ s \in Slabs
    /\ s.base = 0 => s.ptr = 0 /\ s.free = << >>
    /\ s.base # 0 => /\ \E i \in 0 .. n - 1 : s.base = SlabBase(i)
                     /\ s.base <= s.ptr /\ s.ptr <= s.base + SlabSize
    /\ FreeOK(s.free, s.base, s.ptr)

\* No two threads have the same slab.
SlabsOK(slabs, n) ==
    /\ slabs \in [Threads -> Slabs]
    /\ \A t \in Threads : SlabOK(slabs[t], n)
    /\ \A t, u \in Threads : t # u /\ slabs[t].base # 0 => slabs[t].base # slabs[u].base

Lies(b, s, g) == s.gen = g /\ s.base <= b.addr /\ b.addr + b.size <= s.ptr

\* A buffer of the arena is of this phase, below the cursor of a slab of this phase.
VecOK(b, slabs, g) ==
    /\ b.phase = g /\ b.size >= 1
    /\ b.size >= ReuseMin => b.addr % CacheLine = 0
    /\ \E t \in Threads : Lies(b, slabs[t], g)

VecsOK(vecs, slabs, g) ==
    /\ vecs \in [Vecs -> Handles]
    /\ \A v \in Vecs : vecs[v].addr # System => VecOK(vecs[v], slabs, g)
    /\ \A v, u \in Vecs : v # u /\ vecs[v].addr # System /\ vecs[u].addr # System =>
                              Off(vecs[v], vecs[u])
    /\ \A v \in Vecs, t \in Threads :
            vecs[v].addr # System /\ slabs[t].gen = g => Avoids(slabs[t].free, vecs[v])

PhaseInv ==
    /\ enabled \in BOOLEAN /\ active \in BOOLEAN
    /\ generation \in Nat /\ opener \in Threads \cup {None}
    /\ guard \in [Threads -> BOOLEAN]
    /\ ~enabled => ~active /\ opener = None
    /\ OnePhaseInFlight

BlockInv ==
    /\ nextSlab \in Nat
    /\ SlabsOK(slab, nextSlab)
    /\ VecsOK(vec, slab, generation)
    /\ opener # None => \A v \in Vecs : vec[v].addr = System

\* The cursor of a slab lies within it.
LEMMA SlabTypes ==
    ASSUME NEW s, NEW n, SlabOK(s, n)
    PROVE  /\ s.base \in Nat /\ s.gen \in Nat /\ s.ptr \in Nat /\ s.high \in Nat
           /\ s.free \in Seq(Blocks) /\ s.noSlab \in BOOLEAN
           /\ s.base <= s.ptr /\ (s.base # 0 => s.ptr <= s.base + SlabSize)
BY DEF SlabOK, Slabs

\* The slabs of two threads do not overlap.
LEMMA OtherSlab ==
    ASSUME NEW n \in Nat, NEW slabs, SlabsOK(slabs, n), NEW t \in Threads, NEW u \in Threads,
           t # u, slabs[t].base # 0, slabs[u].base # 0
    PROVE  \/ slabs[t].base + SlabSize <= slabs[u].base
           \/ slabs[u].base + SlabSize <= slabs[t].base
<1>1. PICK i \in 0 .. n - 1 : slabs[t].base = SlabBase(i)
    BY DEF SlabsOK, SlabOK
<1>2. PICK j \in 0 .. n - 1 : slabs[u].base = SlabBase(j)
    BY DEF SlabsOK, SlabOK
<1>3. i \in Nat /\ j \in Nat
    OBVIOUS
<1>4. i # j
    BY <1>1, <1>2 DEF SlabsOK
<1>5. i < j \/ j < i
    BY <1>3, <1>4
<1>6. QED
    BY <1>1, <1>2, <1>3, <1>5, SlabsApart

\* The slab of one thread changes: it stays where it was, or is the next one handed out.
LEMMA SlabsStep ==
    ASSUME NEW n \in Nat, NEW m \in Nat, n <= m, NEW slabs, SlabsOK(slabs, n),
           NEW t \in Threads, NEW s, SlabOK(s, m),
           s.base = slabs[t].base \/ s.base = SlabBase(n)
    PROVE  SlabsOK([slabs EXCEPT ![t] = s], m)
<1> DEFINE after == [slabs EXCEPT ![t] = s]
<1>1. /\ after \in [Threads -> Slabs] /\ after[t] = s
      /\ \A u \in Threads : u # t => after[u] = slabs[u]
    BY DEF SlabsOK, SlabOK
<1> HIDE DEF after
<1>2. ASSUME NEW u \in Threads
      PROVE  SlabOK(after[u], m)
    <2>1. CASE u = t
        BY <1>1, <2>1
    <2>2. CASE u # t
        <3>1. SlabOK(slabs[u], n)
            BY DEF SlabsOK
        <3>2. \A i \in 0 .. n - 1 : i \in 0 .. m - 1
            OBVIOUS
        <3>3. SlabOK(slabs[u], m)
            BY <3>1, <3>2 DEF SlabOK
        <3>4. QED
            BY <1>1, <2>2, <3>3
    <2>3. QED
        BY <2>1, <2>2
<1>3. ASSUME NEW u \in Threads, u # t, slabs[u].base # 0
      PROVE  slabs[u].base # s.base
    <2>1. CASE s.base = slabs[t].base
        BY <1>3, <2>1 DEF SlabsOK
    <2>2. CASE s.base = SlabBase(n)
        <3>1. PICK i \in 0 .. n - 1 : slabs[u].base = SlabBase(i)
            BY <1>3 DEF SlabsOK, SlabOK
        <3>2. i \in Nat /\ i < n
            OBVIOUS
        <3>3. SlabBase(i) \in Nat /\ SlabBase(i) + SlabSize <= SlabBase(n)
            BY <3>2, SlabsApart
        <3>4. QED
            BY <2>2, <3>1, <3>3, Constants
    <2>3. QED
        BY <2>1, <2>2
<1>4. ASSUME NEW u \in Threads, NEW x \in Threads, u # x, after[u].base # 0
      PROVE  after[u].base # after[x].base
    <2>1. CASE u = t
        BY <1>1, <1>3, <1>4, <2>1
    <2>2. CASE x = t
        BY <1>1, <1>3, <1>4, <2>2
    <2>3. CASE u # t /\ x # t
        BY <1>1, <1>4, <2>3 DEF SlabsOK
    <2>4. QED
        BY <2>1, <2>2, <2>3
<1>5. SlabsOK(after, m)
    BY <1>1, <1>2, <1>4 DEF SlabsOK
<1>6. QED
    BY <1>5 DEF after

\* A block outside the slab meets no entry of its list.
LEMMA AvoidsOutside ==
    ASSUME NEW lo \in Nat, NEW hi \in Nat, NEW free, FreeOK(free, lo, hi),
           NEW c, c.addr \in Nat, c.size \in Nat,
           c.addr + c.size <= lo \/ hi <= c.addr
    PROVE  Avoids(free, c)
<1>1. \A i \in 1 .. Len(free) : /\ Held(free[i], lo, hi)
                                /\ free[i].addr \in Nat /\ free[i].size \in Nat
    BY HeldTypes DEF FreeOK
<1>2. \A i \in 1 .. Len(free) : Off(free[i], c)
    BY <1>1 DEF Held, Off
<1>3. QED
    BY <1>2 DEF Avoids

\* A block in the slab of one thread meets no entry of another one's list.
LEMMA Foreign ==
    ASSUME NEW n \in Nat, NEW slabs, SlabsOK(slabs, n), NEW t \in Threads, NEW u \in Threads,
           t # u, slabs[t].base # 0,
           NEW c, c.addr \in Nat, c.size \in Nat,
           slabs[t].base <= c.addr, c.addr + c.size <= slabs[t].base + SlabSize
    PROVE  Avoids(slabs[u].free, c)
<1> DEFINE s == slabs[u]
           a == slabs[t]
<1>1. SlabOK(s, n) /\ SlabOK(a, n)
    BY DEF SlabsOK
<1>2. /\ s.base \in Nat /\ s.ptr \in Nat /\ s.free \in Seq(Blocks)
      /\ s.base <= s.ptr /\ (s.base # 0 => s.ptr <= s.base + SlabSize)
      /\ a.base \in Nat
    BY <1>1, SlabTypes
<1>3. CASE s.base = 0
    <2>1. s.free = << >>
        BY <1>1, <1>3 DEF SlabOK
    <2>2. QED
        BY <2>1 DEF Avoids
<1>4. CASE s.base # 0
    <2>1. a.base + SlabSize <= s.base \/ s.base + SlabSize <= a.base
        BY <1>4, OtherSlab
    <2> HIDE DEF s, a
    <2>2. c.addr + c.size <= s.base \/ s.ptr <= c.addr
        BY <1>2, <1>4, <2>1, Constants, SMTT(60) DEF a
    <2>3. FreeOK(s.free, s.base, s.ptr)
        BY <1>1 DEF SlabOK
    <2>4. Avoids(s.free, c)
        BY <1>2, <2>2, <2>3, AvoidsOutside
    <2>5. QED
        BY <2>4 DEF s
<1>5. QED
    BY <1>3, <1>4

\* A valid buffer lies below the cursor of a slab or has no part in the slab.
LEMMA Place ==
    ASSUME NEW n \in Nat, NEW slabs, SlabsOK(slabs, n), NEW t \in Threads, slabs[t].base # 0,
           NEW g, NEW b, b.addr \in Nat, b.size \in Nat, VecOK(b, slabs, g)
    PROVE  \/ Lies(b, slabs[t], g)
           \/ b.addr + b.size <= slabs[t].base
           \/ slabs[t].base + SlabSize <= b.addr
<1>1. PICK u \in Threads : Lies(b, slabs[u], g)
    BY DEF VecOK
<1>2. CASE u = t
    BY <1>1, <1>2
<1>3. CASE u # t
    <2> DEFINE s == slabs[u]
               a == slabs[t]
    <2>1. SlabOK(s, n) /\ SlabOK(a, n)
        BY DEF SlabsOK
    <2>2. /\ s.base \in Nat /\ s.ptr \in Nat /\ a.base \in Nat
          /\ s.base # 0 => s.ptr <= s.base + SlabSize
        BY <2>1, SlabTypes
    <2>3. s.base <= b.addr /\ b.addr + b.size <= s.ptr /\ b.size >= 1
        BY <1>1 DEF Lies, VecOK
    <2>4. s.base # 0
        <3>1. s.base = 0 => s.ptr = 0
            BY <2>1 DEF SlabOK
        <3> HIDE DEF s
        <3>2. QED
            BY <2>2, <2>3, <3>1
    <2>5. a.base + SlabSize <= s.base \/ s.base + SlabSize <= a.base
        BY <1>3, <2>4, OtherSlab
    <2> HIDE DEF s, a
    <2>6. b.addr + b.size <= a.base \/ a.base + SlabSize <= b.addr
        BY <2>2, <2>3, <2>4, <2>5, Constants
    <2>7. QED
        BY <2>6 DEF a
<1>4. QED
    BY <1>2, <1>3

\* One handle and one slab change, and every other buffer is as it was.
LEMMA VecsStep ==
    ASSUME NEW n \in Nat, NEW slabs, SlabsOK(slabs, n),
           NEW g, NEW vecs, VecsOK(vecs, slabs, g),
           NEW t \in Threads, NEW s \in Slabs, NEW v \in Vecs, NEW w \in Handles,
           \A u \in Vecs \ {v} : vecs[u].addr # System =>
               /\ Lies(vecs[u], slabs[t], g) => Lies(vecs[u], s, g)
               /\ s.gen = g => Avoids(s.free, vecs[u]),
           w.addr # System =>
               /\ VecOK(w, [slabs EXCEPT ![t] = s], g)
               /\ \A u \in Vecs \ {v} : vecs[u].addr # System => Off(w, vecs[u])
               /\ \A x \in Threads : [slabs EXCEPT ![t] = s][x].gen = g =>
                       Avoids([slabs EXCEPT ![t] = s][x].free, w)
    PROVE  VecsOK([vecs EXCEPT ![v] = w], [slabs EXCEPT ![t] = s], g)
<1> DEFINE sl == [slabs EXCEPT ![t] = s]
           vc == [vecs EXCEPT ![v] = w]
<1>1. sl[t] = s /\ \A x \in Threads : x # t => sl[x] = slabs[x]
    BY DEF SlabsOK
<1>2. /\ vc \in [Vecs -> Handles] /\ vc[v] = w
      /\ \A u \in Vecs : u # v => vc[u] = vecs[u]
    BY DEF VecsOK
<1>3. w.addr # System =>
               /\ VecOK(w, sl, g)
               /\ \A u \in Vecs \ {v} : vecs[u].addr # System => Off(w, vecs[u])
               /\ \A x \in Threads : sl[x].gen = g => Avoids(sl[x].free, w)
    OBVIOUS
<1> HIDE DEF sl, vc
<1>4. ASSUME NEW u \in Vecs, vc[u].addr # System
      PROVE  VecOK(vc[u], sl, g)
    <2>1. CASE u = v
        BY <1>2, <1>3, <1>4, <2>1
    <2>2. CASE u # v
        <3>1. vc[u] = vecs[u] /\ VecOK(vecs[u], slabs, g)
            BY <1>2, <1>4, <2>2 DEF VecsOK
        <3>2. PICK x \in Threads : Lies(vecs[u], slabs[x], g)
            BY <3>1 DEF VecOK
        <3>3. Lies(vecs[u], sl[x], g)
            BY <1>1, <1>4, <2>2, <3>1, <3>2
        <3>4. QED
            BY <3>1, <3>3 DEF VecOK
    <2>3. QED
        BY <2>1, <2>2
<1>5. ASSUME NEW u \in Vecs, NEW x \in Vecs, u # x, vc[u].addr # System, vc[x].addr # System
      PROVE  Off(vc[u], vc[x])
    <2>1. CASE u = v
        BY <1>2, <1>3, <1>5, <2>1
    <2>2. CASE x = v
        BY <1>2, <1>3, <1>5, <2>2 DEF Off
    <2>3. CASE u # v /\ x # v
        BY <1>2, <1>5, <2>3 DEF VecsOK
    <2>4. QED
        BY <2>1, <2>2, <2>3
<1>6. ASSUME NEW u \in Vecs, NEW x \in Threads, vc[u].addr # System, sl[x].gen = g
      PROVE  Avoids(sl[x].free, vc[u])
    <2>1. CASE u = v
        BY <1>2, <1>3, <1>6, <2>1
    <2>2. CASE u # v /\ x = t
        BY <1>1, <1>2, <1>6, <2>2
    <2>3. CASE u # v /\ x # t
        BY <1>1, <1>2, <1>6, <2>3 DEF VecsOK
    <2>4. QED
        BY <2>1, <2>2, <2>3
<1>7. VecsOK(vc, sl, g)
    BY <1>2, <1>4, <1>5, <1>6 DEF VecsOK
<1>8. QED
    BY <1>7 DEF vc, sl

-----------------------------------------------------------------------------
(***************************************************************************)
(* What an operation does to the slabs and the buffers.                    *)
(***************************************************************************)

\* The bumped address of raw_alloc: not below the cursor, and aligned where the block may
\* later be held.
LEMMA BumpIs ==
    ASSUME NEW r \in Requests, NEW s, s.ptr \in Nat
    PROVE  /\ r.size \in Nat \ {0}
           /\ Bumped(s, r) \in Nat /\ Bumped(s, r) >= s.ptr
           /\ r.size >= ReuseMin => Bumped(s, r) % CacheLine = 0
<1> DEFINE a == EffectiveAlign(r.size, r.align)
<1>1. r.size \in Nat \ {0} /\ r.align \in Nat \ {0}
      /\ (r.align >= CacheLine => r.align % CacheLine = 0)
    BY ArenaAssumption
<1>2. a \in Nat \ {0}
    BY <1>1, Constants DEF EffectiveAlign
<1>3. r.size >= ReuseMin => a % CacheLine = 0
    <2>1. CASE r.size >= CacheLine /\ r.align < CacheLine
        <3>1. \A d \in Nat \ {0} : d % d = 0
            OBVIOUS
        <3>2. a = CacheLine
            BY <2>1 DEF EffectiveAlign
        <3>3. QED
            BY <3>1, <3>2, Constants
    <2>2. CASE ~(r.size >= CacheLine /\ r.align < CacheLine)
        <3>1. a = r.align
            BY <2>2 DEF EffectiveAlign
        <3>2. r.size >= ReuseMin => r.align >= CacheLine
            BY <1>1, <2>2, Constants
        <3>3. QED
            BY <1>1, <3>1, <3>2
    <2>3. QED
        BY <2>1, <2>2
<1> HIDE DEF a
<1>4. Bumped(s, r) = AlignUp(s.ptr, a)
    BY DEF Bumped, a
<1>5. AlignUp(s.ptr, a) \in Nat /\ AlignUp(s.ptr, a) >= s.ptr /\ AlignUp(s.ptr, a) % a = 0
    BY <1>2, AlignUpBounds
<1>6. r.size >= ReuseMin => AlignUp(s.ptr, a) % CacheLine = 0
    BY <1>2, <1>3, <1>5, DividesTrans, Constants
<1>7. QED
    BY <1>1, <1>4, <1>5, <1>6

\* The list of a slab whose cursor advances.
LEMMA Widen ==
    ASSUME NEW free, NEW lo \in Nat, NEW hi \in Nat, NEW top \in Nat, hi <= top,
           FreeOK(free, lo, hi)
    PROVE  FreeOK(free, lo, top)
<1>1. \A i \in 1 .. Len(free) : /\ Held(free[i], lo, hi)
                                /\ free[i].addr \in Nat /\ free[i].size \in Nat
    BY HeldTypes DEF FreeOK
<1>2. \A i \in 1 .. Len(free) : Held(free[i], lo, top)
    BY <1>1 DEF Held
<1>3. QED
    BY <1>2 DEF FreeOK

\* The entries that meet no part of the block below the cursor lie below it.
LEMMA Narrow ==
    ASSUME NEW free, NEW lo \in Nat, NEW hi \in Nat, FreeOK(free, lo, hi),
           NEW b, b.addr \in Nat, b.size \in Nat, b.addr + b.size = hi, Avoids(free, b)
    PROVE  FreeOK(free, lo, b.addr)
<1>1. \A i \in 1 .. Len(free) : /\ Held(free[i], lo, hi) /\ Off(free[i], b)
                                /\ free[i].addr \in Nat /\ free[i].size \in Nat
    BY HeldTypes DEF FreeOK, Avoids
<1>2. \A i \in 1 .. Len(free) : Held(free[i], lo, b.addr)
    BY <1>1, Constants DEF Held, Off
<1>3. QED
    BY <1>2 DEF FreeOK

\* FreeList::store: the block is held, or dropped where the list is full.
LEMMA StoreIs ==
    ASSUME NEW free, NEW lo \in Nat, NEW hi \in Nat, FreeOK(free, lo, hi),
           NEW b \in Blocks, Held(b, lo, hi),
           \A i \in 1 .. Len(free) : Apart(free[i], b)
    PROVE  /\ FreeOK(Store(free, b), lo, hi)
           /\ \A c : Avoids(free, c) /\ Off(b, c) => Avoids(Store(free, b), c)
<1>1. CASE Len(free) < FreeListCap
    <2> DEFINE f == Append(free, b)
               n == Len(free)
    <2>1. Store(free, b) = f
        BY <1>1 DEF Store
    <2>2. /\ free \in Seq(Blocks) /\ n \in Nat
          /\ f \in Seq(Blocks) /\ Len(f) = n + 1 /\ f[n + 1] = b
          /\ \A i \in 1 .. n : f[i] = free[i]
        BY DEF FreeOK
    <2> HIDE DEF f, n
    <2>3. \A i \in 1 .. n + 1 : i \in 1 .. n \/ i = n + 1
        BY <2>2
    <2>4. \A i \in 1 .. n : Held(free[i], lo, hi) /\ Apart(free[i], b)
        BY DEF FreeOK, n
    <2>5. \A i \in 1 .. n + 1 : Held(f[i], lo, hi)
        BY <2>2, <2>3, <2>4
    <2>6. ASSUME NEW i \in 1 .. n + 1, NEW j \in 1 .. n + 1, i # j
          PROVE  Apart(f[i], f[j])
        <3>1. CASE i = n + 1
            <4>1. j \in 1 .. n
                BY <2>3, <2>6, <3>1
            <4>2. f[i] = b /\ f[j] = free[j] /\ Apart(free[j], b)
                BY <2>2, <2>4, <3>1, <4>1
            <4>3. QED
                BY <4>2 DEF Apart
        <3>2. CASE j = n + 1
            <4>1. i \in 1 .. n
                BY <2>3, <2>6, <3>2
            <4>2. QED
                BY <2>2, <2>4, <3>2, <4>1
        <3>3. CASE i \in 1 .. n /\ j \in 1 .. n
            BY <2>2, <2>6, <3>3 DEF FreeOK, n
        <3>4. QED
            BY <2>3, <3>1, <3>2, <3>3
    <2>7. FreeOK(f, lo, hi)
        BY <2>2, <2>5, <2>6 DEF FreeOK
    <2>8. ASSUME NEW c, Avoids(free, c), Off(b, c)
          PROVE  Avoids(f, c)
        BY <2>2, <2>3, <2>8 DEF Avoids, n
    <2>9. QED
        BY <2>1, <2>7, <2>8
<1>2. CASE ~(Len(free) < FreeListCap)
    BY <1>2 DEF Store
<1>3. QED
    BY <1>1, <1>2

\* The block at the cursor is nobody's, and the cursor moves beyond it.
LEMMA BumpKeeps ==
    ASSUME NEW n \in Nat, NEW slabs, SlabsOK(slabs, n),
           NEW g \in Nat, NEW vecs, VecsOK(vecs, slabs, g),
           NEW t \in Threads, slabs[t].gen = g,
           NEW r \in Requests, BumpFits(slabs[t], r),
           NEW v \in Vecs
    PROVE  LET a == Bumped(slabs[t], r)
               s == [slabs[t] EXCEPT !.ptr = a + r.size]
           IN  /\ SlabsOK([slabs EXCEPT ![t] = s], n)
               /\ VecsOK([vecs EXCEPT ![v] = [addr |-> a, size |-> r.size, phase |-> g]],
                         [slabs EXCEPT ![t] = s], g)
<1> DEFINE o == slabs[t]
           a == Bumped(o, r)
           s == [o EXCEPT !.ptr = a + r.size]
           w == [addr |-> a, size |-> r.size, phase |-> g]
<1>1. SlabOK(o, n)
    BY DEF SlabsOK
<1>2. /\ o.base \in Nat /\ o.gen \in Nat /\ o.ptr \in Nat /\ o.high \in Nat
      /\ o.free \in Seq(Blocks) /\ o.noSlab \in BOOLEAN /\ o.base <= o.ptr /\ o \in Slabs
    BY <1>1, SlabTypes DEF SlabOK
<1>3. /\ r.size \in Nat \ {0} /\ a \in Nat /\ a >= o.ptr
      /\ (r.size >= ReuseMin => a % CacheLine = 0)
    <2> HIDE DEF o
    <2>1. QED
        BY <1>2, BumpIs
<1>4. o.base # 0 /\ a + r.size <= o.base + SlabSize
    <2>1. a + r.size <= End(o)
        BY DEF BumpFits
    <2> HIDE DEF o, a
    <2>2. o.base # 0
        BY <1>3, <2>1 DEF End
    <2>3. QED
        BY <2>1, <2>2 DEF End
<1>5. /\ s \in Slabs /\ s.base = o.base /\ s.gen = o.gen /\ s.free = o.free /\ s.ptr = a + r.size
    <2> HIDE DEF o, a
    <2>1. a + r.size \in Nat
        BY <1>3
    <2>2. QED
        BY <1>2, <2>1 DEF Slabs
<1>6. w \in Handles /\ w.addr = a /\ w.size = r.size /\ w.phase = g
    <2> HIDE DEF a
    <2>1. QED
        BY <1>3 DEF Handles
<1> HIDE DEF a, s, w
<1>7. SlabOK(s, n)
    <2>1. FreeOK(s.free, s.base, s.ptr)
        <3>1. FreeOK(o.free, o.base, o.ptr)
            BY <1>1 DEF SlabOK
        <3> HIDE DEF o
        <3>2. a + r.size \in Nat /\ o.ptr <= a + r.size
            BY <1>2, <1>3
        <3>3. QED
            BY <1>2, <1>5, <3>1, <3>2, Widen
    <2>2. \E i \in 0 .. n - 1 : s.base = SlabBase(i)
        BY <1>1, <1>4, <1>5 DEF SlabOK
    <2> HIDE DEF o
    <2>3. s.base # 0 /\ s.base <= s.ptr /\ s.ptr <= s.base + SlabSize
        BY <1>2, <1>3, <1>4, <1>5
    <2>4. QED
        BY <1>5, <2>1, <2>2, <2>3 DEF SlabOK
<1>8. SlabsOK([slabs EXCEPT ![t] = s], n)
    BY <1>5, <1>7, SlabsStep
<1>9. /\ [slabs EXCEPT ![t] = s][t] = s
      /\ \A x \in Threads : x # t => [slabs EXCEPT ![t] = s][x] = slabs[x]
    BY DEF SlabsOK
<1>10. ASSUME NEW u \in Vecs \ {v}, vecs[u].addr # System
       PROVE  /\ Lies(vecs[u], o, g) => Lies(vecs[u], s, g)
              /\ Avoids(s.free, vecs[u])
              /\ Off(w, vecs[u])
    <2> DEFINE c == vecs[u]
    <2>1. c \in Handles /\ VecOK(c, slabs, g) /\ Avoids(o.free, c)
        BY <1>10 DEF VecsOK
    <2>2. c.addr \in Nat /\ c.size \in Nat
        BY <2>1 DEF Handles
    <2> HIDE DEF c
    <2>3. \/ Lies(c, o, g) \/ c.addr + c.size <= o.base \/ o.base + SlabSize <= c.addr
        BY <1>4, <2>1, <2>2, Place
    <2> HIDE DEF o
    <2>4. Lies(c, o, g) => Lies(c, s, g)
        BY <1>2, <1>3, <1>5, <2>2 DEF Lies
    <2>5. Off(w, c)
        <3>1. o.base \in Nat /\ o.ptr \in Nat /\ a \in Nat /\ r.size \in Nat
              /\ a >= o.ptr /\ o.base <= o.ptr /\ a + r.size <= o.base + SlabSize
            BY <1>2, <1>3, <1>4
        <3>2. c.addr + c.size <= a \/ a + r.size <= c.addr
            BY <2>2, <2>3, <3>1, Constants DEF Lies
        <3>3. QED
            BY <1>6, <3>2 DEF Off
    <2>6. QED
        BY <1>5, <2>1, <2>4, <2>5 DEF c
<1>11. Lies(w, s, g)
    <2>1. o.gen = g
        OBVIOUS
    <2> HIDE DEF o
    <2>2. QED
        BY <1>2, <1>3, <1>5, <1>6, <2>1 DEF Lies
<1>12. VecOK(w, [slabs EXCEPT ![t] = s], g)
    <2>1. w.size >= 1
        BY <1>3, <1>6
    <2>2. QED
        BY <1>3, <1>6, <1>9, <1>11, <2>1 DEF VecOK
<1>13. ASSUME NEW x \in Threads
       PROVE  Avoids([slabs EXCEPT ![t] = s][x].free, w)
    <2>1. CASE x = t
        <3>1. FreeOK(o.free, o.base, o.ptr)
            BY <1>1 DEF SlabOK
        <3> HIDE DEF o
        <3>2. Avoids(o.free, w)
            BY <1>2, <1>3, <1>6, <3>1, AvoidsOutside
        <3>3. QED
            BY <1>5, <1>9, <2>1, <3>2
    <2>2. CASE x # t
        <3>1. /\ w.addr \in Nat /\ w.size \in Nat
              /\ o.base <= w.addr /\ w.addr + w.size <= o.base + SlabSize
            <4> HIDE DEF o
            <4>1. QED
                BY <1>2, <1>3, <1>4, <1>6
        <3>2. Avoids(slabs[x].free, w)
            BY <1>4, <2>2, <3>1, Foreign
        <3>3. QED
            BY <1>9, <2>2, <3>2
    <2>3. QED
        BY <2>1, <2>2
<1>14. VecsOK([vecs EXCEPT ![v] = w], [slabs EXCEPT ![t] = s], g)
    BY <1>5, <1>6, <1>10, <1>12, <1>13, VecsStep
<1>15. QED
    BY <1>8, <1>14 DEF s, w, a


\* An entry serves a request: the block is its new owner's alone.
LEMMA ReuseKeeps ==
    ASSUME NEW n \in Nat, NEW slabs, SlabsOK(slabs, n),
           NEW g \in Nat, NEW vecs, VecsOK(vecs, slabs, g),
           NEW t \in Threads, slabs[t].gen = g, NEW v \in Vecs,
           NEW size \in Nat \ {0},
           NEW i \in 1 .. Len(slabs[t].free), slabs[t].free[i].size >= size
    PROVE  LET s == [slabs[t] EXCEPT !.free = Carve(slabs[t].free, i, size)]
               w == [addr |-> slabs[t].free[i].addr, size |-> size, phase |-> g]
           IN  /\ SlabsOK([slabs EXCEPT ![t] = s], n)
               /\ VecsOK([vecs EXCEPT ![v] = w], [slabs EXCEPT ![t] = s], g)
<1> DEFINE o == slabs[t]
           b == o.free[i]
           f == Carve(o.free, i, size)
           s == [o EXCEPT !.free = f]
           w == [addr |-> b.addr, size |-> size, phase |-> g]
           served == [addr |-> b.addr, size |-> size]
<1>1. SlabOK(o, n)
    BY DEF SlabsOK
<1>2. /\ o.base \in Nat /\ o.gen \in Nat /\ o.ptr \in Nat /\ o.high \in Nat
      /\ o.free \in Seq(Blocks) /\ o.noSlab \in BOOLEAN /\ o.base <= o.ptr /\ o \in Slabs
      /\ o.base # 0 => o.ptr <= o.base + SlabSize
    BY <1>1, SlabTypes DEF SlabOK
<1>3. FreeOK(o.free, o.base, o.ptr)
    BY <1>1 DEF SlabOK
<1>4. o.base # 0
    <2>1. o.base = 0 => o.free = << >>
        BY <1>1 DEF SlabOK
    <2>2. QED
        BY <2>1
<1>5. /\ b.addr \in Nat /\ b.size \in Nat /\ Held(b, o.base, o.ptr) /\ b.size >= size
      /\ \A c : Avoids(o.free, c) => Off(b, c)
    <2> HIDE DEF o
    <2>1. i \in 1 .. Len(o.free) /\ o.free[i].size >= size
        BY DEF o
    <2>2. QED
        BY <1>2, <1>3, <2>1, HeldTypes DEF FreeOK, Avoids
<1>6. /\ FreeOK(f, o.base, o.ptr) /\ Avoids(f, served)
      /\ \A c : c.addr \in Nat /\ c.size \in Nat /\ Avoids(o.free, c) => Avoids(f, c)
    <2>1. i \in 1 .. Len(o.free) /\ o.free[i].size >= size
        OBVIOUS
    <2> HIDE DEF o
    <2>2. QED
        BY <1>2, <1>3, <2>1, CarveIs
<1>7. /\ s \in Slabs /\ s.base = o.base /\ s.gen = o.gen /\ s.free = f /\ s.ptr = o.ptr
    <2>1. f \in Seq(Blocks)
        BY <1>6 DEF FreeOK
    <2> HIDE DEF o, f
    <2>2. QED
        BY <1>2, <2>1 DEF Slabs
<1>8. w \in Handles /\ w.addr = b.addr /\ w.size = size /\ w.phase = g
    <2> HIDE DEF b
    <2>1. QED
        BY <1>5 DEF Handles
<1>a. served.addr = b.addr /\ served.size = size
    OBVIOUS
<1> HIDE DEF b, f, s, w, served
<1>9. SlabOK(s, n)
    BY <1>1, <1>4, <1>6, <1>7 DEF SlabOK
<1>10. SlabsOK([slabs EXCEPT ![t] = s], n)
    BY <1>7, <1>9, SlabsStep
<1>11. /\ [slabs EXCEPT ![t] = s][t] = s
       /\ \A x \in Threads : x # t => [slabs EXCEPT ![t] = s][x] = slabs[x]
    BY DEF SlabsOK
<1>12. ASSUME NEW u \in Vecs \ {v}, vecs[u].addr # System
       PROVE  /\ Lies(vecs[u], o, g) => Lies(vecs[u], s, g)
              /\ Avoids(s.free, vecs[u])
              /\ Off(w, vecs[u])
    <2> DEFINE c == vecs[u]
    <2>1. c \in Handles /\ Avoids(o.free, c)
        BY <1>12 DEF VecsOK
    <2>2. c.addr \in Nat /\ c.size \in Nat
        BY <2>1 DEF Handles
    <2> HIDE DEF c, o
    <2>3. Off(b, c)
        BY <1>5, <2>1
    <2>4. Off(w, c)
        BY <1>5, <1>8, <2>2, <2>3 DEF Off
    <2>5. QED
        BY <1>6, <1>7, <2>1, <2>2, <2>4 DEF Lies, c
<1>13. Lies(w, s, g)
    <2>1. o.gen = g
        OBVIOUS
    <2> HIDE DEF o
    <2>2. QED
        BY <1>2, <1>5, <1>7, <1>8, <2>1 DEF Lies, Held
<1>14. VecOK(w, [slabs EXCEPT ![t] = s], g)
    <2>1. w.size >= 1 /\ w.addr % CacheLine = 0
        BY <1>5, <1>8 DEF Held
    <2>2. QED
        BY <1>8, <1>11, <1>13, <2>1 DEF VecOK
<1>15. ASSUME NEW x \in Threads
       PROVE  Avoids([slabs EXCEPT ![t] = s][x].free, w)
    <2>1. CASE x = t
        <3>1. Avoids(f, w)
            BY <1>6, <1>8, <1>a DEF Avoids, Off
        <3>2. QED
            BY <1>7, <1>11, <2>1, <3>1
    <2>2. CASE x # t
        <3>1. /\ w.addr \in Nat /\ w.size \in Nat
              /\ o.base <= w.addr /\ w.addr + w.size <= o.base + SlabSize
            <4> HIDE DEF o
            <4>1. QED
                BY <1>2, <1>4, <1>5, <1>8, Constants, SMTT(60) DEF Held
        <3>2. Avoids(slabs[x].free, w)
            BY <1>4, <2>2, <3>1, Foreign
        <3>3. QED
            BY <1>11, <2>2, <3>2
    <2>3. QED
        BY <2>1, <2>2
<1>16. VecsOK([vecs EXCEPT ![v] = w], [slabs EXCEPT ![t] = s], g)
    BY <1>7, <1>8, <1>12, <1>14, <1>15, VecsStep
<1>17. QED
    BY <1>10, <1>16 DEF s, w, f, b

\* A handle lets go of its block, and its slab changes within the bounds of the others.
LEMMA ReleaseKeeps ==
    ASSUME NEW n \in Nat, NEW slabs, SlabsOK(slabs, n),
           NEW g \in Nat, NEW vecs, VecsOK(vecs, slabs, g),
           NEW t \in Threads, NEW v \in Vecs,
           NEW s, SlabOK(s, n), s.base = slabs[t].base, s.gen = slabs[t].gen,
           \A u \in Vecs \ {v} : vecs[u].addr # System =>
               /\ s.gen = g => Avoids(s.free, vecs[u])
               /\ Lies(vecs[u], slabs[t], g) => vecs[u].addr + vecs[u].size <= s.ptr
    PROVE  /\ SlabsOK([slabs EXCEPT ![t] = s], n)
           /\ VecsOK([vecs EXCEPT ![v] = NoVec], [slabs EXCEPT ![t] = s], g)
<1>1. SlabsOK([slabs EXCEPT ![t] = s], n)
    BY SlabsStep
<1>2. NoVec \in Handles /\ NoVec.addr = System
    BY DEF NoVec, System, Handles
<1>3. s \in Slabs
    BY DEF SlabOK
<1>4. \A u \in Vecs \ {v} : vecs[u].addr # System =>
          (Lies(vecs[u], slabs[t], g) => Lies(vecs[u], s, g))
    BY DEF Lies
<1>5. VecsOK([vecs EXCEPT ![v] = NoVec], [slabs EXCEPT ![t] = s], g)
    BY <1>2, <1>3, <1>4, VecsStep
<1>6. QED
    BY <1>1, <1>5

\* The released block is at the cursor, which retreats below it.
LEMMA RetreatKeeps ==
    ASSUME NEW n \in Nat, NEW slabs, SlabsOK(slabs, n),
           NEW g \in Nat, NEW vecs, VecsOK(vecs, slabs, g),
           NEW t \in Threads, slabs[t].gen = g, slabs[t].base # 0, NEW v \in Vecs,
           NEW free, FreeOK(free, slabs[t].base, slabs[t].ptr),
           NEW b, b.addr \in Nat, b.size \in Nat \ {0},
           slabs[t].base <= b.addr, b.addr + b.size = slabs[t].ptr, Avoids(free, b),
           \A u \in Vecs \ {v} : vecs[u].addr # System =>
               Avoids(free, vecs[u]) /\ Off(b, vecs[u])
    PROVE  LET s == Retreat([slabs[t] EXCEPT !.free = free], b.addr)
           IN  /\ SlabsOK([slabs EXCEPT ![t] = s], n)
               /\ VecsOK([vecs EXCEPT ![v] = NoVec], [slabs EXCEPT ![t] = s], g)
<1> DEFINE o == slabs[t]
           s == Retreat([o EXCEPT !.free = free], b.addr)
<1>1. SlabOK(o, n)
    BY DEF SlabsOK
<1>2. /\ o.base \in Nat /\ o.gen \in Nat /\ o.ptr \in Nat /\ o.high \in Nat
      /\ o.free \in Seq(Blocks) /\ o.noSlab \in BOOLEAN /\ o.base <= o.ptr /\ o \in Slabs
      /\ o.base # 0 => o.ptr <= o.base + SlabSize
    BY <1>1, SlabTypes DEF SlabOK
<1>3. /\ s \in Slabs /\ s.base = o.base /\ s.gen = o.gen /\ s.free = free /\ s.ptr = b.addr
    <2>1. free \in Seq(Blocks)
        BY DEF FreeOK
    <2> HIDE DEF o
    <2>2. QED
        BY <1>2, <2>1 DEF Slabs, Retreat, Larger
<1> HIDE DEF s
<1>4. SlabOK(s, n)
    <2>1. FreeOK(free, o.base, b.addr)
        BY <1>2, Narrow
    <2>2. o.base # 0 /\ o.base <= b.addr /\ b.addr <= o.base + SlabSize
        <3>1. o.base # 0 /\ o.base <= b.addr /\ b.addr + b.size = o.ptr
            OBVIOUS
        <3> HIDE DEF o
        <3>2. QED
            BY <1>2, <3>1, Constants
    <2>3. QED
        BY <1>1, <1>3, <2>1, <2>2 DEF SlabOK
<1>5. ASSUME NEW u \in Vecs \ {v}, vecs[u].addr # System, Lies(vecs[u], o, g)
      PROVE  vecs[u].addr + vecs[u].size <= s.ptr
    <2> DEFINE c == vecs[u]
    <2>1. c \in Handles /\ VecOK(c, slabs, g) /\ Off(b, c)
        BY <1>5 DEF VecsOK
    <2>2. c.addr \in Nat /\ c.size \in Nat /\ c.size >= 1
        BY <2>1 DEF Handles, VecOK
    <2>3. c.addr + c.size <= o.ptr /\ b.addr + b.size = o.ptr
        BY <1>5 DEF Lies
    <2> HIDE DEF c, o
    <2>4. c.addr + c.size <= b.addr
        BY <1>2, <2>1, <2>2, <2>3 DEF Off
    <2>5. QED
        BY <1>3, <2>4 DEF c
<1>6. \A u \in Vecs \ {v} : vecs[u].addr # System =>
          /\ s.gen = g => Avoids(s.free, vecs[u])
          /\ Lies(vecs[u], o, g) => vecs[u].addr + vecs[u].size <= s.ptr
    BY <1>3, <1>5
<1>7. /\ SlabsOK([slabs EXCEPT ![t] = s], n)
      /\ VecsOK([vecs EXCEPT ![v] = NoVec], [slabs EXCEPT ![t] = s], g)
    BY <1>3, <1>4, <1>6, ReleaseKeeps
<1>8. QED
    BY <1>7 DEF s


\* A handle is given a block of the system allocator, or none.
LEMMA SystemKeeps ==
    ASSUME NEW n \in Nat, NEW slabs, SlabsOK(slabs, n),
           NEW g, NEW vecs, VecsOK(vecs, slabs, g),
           NEW t \in Threads, NEW v \in Vecs, NEW w \in Handles, w.addr = System
    PROVE  VecsOK([vecs EXCEPT ![v] = w], slabs, g)
<1>1. slabs[t] \in Slabs /\ [slabs EXCEPT ![t] = slabs[t]] = slabs
    BY DEF SlabsOK
<1>2. \A u \in Vecs \ {v} : vecs[u].addr # System =>
          (slabs[t].gen = g => Avoids(slabs[t].free, vecs[u]))
    BY DEF VecsOK
<1>3. VecsOK([vecs EXCEPT ![v] = w], [slabs EXCEPT ![t] = slabs[t]], g)
    BY <1>1, <1>2, VecsStep
<1>4. QED
    BY <1>1, <1>3

\* An empty slab of this phase, in the place of one of an older phase or of none.
LEMMA ResetKeeps ==
    ASSUME NEW n \in Nat, NEW m \in Nat, n <= m, NEW slabs, SlabsOK(slabs, n),
           NEW g, NEW vecs, VecsOK(vecs, slabs, g),
           NEW t \in Threads, slabs[t].gen # g,
           NEW s \in Slabs, s.free = << >>, s.ptr = s.base, s.base # 0,
           \E i \in 0 .. m - 1 : s.base = SlabBase(i),
           s.base = slabs[t].base \/ s.base = SlabBase(n),
           NEW v \in Vecs, NEW w \in Handles, w.addr = System
    PROVE  /\ SlabsOK([slabs EXCEPT ![t] = s], m)
           /\ VecsOK([vecs EXCEPT ![v] = w], [slabs EXCEPT ![t] = s], g)
<1>1. SlabOK(s, m)
    <2>1. s.base \in Nat /\ s.base <= s.ptr /\ s.ptr <= s.base + SlabSize
        BY Constants DEF Slabs
    <2>2. << >> \in Seq(Blocks) /\ Len(<< >>) = 0
        OBVIOUS
    <2>3. FreeOK(s.free, s.base, s.ptr)
        BY <2>2 DEF FreeOK
    <2>4. QED
        BY <2>1, <2>3 DEF SlabOK
<1>2. SlabsOK([slabs EXCEPT ![t] = s], m)
    BY <1>1, SlabsStep
<1>3. \A u \in Vecs \ {v} : vecs[u].addr # System =>
          /\ Lies(vecs[u], slabs[t], g) => Lies(vecs[u], s, g)
          /\ s.gen = g => Avoids(s.free, vecs[u])
    BY DEF Lies, Avoids
<1>4. VecsOK([vecs EXCEPT ![v] = w], [slabs EXCEPT ![t] = s], g)
    BY <1>3, VecsStep
<1>5. QED
    BY <1>2, <1>4

\* A large block of a slab of this phase, released: it joins its held neighbours, and the
\* union frees the top of the slab or is held.
LEMMA MergeKeeps ==
    ASSUME NEW n \in Nat, NEW slabs, SlabsOK(slabs, n),
           NEW g \in Nat, NEW vecs, VecsOK(vecs, slabs, g),
           NEW t \in Threads, slabs[t].gen = g, slabs[t].base # 0,
           NEW v \in Vecs, vecs[v].addr # System, Lies(vecs[v], slabs[t], g),
           vecs[v].size >= ReuseMin
    PROVE  LET o == slabs[t]
               m == Merge(o.free, vecs[v].addr, vecs[v].size)
               merged == [o EXCEPT !.free = m.free]
               s == IF m.addr + m.size = o.ptr THEN Retreat(merged, m.addr)
                    ELSE [merged EXCEPT !.free =
                            Store(@, [addr |-> m.addr, size |-> m.size])]
           IN  /\ SlabsOK([slabs EXCEPT ![t] = s], n)
               /\ VecsOK([vecs EXCEPT ![v] = NoVec], [slabs EXCEPT ![t] = s], g)
<1> DEFINE o == slabs[t]
           b == vecs[v]
           c == [addr |-> b.addr, size |-> b.size]
           m == Merge(o.free, b.addr, b.size)
           d == [addr |-> m.addr, size |-> m.size]
           others == {vecs[u] : u \in {x \in Vecs \ {v} : vecs[x].addr # System}}
<1>1. SlabOK(o, n)
    BY DEF SlabsOK
<1>2. /\ o.base \in Nat /\ o.gen \in Nat /\ o.ptr \in Nat /\ o.high \in Nat
      /\ o.free \in Seq(Blocks) /\ o.noSlab \in BOOLEAN /\ o.base <= o.ptr /\ o \in Slabs
      /\ o.base # 0 => o.ptr <= o.base + SlabSize
    BY <1>1, SlabTypes DEF SlabOK
<1>3. FreeOK(o.free, o.base, o.ptr)
    BY <1>1 DEF SlabOK
<1>4. \A u \in Vecs : vecs[u].addr # System =>
          /\ vecs[u] \in Handles /\ VecOK(vecs[u], slabs, g) /\ Avoids(o.free, vecs[u])
          /\ vecs[u].addr \in Nat /\ vecs[u].size \in Nat \ {0}
    <2>1. \A u \in Vecs : vecs[u].addr # System =>
              vecs[u] \in Handles /\ VecOK(vecs[u], slabs, g) /\ Avoids(o.free, vecs[u])
        BY DEF VecsOK
    <2>2. \A h \in Handles : h.addr \in Nat /\ h.size \in Nat
        BY DEF Handles
    <2>3. QED
        BY <2>1, <2>2 DEF VecOK
<1>5. /\ b.addr \in Nat /\ b.size \in Nat \ {0} /\ b.addr % CacheLine = 0
      /\ o.base <= b.addr /\ b.addr + b.size <= o.ptr /\ b.size >= ReuseMin
      /\ Avoids(o.free, b)
    BY <1>4 DEF VecOK, Lies
<1>6. /\ c \in Blocks /\ c.addr = b.addr /\ c.size = b.size
      /\ Held(c, o.base, o.ptr) /\ Avoids(o.free, c)
    <2> HIDE DEF b
    <2>1. c \in Blocks /\ c.addr = b.addr /\ c.size = b.size
        BY <1>5 DEF Blocks
    <2> HIDE DEF c, o
    <2>2. Held(c, o.base, o.ptr) /\ Avoids(o.free, c)
        BY <1>5, <2>1 DEF Held, Avoids, Off
    <2>3. QED
        BY <2>1, <2>2
<1>7. \A e \in others : /\ e.addr \in Nat /\ e.size \in Nat \ {0}
                        /\ Avoids(o.free, e) /\ Off(c, e)
    <2> SUFFICES ASSUME NEW u \in Vecs \ {v}, vecs[u].addr # System
                 PROVE  /\ vecs[u].addr \in Nat /\ vecs[u].size \in Nat \ {0}
                        /\ Avoids(o.free, vecs[u]) /\ Off(c, vecs[u])
        OBVIOUS
    <2>1. Off(b, vecs[u])
        BY DEF VecsOK
    <2> HIDE DEF b, c
    <2>2. Off(c, vecs[u])
        BY <1>6, <2>1 DEF Off
    <2>3. QED
        BY <1>4, <2>2
<1> HIDE DEF others, c, m
<1>8. MergeOK(m, o.base, o.ptr, others) /\ m.size >= b.size /\ m.at > Len(m.free)
    <2>1. m = Merge(o.free, c.addr, c.size)
        BY <1>6 DEF m
    <2> HIDE DEF o
    <2>2. MergeOK(m, o.base, o.ptr, others) /\ m.size >= c.size /\ m.at > Len(m.free)
        BY <1>2, <1>3, <1>6, <1>7, <2>1, MergeIs
    <2>3. QED
        BY <1>6, <2>2
<1>9. /\ m.addr \in Nat /\ m.size \in Nat \ {0} /\ m.free \in Seq(Blocks)
      /\ FreeOK(m.free, o.base, o.ptr) /\ Held(m, o.base, o.ptr) /\ Avoids(m.free, m)
      /\ \A e \in others : Avoids(m.free, e) /\ Off(m, e)
    <2> HIDE DEF b, o
    <2>1. QED
        BY <1>5, <1>8 DEF MergeOK, Passes
<1>10. \A i \in 1 .. Len(m.free) : Apart(m.free[i], m)
    <2>1. m.at \in Nat /\ Len(m.free) \in Nat
        BY <1>8 DEF MergeOK, Passes
    <2>2. \A i \in 1 .. Len(m.free) : i < m.at
        BY <1>8, <2>1
    <2>3. QED
        BY <1>8, <2>2 DEF MergeOK
<1>11. /\ d \in Blocks /\ d.addr = m.addr /\ d.size = m.size
    BY <1>9 DEF Blocks
<1>12. \A u \in Vecs \ {v} : vecs[u].addr # System => vecs[u] \in others
    BY DEF others
<1>13. CASE m.addr + m.size = o.ptr
    <2> DEFINE s == Retreat([o EXCEPT !.free = m.free], m.addr)
    <2>1. o.base <= m.addr
        BY <1>9 DEF Held
    <2>2. /\ SlabsOK([slabs EXCEPT ![t] = s], n)
          /\ VecsOK([vecs EXCEPT ![v] = NoVec], [slabs EXCEPT ![t] = s], g)
        BY <1>9, <1>12, <1>13, <2>1, RetreatKeeps
    <2>3. QED
        BY <1>13, <2>2 DEF m
<1>14. CASE m.addr + m.size # o.ptr
    <2> DEFINE f == Store(m.free, d)
               s == [[o EXCEPT !.free = m.free] EXCEPT !.free = Store(@, d)]
    <2>1. Held(d, o.base, o.ptr) /\ \A i \in 1 .. Len(m.free) : Apart(m.free[i], d)
        <3> HIDE DEF d, o
        <3>1. QED
            BY <1>9, <1>10, <1>11 DEF Held, Apart
    <2>2. /\ FreeOK(f, o.base, o.ptr)
          /\ \A e : Avoids(m.free, e) /\ Off(d, e) => Avoids(f, e)
        <3> HIDE DEF d, o
        <3>1. QED
            BY <1>2, <1>9, <1>11, <2>1, StoreIs
    <2>3. s \in Slabs /\ s.base = o.base /\ s.gen = o.gen /\ s.free = f /\ s.ptr = o.ptr
        <3>1. f \in Seq(Blocks)
            BY <2>2 DEF FreeOK
        <3> HIDE DEF o, f
        <3>2. s = [o EXCEPT !.free = f]
            BY <1>2 DEF Slabs, f
        <3>3. QED
            BY <1>2, <3>1, <3>2 DEF Slabs
    <2> HIDE DEF f, s, d
    <2>4. SlabOK(s, n)
        BY <1>1, <2>2, <2>3 DEF SlabOK
    <2>5. ASSUME NEW u \in Vecs \ {v}, vecs[u].addr # System
          PROVE  /\ Avoids(s.free, vecs[u])
                 /\ Lies(vecs[u], o, g) => vecs[u].addr + vecs[u].size <= s.ptr
        <3>1. Avoids(m.free, vecs[u]) /\ Off(m, vecs[u])
            BY <1>9, <1>12, <2>5
        <3>2. Off(d, vecs[u])
            BY <1>11, <3>1 DEF Off
        <3>3. QED
            BY <2>2, <2>3, <3>1, <3>2 DEF Lies
    <2>6. /\ SlabsOK([slabs EXCEPT ![t] = s], n)
          /\ VecsOK([vecs EXCEPT ![v] = NoVec], [slabs EXCEPT ![t] = s], g)
        BY <2>3, <2>4, <2>5, ReleaseKeeps
    <2>7. QED
        BY <1>14, <2>6 DEF m, s, d
<1>15. QED
    BY <1>13, <1>14

-----------------------------------------------------------------------------
(***************************************************************************)
(* The steps.                                                              *)
(***************************************************************************)

\* No phase is open at first.
LEMMA PhaseInit == Init => PhaseInv
<1> SUFFICES ASSUME Init PROVE PhaseInv
    OBVIOUS
<1>1. /\ enabled = FALSE /\ active = FALSE /\ generation = 0 /\ opener = None
      /\ guard = [t \in Threads |-> FALSE]
    BY DEF Init
<1>2. OnePhaseInFlight
    BY <1>1 DEF OnePhaseInFlight
<1>3. guard \in [Threads -> BOOLEAN]
    BY <1>1
<1>4. QED
    BY <1>1, <1>2, <1>3 DEF PhaseInv

\* The two stores of begin_phase and the guard: no step opens a second phase. Only the phase's
\* own variables matter, so that an allocation or a release is a stutter.
LEMMA PhaseStep == PhaseInv /\ [Next]_vars => PhaseInv'
<1> SUFFICES ASSUME PhaseInv, [Next]_vars PROVE PhaseInv'
    OBVIOUS
<1> USE ArenaAssumption DEF PhaseInv, OnePhaseInFlight
<1>1. CASE UNCHANGED phases
    BY <1>1 DEF phases
<1>2. CASE EnableArena
    BY <1>2 DEF EnableArena
<1>3. ASSUME NEW t \in Threads, EnterInert(t)
      PROVE  PhaseInv'
    BY <1>3 DEF EnterInert
<1>4. ASSUME NEW t \in Threads, BeginPhase(t)
      PROVE  PhaseInv'
    BY <1>4 DEF BeginPhase
<1>5. ASSUME NEW t \in Threads, BumpGeneration(t)
      PROVE  PhaseInv'
    BY <1>5 DEF BumpGeneration
<1>6. ASSUME NEW t \in Threads, EndPhase(t)
      PROVE  PhaseInv'
    BY <1>6 DEF EndPhase
<1>7. ASSUME NEW t \in Threads, NEW v \in Vecs, Release(t, v)
      PROVE  UNCHANGED phases
    BY <1>7 DEF Release, ReleaseSystem, ReleaseForeign, ReleaseSmall, ReleaseLarge
<1>8. ASSUME NEW t \in Threads, NEW v \in Vecs, NEW r \in Requests, Alloc(t, v, r)
      PROVE  UNCHANGED phases
    BY <1>8 DEF Alloc, AllocSystem, AllocReuse, AllocBump, AllocOverflow, AllocNoSlab,
                AllocReset
<1>9. CASE UNCHANGED vars
    BY <1>1, <1>9 DEF vars
<1>10. QED
    BY <1>1, <1>2, <1>3, <1>4, <1>5, <1>6, <1>7, <1>8, <1>9 DEF Next, Steps

\* No slab is handed out and no buffer is held at first.
LEMMA BlockInit == Init => BlockInv
<1> SUFFICES ASSUME Init PROVE BlockInv
    OBVIOUS
<1> DEFINE s == [base |-> 0, gen |-> 0, ptr |-> 0, high |-> 0, free |-> << >>,
                 noSlab |-> FALSE]
<1>1. s \in Slabs
    BY DEF Slabs
<1>2. FreeOK(<< >>, 0, 0)
    BY DEF FreeOK
<1>3. SlabOK(s, 0)
    BY <1>1, <1>2 DEF SlabOK
<1>4. slab = [t \in Threads |-> s] /\ nextSlab = 0 /\ vec = [v \in Vecs |-> NoVec]
      /\ opener = None
    BY DEF Init
<1>5. SlabsOK(slab, 0)
    BY <1>1, <1>3, <1>4 DEF SlabsOK
<1>6. NoVec \in Handles /\ NoVec.addr = System
    BY DEF NoVec, System, Handles
<1>7. VecsOK(vec, slab, generation)
    BY <1>4, <1>6 DEF VecsOK
<1>8. QED
    BY <1>4, <1>5, <1>7 DEF BlockInv

\* Where no buffer of the arena is held, only the shape of the slabs is left.
LEMMA AnyGeneration ==
    ASSUME NEW slabs, NEW vecs, NEW g, NEW h, VecsOK(vecs, slabs, g),
           \A v \in Vecs : vecs[v].addr = System
    PROVE  VecsOK(vecs, slabs, h)
BY DEF VecsOK

\* Every step keeps BlockInv, where no caller keeps a buffer into a later phase.
LEMMA BlockStep ==
    ASSUME KeepsStale = FALSE
    PROVE  PhaseInv /\ BlockInv /\ [Next]_vars => BlockInv'
<1> SUFFICES ASSUME PhaseInv, BlockInv, [Next]_vars PROVE BlockInv'
    OBVIOUS
<1>1. /\ nextSlab \in Nat /\ generation \in Nat
      /\ SlabsOK(slab, nextSlab) /\ VecsOK(vec, slab, generation)
      /\ opener # None => \A v \in Vecs : vec[v].addr = System
    BY DEF BlockInv, PhaseInv
<1>2. /\ NoVec \in Handles /\ NoVec.addr = System
      /\ SystemVec \in Handles /\ SystemVec.addr = System
    BY DEF NoVec, SystemVec, System, Handles
<1>3. CASE UNCHANGED <<nextSlab, slab, vec, generation, opener>>
    BY <1>1, <1>3 DEF BlockInv
<1>4. CASE EnableArena
    BY <1>3, <1>4 DEF EnableArena
<1>5. ASSUME NEW t \in Threads, EnterInert(t)
      PROVE  BlockInv'
    BY <1>3, <1>5 DEF EnterInert
<1>6. ASSUME NEW t \in Threads, BeginPhase(t)
      PROVE  BlockInv'
    BY <1>1, <1>6 DEF BeginPhase, MayBegin, BlockInv
<1>7. ASSUME NEW t \in Threads, BumpGeneration(t)
      PROVE  BlockInv'
    <2>1. opener # None
        BY <1>7, ArenaAssumption DEF BumpGeneration
    <2>2. VecsOK(vec, slab, generation')
        BY <1>1, <2>1, AnyGeneration
    <2>3. QED
        BY <1>1, <1>7, <2>1, <2>2 DEF BumpGeneration, BlockInv
<1>8. ASSUME NEW t \in Threads, EndPhase(t)
      PROVE  BlockInv'
    BY <1>3, <1>8 DEF EndPhase
<1>9. ASSUME NEW t \in Threads, NEW v \in Vecs, NEW r \in Requests, Alloc(t, v, r)
      PROVE  BlockInv'
    <2>1. opener = None /\ opener' = None /\ generation' = generation
        BY <1>9 DEF Alloc, AllocSystem, AllocReuse, AllocBump, AllocOverflow, AllocNoSlab,
                    AllocReset, MayAllocate, phases
    <2>2. slab[t] \in Slabs /\ slab \in [Threads -> Slabs] /\ vec \in [Vecs -> Handles]
        BY <1>1 DEF SlabsOK, VecsOK
    <2>3. SUFFICES /\ nextSlab' \in Nat
                   /\ SlabsOK(slab', nextSlab')
                   /\ VecsOK(vec', slab', generation)
        BY <2>1 DEF BlockInv
    <2>4. CASE AllocSystem(t, v, r) \/ AllocOverflow(t, v, r)
        <3>1. /\ nextSlab' = nextSlab /\ slab' = slab
              /\ vec' = [vec EXCEPT ![v] = SystemVec]
            BY <2>4 DEF AllocSystem, AllocOverflow, ServeSystem
        <3>2. VecsOK(vec', slab, generation)
            BY <1>1, <1>2, <3>1, SystemKeeps
        <3>3. QED
            BY <1>1, <3>1, <3>2
    <2>5. CASE AllocReuse(t, v, r)
        <3> DEFINE o == slab[t]
                   i == FirstFit(o.free, r.size)
                   s == [o EXCEPT !.free = Carve(o.free, i, r.size)]
                   w == [addr |-> o.free[i].addr, size |-> r.size, phase |-> generation]
        <3>1. /\ o.gen = generation /\ Fits(o.free, r.size) # {}
              /\ nextSlab' = nextSlab /\ slab' = [slab EXCEPT ![t] = s]
              /\ vec' = [vec EXCEPT ![v] = w]
            BY <2>2, <2>5 DEF AllocReuse, Current, Reuses, Serve, Slabs
        <3>2. r.size \in Nat \ {0} /\ o.free \in Seq(Blocks)
            BY <2>2, ArenaAssumption DEF Slabs
        <3>3. i \in 1 .. Len(o.free) /\ o.free[i].size >= r.size
            BY <3>1, <3>2, FirstFitIs
        <3> HIDE DEF i
        <3>4. SlabsOK([slab EXCEPT ![t] = s], nextSlab)
              /\ VecsOK([vec EXCEPT ![v] = w], [slab EXCEPT ![t] = s], generation)
            BY <1>1, <3>1, <3>2, <3>3, ReuseKeeps
        <3>5. QED
            BY <1>1, <3>1, <3>4
    <2>6. CASE AllocBump(t, v, r)
        <3> DEFINE a == Bumped(slab[t], r)
                   s == [slab[t] EXCEPT !.ptr = a + r.size]
                   w == [addr |-> a, size |-> r.size, phase |-> generation]
        <3>1. /\ slab[t].gen = generation /\ BumpFits(slab[t], r)
              /\ nextSlab' = nextSlab /\ slab' = [slab EXCEPT ![t] = s]
              /\ vec' = [vec EXCEPT ![v] = w]
            BY <2>2, <2>6 DEF AllocBump, Current, Serve, Slabs
        <3>2. SlabsOK([slab EXCEPT ![t] = s], nextSlab)
              /\ VecsOK([vec EXCEPT ![v] = w], [slab EXCEPT ![t] = s], generation)
            BY <1>1, <3>1, BumpKeeps
        <3>3. QED
            BY <1>1, <3>1, <3>2
    <2>7. CASE AllocNoSlab(t, v, r)
        <3> DEFINE s == [slab[t] EXCEPT !.noSlab = TRUE]
        <3>1. /\ nextSlab' = nextSlab + 1 /\ slab' = [slab EXCEPT ![t] = s]
              /\ vec' = [vec EXCEPT ![v] = SystemVec]
            BY <2>2, <2>7 DEF AllocNoSlab, ServeSystem
        <3>2. /\ s \in Slabs /\ s.base = slab[t].base /\ s.gen = slab[t].gen
              /\ s.ptr = slab[t].ptr /\ s.free = slab[t].free
            BY <2>2 DEF Slabs
        <3>3. SlabOK(slab[t], nextSlab)
            BY <1>1 DEF SlabsOK
        <3>4. \A i \in 0 .. nextSlab - 1 : i \in 0 .. (nextSlab + 1) - 1
            BY <1>1
        <3> HIDE DEF s
        <3>5. SlabOK(s, nextSlab + 1)
            BY <3>2, <3>3, <3>4 DEF SlabOK
        <3>6. nextSlab + 1 \in Nat /\ nextSlab <= nextSlab + 1
            BY <1>1
        <3>7. SlabsOK([slab EXCEPT ![t] = s], nextSlab + 1)
            BY <1>1, <3>2, <3>5, <3>6, SlabsStep
        <3>8. \A u \in Vecs \ {v} : vec[u].addr # System =>
                  /\ Lies(vec[u], slab[t], generation) => Lies(vec[u], s, generation)
                  /\ s.gen = generation => Avoids(s.free, vec[u])
            BY <1>1, <3>2 DEF Lies, VecsOK
        <3>9. VecsOK([vec EXCEPT ![v] = SystemVec], [slab EXCEPT ![t] = s], generation)
            BY <1>1, <1>2, <3>2, <3>8, VecsStep
        <3>10. QED
            BY <3>1, <3>6, <3>7, <3>9
    <2>8. CASE AllocReset(t, v, r)
        <3> DEFINE base == IF slab[t].base = 0 THEN SlabBase(nextSlab) ELSE slab[t].base
                   s == Reset(slab[t], base)
                   a == Bumped(s, r)
                   bumped == [s EXCEPT !.ptr = a + r.size]
                   w == [addr |-> a, size |-> r.size, phase |-> generation]
        <3>1. slab[t].gen # generation /\ vec[v] = NoVec
            BY <2>8 DEF AllocReset, Current, Serve, ServeSystem
        <3>2. /\ nextSlab' \in Nat /\ nextSlab <= nextSlab'
              /\ base \in Nat /\ base # 0
              /\ base = slab[t].base \/ base = SlabBase(nextSlab)
              /\ \E i \in 0 .. nextSlab' - 1 : base = SlabBase(i)
            <4>1. CASE slab[t].base = 0
                <5>1. nextSlab' = nextSlab + 1 /\ base = SlabBase(nextSlab)
                    BY <2>8, <4>1 DEF AllocReset
                <5>2. SlabBase(nextSlab) \in Nat /\ SlabBase(nextSlab) # 0
                    BY <1>1, SlabsApart, Constants
                <5>3. nextSlab \in 0 .. nextSlab' - 1
                    BY <1>1, <5>1
                <5> HIDE DEF base
                <5>4. QED
                    BY <1>1, <5>1, <5>2, <5>3
            <4>2. CASE slab[t].base # 0
                <5>1. nextSlab' = nextSlab /\ base = slab[t].base
                    BY <2>8, <4>2 DEF AllocReset
                <5>2. \E i \in 0 .. nextSlab - 1 : slab[t].base = SlabBase(i)
                    BY <1>1, <4>2 DEF SlabsOK, SlabOK
                <5>3. slab[t].base \in Nat
                    BY <2>2 DEF Slabs
                <5> HIDE DEF base
                <5>4. QED
                    BY <1>1, <4>2, <5>1, <5>2, <5>3
            <4>3. QED
                BY <4>1, <4>2
        <3> HIDE DEF base
        <3>3. /\ s \in Slabs /\ s.base = base /\ s.ptr = base /\ s.gen = generation
              /\ s.free = << >>
            <4>1. << >> \in Seq(Blocks)
                OBVIOUS
            <4>2. s = [slab[t] EXCEPT !.base = base, !.gen = generation, !.ptr = base,
                                      !.high = base, !.free = << >>]
                BY DEF Reset
            <4>3. QED
                BY <1>1, <2>2, <3>2, <4>1, <4>2 DEF Slabs
        <3>4. /\ slab' = [slab EXCEPT ![t] = IF BumpFits(s, r) THEN bumped ELSE s]
              /\ vec' = [vec EXCEPT ![v] = IF BumpFits(s, r) THEN w ELSE SystemVec]
            BY <2>8 DEF AllocReset, Serve, ServeSystem, base
        <3> HIDE DEF s
        <3>5. ASSUME NEW x \in Handles, x.addr = System
              PROVE  /\ SlabsOK([slab EXCEPT ![t] = s], nextSlab')
                     /\ VecsOK([vec EXCEPT ![v] = x], [slab EXCEPT ![t] = s], generation)
            BY <1>1, <3>1, <3>2, <3>3, <3>5, ResetKeeps
        <3>6. CASE ~BumpFits(s, r)
            BY <1>2, <3>2, <3>4, <3>5, <3>6
        <3>7. CASE BumpFits(s, r)
            <4> DEFINE sl == [slab EXCEPT ![t] = s]
            <4>1. [vec EXCEPT ![v] = NoVec] = vec /\ sl[t] = s
                BY <2>2, <3>1
            <4>2. SlabsOK(sl, nextSlab') /\ VecsOK(vec, sl, generation)
                BY <1>2, <3>5, <4>1
            <4>3. slab' = [sl EXCEPT ![t] = bumped] /\ vec' = [vec EXCEPT ![v] = w]
                BY <3>4, <3>7
            <4> HIDE DEF sl
            <4>4. /\ SlabsOK([sl EXCEPT ![t] = bumped], nextSlab')
                  /\ VecsOK([vec EXCEPT ![v] = w], [sl EXCEPT ![t] = bumped], generation)
                BY <1>1, <3>2, <3>3, <3>7, <4>1, <4>2, BumpKeeps
            <4>5. QED
                BY <3>2, <4>3, <4>4
        <3>8. QED
            BY <3>6, <3>7
    <2>9. QED
        BY <1>9, <2>4, <2>5, <2>6, <2>7, <2>8 DEF Alloc
<1>10. ASSUME NEW t \in Threads, NEW v \in Vecs, Release(t, v)
       PROVE  BlockInv'
    <2>1. opener' = opener /\ generation' = generation /\ nextSlab' = nextSlab
          /\ vec' = [vec EXCEPT ![v] = NoVec]
        BY <1>10 DEF Release, ReleaseSystem, ReleaseForeign, ReleaseSmall, ReleaseLarge,
                     Drop, phases
    <2>2. slab[t] \in Slabs /\ slab \in [Threads -> Slabs] /\ vec \in [Vecs -> Handles]
        BY <1>1 DEF SlabsOK, VecsOK
    <2>3. opener' # None => \A u \in Vecs : vec'[u].addr = System
        BY <1>1, <1>2, <2>1, <2>2
    <2>4. SUFFICES SlabsOK(slab', nextSlab) /\ VecsOK(vec', slab', generation)
        BY <1>1, <2>1, <2>3 DEF BlockInv
    <2>5. CASE slab' = slab
        <3>1. VecsOK(vec', slab, generation)
            BY <1>1, <1>2, <2>1, SystemKeeps
        <3>2. QED
            BY <1>1, <2>5, <3>1
    <2>6. ASSUME vec[v].addr # System, Own(slab[t], vec[v])
          PROVE  /\ slab[t].gen = generation /\ slab[t].base # 0
                 /\ VecOK(vec[v], slab, generation)
                 /\ vec[v].addr \in Nat /\ vec[v].size \in Nat \ {0}
                 /\ Lies(vec[v], slab[t], generation)
        <3> DEFINE b == vec[v]
                   o == slab[t]
        <3>1. VecOK(b, slab, generation) /\ b \in Handles
            BY <1>1, <2>6 DEF VecsOK
        <3>2. b.addr \in Nat /\ b.size \in Nat \ {0}
            BY <3>1 DEF VecOK, Handles
        <3>3. o.gen = generation /\ o.base <= b.addr /\ b.addr < End(o) /\ o.base \in Nat
            BY <2>2, <2>6 DEF Own, Current, Slabs
        <3> HIDE DEF b, o
        <3>4. o.base # 0 /\ b.addr < o.base + SlabSize
            BY <3>2, <3>3 DEF End
        <3>5. \/ Lies(b, o, generation)
              \/ b.addr + b.size <= o.base
              \/ o.base + SlabSize <= b.addr
            BY <1>1, <3>1, <3>2, <3>4, Place DEF o
        <3>6. Lies(b, o, generation)
            BY <3>2, <3>3, <3>4, <3>5, Constants
        <3>7. QED
            BY <3>1, <3>2, <3>3, <3>4, <3>6 DEF b, o
    <2>7. CASE ReleaseSmall(t, v)
        <3> DEFINE b == vec[v]
                   o == slab[t]
        <3>1. /\ b.addr # System /\ Own(o, b)
              /\ slab' = [slab EXCEPT ![t] =
                            IF b.addr + b.size = o.ptr THEN Retreat(o, b.addr) ELSE o]
            BY <2>7 DEF ReleaseSmall
        <3>2. CASE b.addr + b.size # o.ptr
            BY <2>2, <2>5, <3>1, <3>2
        <3>3. CASE b.addr + b.size = o.ptr
            <4>1. /\ o.gen = generation /\ o.base # 0
                  /\ b.addr \in Nat /\ b.size \in Nat \ {0} /\ o.base <= b.addr
                BY <2>6, <3>1 DEF Lies
            <4>2. FreeOK(o.free, o.base, o.ptr) /\ Avoids(o.free, b)
                BY <1>1, <3>1, <4>1 DEF SlabsOK, SlabOK, VecsOK
            <4>3. \A u \in Vecs \ {v} : vec[u].addr # System =>
                      Avoids(o.free, vec[u]) /\ Off(b, vec[u])
                BY <1>1, <3>1, <4>1 DEF VecsOK
            <4>4. [o EXCEPT !.free = o.free] = o
                BY <2>2 DEF Slabs
            <4>5. LET s == Retreat([o EXCEPT !.free = o.free], b.addr)
                  IN  /\ SlabsOK([slab EXCEPT ![t] = s], nextSlab)
                      /\ VecsOK([vec EXCEPT ![v] = NoVec], [slab EXCEPT ![t] = s], generation)
                BY <1>1, <3>3, <4>1, <4>2, <4>3, RetreatKeeps
            <4>6. QED
                BY <2>1, <3>1, <3>3, <4>4, <4>5
        <3>4. QED
            BY <3>2, <3>3
    <2>8. CASE ReleaseLarge(t, v)
        <3>1. /\ vec[v].addr # System /\ Own(slab[t], vec[v]) /\ vec[v].size >= ReuseMin
              /\ slab' = LET o == slab[t]
                             m == Merge(o.free, vec[v].addr, vec[v].size)
                             merged == [o EXCEPT !.free = m.free]
                         IN  [slab EXCEPT ![t] =
                                IF m.addr + m.size = o.ptr THEN Retreat(merged, m.addr)
                                ELSE [merged EXCEPT !.free =
                                        Store(@, [addr |-> m.addr, size |-> m.size])]]
            BY <2>8 DEF ReleaseLarge
        <3>2. /\ slab[t].gen = generation /\ slab[t].base # 0
              /\ Lies(vec[v], slab[t], generation)
            BY <2>6, <3>1
        <3>3. QED
            BY <1>1, <2>1, <3>1, <3>2, MergeKeeps
    <2>9. QED
        BY <1>10, <2>5, <2>7, <2>8 DEF Release, ReleaseSystem, ReleaseForeign
<1>11. CASE UNCHANGED vars
    BY <1>3, <1>11 DEF vars, phases
<1>12. QED
    BY <1>4, <1>5, <1>6, <1>7, <1>8, <1>9, <1>10, <1>11 DEF Next, Steps

-----------------------------------------------------------------------------
(***************************************************************************)
(* The theorems.                                                           *)
(***************************************************************************)

\* Blocks that do not overlap share no unit.
LEMMA DisjointUnits ==
    ASSUME NEW b, NEW c, b.addr \in Nat, b.size \in Nat, c.addr \in Nat, c.size \in Nat,
           Off(b, c)
    PROVE  Units(b) \cap Units(c) = {}
BY DEF Off, Units

\* A valid buffer is one the invariant speaks of.
LEMMA HandleTypes ==
    ASSUME BlockInv, NEW v \in Valid
    PROVE  /\ v \in Vecs /\ vec[v].addr # System
           /\ vec[v].addr \in Nat /\ vec[v].size \in Nat \ {0}
           /\ VecOK(vec[v], slab, generation)
<1>1. v \in Vecs /\ vec[v].addr # System
    BY DEF Valid
<1>2. vec[v] \in Handles /\ VecOK(vec[v], slab, generation)
    BY <1>1 DEF BlockInv, VecsOK
<1>3. QED
    BY <1>1, <1>2 DEF Handles, VecOK

\* BlocksAreExclusive is part of the invariant.
LEMMA ExclusiveFollows == BlockInv => BlocksAreExclusive
<1> SUFFICES ASSUME BlockInv, NEW v \in Valid
             PROVE  /\ \A u \in Valid \ {v} : Units(vec[v]) \cap Units(vec[u]) = {}
                    /\ \E t \in Threads :
                        /\ Current(slab[t])
                        /\ Units(vec[v]) \subseteq slab[t].base .. slab[t].ptr - 1
    BY DEF BlocksAreExclusive
<1>1. ASSUME NEW u \in Valid \ {v}
      PROVE  Units(vec[v]) \cap Units(vec[u]) = {}
    <2>1. /\ u \in Vecs /\ v \in Vecs /\ u # v
          /\ vec[u].addr # System /\ vec[v].addr # System
          /\ vec[u].addr \in Nat /\ vec[u].size \in Nat
          /\ vec[v].addr \in Nat /\ vec[v].size \in Nat
        BY HandleTypes
    <2>2. Off(vec[v], vec[u])
        BY <2>1 DEF BlockInv, VecsOK
    <2>3. QED
        BY <2>1, <2>2, DisjointUnits
<1>2. PICK t \in Threads : Lies(vec[v], slab[t], generation)
    BY HandleTypes DEF VecOK
<1>3. SlabOK(slab[t], nextSlab)
    BY DEF BlockInv, SlabsOK
<1>4. slab[t].base \in Nat /\ slab[t].ptr \in Nat
    BY <1>3, SlabTypes
<1>5. vec[v].addr \in Nat /\ vec[v].size \in Nat
    BY HandleTypes
<1>6. Units(vec[v]) \subseteq slab[t].base .. slab[t].ptr - 1
    BY <1>2, <1>4, <1>5 DEF Lies, Units
<1>7. Current(slab[t])
    BY <1>2 DEF Lies, Current
<1>8. QED
    BY <1>1, <1>6, <1>7

\* HeldBlocksAreDead is part of the invariant.
LEMMA DeadFollows == BlockInv => HeldBlocksAreDead
<1> SUFFICES ASSUME BlockInv, NEW t \in Threads, NEW i \in DOMAIN slab[t].free
             PROVE  LET s == slab[t]
                    IN  /\ Units(s.free[i]) \subseteq s.base .. s.ptr - 1
                        /\ s.free[i].addr % CacheLine = 0
                        /\ s.free[i].size >= ReuseMin
                        /\ Current(s) =>
                            \A v \in Valid : Units(vec[v]) \cap Units(s.free[i]) = {}
    BY DEF HeldBlocksAreDead
<1> DEFINE s == slab[t]
           e == s.free[i]
<1>1. SlabOK(s, nextSlab)
    BY DEF BlockInv, SlabsOK
<1>2. s.base \in Nat /\ s.ptr \in Nat /\ s.free \in Seq(Blocks) /\ FreeOK(s.free, s.base, s.ptr)
    BY <1>1, SlabTypes DEF SlabOK
<1>3. i \in 1 .. Len(s.free)
    BY <1>2
<1>4. e.addr \in Nat /\ e.size \in Nat /\ Held(e, s.base, s.ptr)
    BY <1>2, <1>3, HeldTypes DEF FreeOK
<1>5. ASSUME Current(s), NEW v \in Valid
      PROVE  Units(vec[v]) \cap Units(e) = {}
    <2>1. /\ v \in Vecs /\ vec[v].addr # System
          /\ vec[v].addr \in Nat /\ vec[v].size \in Nat
        BY HandleTypes
    <2>2. Avoids(s.free, vec[v])
        BY <1>5, <2>1 DEF BlockInv, VecsOK, Current
    <2>3. Off(e, vec[v])
        BY <1>3, <2>2 DEF Avoids
    <2> HIDE DEF e
    <2>4. Units(e) \cap Units(vec[v]) = {}
        BY <1>4, <2>1, <2>3, DisjointUnits
    <2>5. QED
        BY <2>4
<1> HIDE DEF e, s
<1>6. Units(e) \subseteq s.base .. s.ptr - 1
    BY <1>2, <1>4 DEF Held, Units
<1>7. QED
    BY <1>4, <1>5, <1>6 DEF Held, e, s

\* HeldBlocksAreApart is part of the invariant.
LEMMA ApartFollows == BlockInv => HeldBlocksAreApart
<1> SUFFICES ASSUME BlockInv, NEW t \in Threads,
                    NEW i \in DOMAIN slab[t].free, NEW j \in DOMAIN slab[t].free, i # j
             PROVE  Apart(slab[t].free[i], slab[t].free[j])
    BY DEF HeldBlocksAreApart, Apart
<1>1. FreeOK(slab[t].free, slab[t].base, slab[t].ptr)
    BY DEF BlockInv, SlabsOK, SlabOK
<1>2. i \in 1 .. Len(slab[t].free) /\ j \in 1 .. Len(slab[t].free)
    BY <1>1 DEF FreeOK
<1>3. QED
    BY <1>1, <1>2 DEF FreeOK

\* "Phases must not nest, and only one proof may be in flight per process": at most one guard
\* closes the open phase, whatever the callers do with their buffers.
THEOREM PhasesNeverNest == Spec => []OnePhaseInFlight
<1>1. Spec => []PhaseInv
    BY PhaseInit, PhaseStep, PTL DEF Spec
<1>2. PhaseInv => OnePhaseInFlight
    BY DEF PhaseInv
<1>3. QED
    BY <1>1, <1>2, PTL

\* BlockInv holds in every state.
LEMMA BlockInvariant ==
    ASSUME KeepsStale = FALSE
    PROVE  Spec => []BlockInv
<1>1. PhaseInv /\ BlockInv /\ [Next]_vars => BlockInv'
    BY BlockStep
<1>2. QED
    BY <1>1, PhaseInit, PhaseStep, BlockInit, PTL DEF Spec

\* The contract of raw_alloc: where "values that outlive a phase use Vec", no two valid buffers
\* share a unit and each lies below the cursor of a slab of this phase, for any interleaving of
\* allocations, releases and resets of any number of threads.
THEOREM NoBlockIsServedTwice ==
    ASSUME KeepsStale = FALSE
    PROVE  Spec => []BlocksAreExclusive
BY BlockInvariant, ExclusiveFollows, PTL

\* "A block reaches the list only from a release": no held block is in a valid buffer.
THEOREM OnlyDeadBlocksAreHeld ==
    ASSUME KeepsStale = FALSE
    PROVE  Spec => []HeldBlocksAreDead
BY BlockInvariant, DeadFollows, PTL

\* Held blocks are pairwise non-adjacent, which is what makes the single pass of merge enough.
THEOREM HeldBlocksNeverTouch ==
    ASSUME KeepsStale = FALSE
    PROVE  Spec => []HeldBlocksAreApart
BY BlockInvariant, ApartFollows, PTL

=============================================================================
