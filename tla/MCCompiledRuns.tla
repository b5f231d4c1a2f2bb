--------------------------- MODULE MCCompiledRuns ---------------------------
(* Programs for module CompiledRuns, each with what it means beside it. *)
EXTENDS CompiledRuns

\* A small function in place of the hash.
Compress(a, b, cv, md) ==
  <<KAdd(KMul(a[1], 3), KMul(b[1], 2)), KAdd(KMul(a[2], 5), KAdd(b[3], md[1])),
    KAdd(KMul(a[3], 2), cv[3]), KAdd(a[4], KMul(cv[1], md[2]))>>

\* The source programs, in the compiler's own terms.
Let(x, e)      == [do |-> "Let", name |-> x, e |-> e]
Tuple(xs, f, args) == [do |-> "LetTuple", names |-> xs, f |-> f, args |-> args]
Eq(a, b)       == [do |-> "AssertEq", a |-> a, b |-> b]
Ne(a, b)       == [do |-> "AssertNe", a |-> a, b |-> b]
Below(e, k)    == [do |-> "AssertLt", e |-> e, bound |-> <<"Const", k>>]
BelowVar(e, k) == [do |-> "AssertLt", e |-> e, bound |-> <<"Runtime", k>>]
If(c, eq, a, b, then, els) == [do |-> "If", const |-> c, eq |-> eq, a |-> a, b |-> b, then |-> then, els |-> els]
ForTo(v, lo, hi, body)    == [do |-> "For", var |-> v, lo |-> lo, hi |-> hi, body |-> body]
Unroll(v, lo, hi, body)   == [do |-> "Unroll", var |-> v, lo |-> lo, hi |-> hi, body |-> body]
Match(ts, x, arms)        == [do |-> "Match", targets |-> ts, x |-> x, arms |-> arms]
Do1(f, args)   == [do |-> "Call", f |-> f, args |-> args]
Put1(arr, i, v) == [do |-> "Store", arr |-> arr, idx |-> i, val |-> v]
Ret(es)        == [do |-> "Return", es |-> es]
Wit(x, s)      == [do |-> "LetHintWitness", name |-> x, stream |-> s]
WitTo(d, s)    == [do |-> "HintWitness", dest |-> d, stream |-> s]
Show(e)        == [do |-> "Print", value |-> e]

V(x)    == Var(x)
N(n)    == Lit(n)
Plus(a, b)  == <<"Add", a, b>>
Times(a, b) == <<"Mul", a, b>>
Ix(a, i)    == <<"Index", a, i>>
GenE    == <<"Gen">>
Call(f, args) == <<"Call", f>> \o args
Slice(a, lo, hi) == <<"Slice", a, lo, hi>>

Param(x)  == [name |-> x, const |-> FALSE, shape |-> 0]
ConstP(x) == [name |-> x, const |-> TRUE, shape |-> 0]
BufP(x, n) == [name |-> x, const |-> FALSE, shape |-> n]
Func(f, params, returns, body) ==
  [name |-> f, params |-> params, returns |-> returns, body |-> body, inline |-> FALSE]
InlineFunc(f, params, returns, body) == [Func(f, params, returns, body) EXCEPT !.inline = TRUE]

\* main reads the public input, the first two cells of memory.
Main(body) == Func("main", << >>, << >>, <<Let("p", Ix(N(1), N(1))), Let("q", Ix(N(1), GenE))>> \o body)
Ast(funcs, body) == [funcs |-> <<Main(body)>> \o funcs, constArrays |-> << >>]

-----------------------------------------------------------------------------
(* The programs. *)

\* A constant both sides of a branch want, and what follows it.
Branching ==
  Ast(<< >>, <<If(FALSE, TRUE, V("p"), V("q"), <<Eq(V("q"), N(3))>>, <<Ne(V("q"), N(3))>>),
               Eq(Plus(V("q"), N(3)), N(6))>>)

\* A hint at the end of a branch is the branch's.
Popping ==
  Ast(<< >>, <<If(FALSE, TRUE, V("p"), N(0), <<Wit("w", "s")>>, << >>), Wit("v", "s"), Eq(V("v"), V("q"))>>)

Dividing ==
  Ast(<< >>, <<Ne(V("q"), N(0)), Let("r", <<"FieldDiv", V("p"), V("q")>>), Eq(<<"Pow", V("r"), N(5)>>, N(32)),
               Show(V("r"))>>)

\* One function for two values of a Const parameter, on a buffer; and one that
\* returns a buffer.
Calling ==
  Ast(<<Func("mix", <<BufP("b", 2), ConstP("k")>>, <<0>>,
             <<Let("x", Times(Ix(V("b"), N(0)), V("k"))), Ret(<<Plus(V("x"), Ix(V("b"), N(1)))>>)>>),
        Func("swap", <<Param("a"), Param("b")>>, <<2>>,
             <<Let("r", <<"ListLit", V("b"), V("a")>>), Ret(<<V("r")>>)>>)>>,
      <<Let("b", Call("swap", <<V("q"), V("p")>>)),
        Eq(Times(Call("mix", <<V("b"), N(2)>>), Call("mix", <<V("b"), N(3)>>)), N(6))>>)

Looping ==
  Ast(<< >>, <<ForTo("i", 0, <<"Const", 3>>, <<Ne(Times(V("p"), V("i")), V("q"))>>)>>)

\* What the body allocates is beyond the frames kept for the loop.
Reserving ==
  Ast(<< >>, <<ForTo("i", 0, <<"Const", 2>>, <<Let("h", <<"HeapBuf", 2>>), Put1(V("h"), N(1), Times(V("p"), V("i"))),
                                               Ne(Ix(V("h"), N(1)), V("q"))>>)>>)

LoopingTo ==
  Ast(<< >>, <<ForTo("i", 0, <<"Runtime", V("q")>>, <<Ne(Times(V("p"), V("i")), N(5))>>)>>)

\* A return in the body of a loop ends the loop.
Leaving ==
  Ast(<< >>, <<ForTo("i", 0, <<"Const", 3>>, <<If(FALSE, TRUE, V("p"), V("i"), <<Ret(<< >>)>>, << >>),
                                               Ne(Times(V("q"), V("i")), N(3))>>)>>)

Matching ==
  Ast(<< >>, <<Match(<<V("r")>>, V("p"), <<V("q"), Times(V("q"), V("q")), Plus(V("q"), N(3))>>), Eq(V("r"), N(5))>>)

\* Arms that are calls with the same arguments share a frame.
Dispatching ==
  Ast(<<Func("double", <<Param("a")>>, <<0>>, <<Ret(<<Times(V("a"), N(2))>>)>>),
        Func("add", <<Param("a"), ConstP("k")>>, <<0>>, <<Ret(<<Plus(V("a"), V("k"))>>)>>)>>,
      <<Match(<<V("r")>>, V("p"), <<Call("double", <<V("q")>>), Call("add", <<V("q"), N(1)>>)>>),
        Eq(V("r"), N(6))>>)

\* Arms with two results each, in a new name and in an element of a buffer.
Pairing ==
  Ast(<<InlineFunc("more", <<Param("a")>>, <<0, 0>>, <<Ret(<<V("a"), Times(V("a"), N(2))>>)>>),
        InlineFunc("less", <<Param("a")>>, <<0, 0>>, <<Ret(<<Plus(V("a"), N(1)), V("a")>>)>>),
        Func("both", <<Param("a"), Param("b")>>, <<0, 0>>, <<Ret(<<V("b"), V("a")>>)>>)>>,
      <<Let("b", <<"StackBuf", 2>>),
        Match(<<V("x"), Ix(V("b"), N(1))>>, V("p"), <<Call("more", <<V("q")>>), Call("less", <<V("q")>>)>>),
        Tuple(<<"y", "z">>, "both", <<V("x"), Ix(V("b"), N(1))>>),
        Eq(V("z"), N(3)), Eq(V("y"), N(6))>>)

\* The frame as memory, and an element stored twice.
Pointing ==
  Ast(<<InlineFunc("second", <<Param("at")>>, <<0>>, <<Ret(<<Ix(V("at"), GenE)>>)>>)>>,
      <<Let("b", <<"ListLit", V("p"), V("q")>>), Let("a", Call("addr", <<V("b")>>)),
        Let("r", Call("second", <<V("a")>>)), Let("h", <<"HeapBuf", 4>>),
        Put1(V("h"), N(1), V("p")), Put1(V("h"), GenE, V("r")),
        Eq(Ix(V("h"), GenE), N(6)), Put1(V("h"), N(1), V("q"))>>)

\* A buffer whose length is known when it runs, filled from the witness.
Filling ==
  Ast(<< >>, <<Let("h", <<"HeapBufDyn", V("q")>>),
               WitTo(Slice(V("h"), V("p"), Plus(V("p"), N(2))), "s"),
               Put1(V("h"), Times(V("p"), GenE), V("q")), Ne(Ix(V("h"), V("p")), N(0))>>)

Ranging == Ast(<< >>, <<Below(V("p"), 3), BelowVar(V("p"), V("q"))>>)

Unrolling ==
  Ast(<< >>, <<Unroll("i", N(0), N(3), <<If(TRUE, TRUE, V("i"), N(1), <<Eq(V("q"), Plus(V("p"), V("i")))>>,
                                                                      <<Ne(V("p"), V("i"))>>)>>)>>)

IsBit(e) == Eq(Times(e, Plus(e, N(1))), N(0))

Bitwise3 ==
  Ast(<< >>, <<Let("b", <<"StackBuf", 3>>), Do1("hint_decompose_bits", <<V("b"), V("p"), N(3)>>),
               Unroll("j", N(0), N(3), <<IsBit(Ix(V("b"), V("j")))>>),
               Eq(Plus(Ix(V("b"), N(0)), Plus(Times(Ix(V("b"), N(1)), N(2)), Times(Ix(V("b"), N(2)), N(4)))), V("p")),
               Let("l", Call("hint_log2_ceil", <<V("b"), N(3), N(1)>>)), Eq(V("l"), V("q"))>>)

\* (1 + b (g^n + 1)) is g^n or 1.
PowerIf(e, n) == Plus(N(1), Times(e, N(2^n + 1)))

Exponents ==
  Ast(<< >>, <<Let("b", <<"StackBuf", 2>>), Do1("hint_decompose_bits_exponent", <<V("b"), V("q"), N(2)>>),
               IsBit(Ix(V("b"), N(0))), IsBit(Ix(V("b"), N(1))),
               Eq(Times(PowerIf(Ix(V("b"), N(0)), 1), PowerIf(Ix(V("b"), N(1)), 2)), V("q"))>>)

\* Two words hashed to a buffer, then hashed again with a chaining value; then
\* a limb of the result.
HashedTwice(p, q) ==
  Compress(Compress(<<p, 0, q, 0>>, <<q, 0, p, 0>>, <<1, 2, 3, 4>>, <<64, 1>>),
           <<p, 0, q, 0>>, <<q, 0, p, 0>>, <<3, 1>>)

Hashing ==
  Ast(<< >>, <<Let("h", <<"HeapBuf", 2>>), Let("o", <<"StackBuf", 2>>), Let("l", <<"StackBuf", 2>>),
               Do1("blake2s", <<<<"ListLit", V("p"), V("q")>>, <<"ListLit", V("q"), V("p")>>,
                                Slice(V("h"), N(0), N(2))>>),
               Do1("blake2s", <<Slice(V("h"), N(0), N(2)), <<"ListLit", V("p"), V("q")>>, V("o"),
                                <<"Kw", "cv", <<"ListLit", V("q"), V("p")>>>>,
                                <<"Kw", "counter", N(3)>>, <<"Kw", "final", N(1)>>>>),
               Do1("hint_f192_limbs", <<V("l"), Ix(V("o"), N(0))>>),
               Do1("assert_in_k", <<Ix(V("l"), N(0)), Ix(V("l"), N(1))>>),
               Eq(Plus(Ix(V("l"), N(0)), Times(Ix(V("l"), N(1)), Call("f192", <<N(0), N(1), N(0)>>))), Ix(V("o"), N(0))),
               Eq(Ix(V("l"), N(0)), N(HashedTwice(2, 3)[1]))>>)

-----------------------------------------------------------------------------
(* Programs without a meaning. *)

Meaningless ==
  [unbound  |-> Ast(<< >>, <<Let("x", V("y"))>>),
   beyondStack |-> Ast(<< >>, <<Let("b", <<"StackBuf", 2>>), Eq(Ix(V("b"), N(2)), N(1))>>),
   beyondHeap |-> Ast(<< >>, <<Let("h", <<"HeapBuf", 2>>), Put1(V("h"), <<"GPow", 2>>, V("p"))>>),
   notAnIndex |-> Ast(<< >>, <<Let("h", <<"HeapBuf", 4>>), Put1(V("h"), N(3), V("p"))>>),
   bufferInLoop |-> Ast(<< >>, <<Let("b", <<"ListLit", V("p"), V("q")>>),
                                 ForTo("i", 0, <<"Const", 2>>, <<Ne(Ix(V("b"), N(0)), V("i"))>>)>>),
   arity    |-> Ast(<<Func("f", <<Param("a")>>, <<0>>, <<Ret(<<V("a")>>)>>)>>,
                    <<Let("x", Call("f", <<V("p"), V("q")>>))>>),
   bound    |-> Ast(<< >>, <<Below(V("p"), 2^MinLogMem + 1)>>),
   knownBound |-> Ast(<< >>, <<BelowVar(V("p"), N(4))>>),
   runtimeConst |-> Ast(<<Func("f", <<ConstP("k")>>, <<0>>, <<Ret(<<V("k")>>)>>)>>, <<Let("x", Call("f", <<V("p")>>))>>),
   inlineLoop |-> Ast(<<InlineFunc("f", <<Param("a")>>, <<0>>, <<Ret(<<Call("f", <<V("a")>>)>>)>>)>>,
                      <<Let("x", Call("f", <<V("p")>>))>>),
   returns  |-> Ast(<<Func("f", <<Param("a")>>, <<0>>, <<Ret(<<V("a"), V("a")>>)>>)>>, <<Let("x", Call("f", <<V("p")>>))>>),
   sameLiterals |-> Ast(<< >>, <<Ne(N(3), N(3))>>),
   constIf  |-> Ast(<< >>, <<If(TRUE, TRUE, V("p"), N(1), << >>, << >>)>>),
   backwards |-> Ast(<< >>, <<Unroll("i", N(2), N(1), << >>)>>),
   chaining |-> Ast(<< >>, <<Let("o", <<"StackBuf", 2>>),
                             Do1("blake2s", <<<<"ListLit", V("p"), V("q")>>, <<"ListLit", V("p"), V("q")>>, V("o"),
                                              <<"Kw", "cv", <<"ListLit", V("q"), V("p")>>>>>>)>>)]

-----------------------------------------------------------------------------
(* What they are run on, and what they mean. *)

NoWit == [s |-> << >>]
On(p, q) == [pi |-> <<Lift(p), Lift(q)>>, wit |-> NoWit]
OnWit(p, q, s) == [pi |-> <<Lift(p), Lift(q)>>, wit |-> [s |-> s]]
Source(ast, trials, claims) == [ast |-> ast, refused |-> FALSE, trials |-> trials, claims |-> claims]

MCAdvice == {EZero, EOne, Lift(2), Lift(5), Lift(7), EY, Lift(GPow(40)), Lift(GPow(100))}
Entries(n) == {[s |-> w] : w \in [1..n -> {<<v>> : v \in MCAdvice}]}

MCSources ==
  [branching |-> Source(Branching, {On(2, 5), On(5, 5), On(2, 3), On(3, 3)}, {NoWit}),
   popping   |-> Source(Popping, {OnWit(p, 7, <<<<Lift(5)>>, <<Lift(7)>>>>) : p \in {0, 1}}
                                 \cup {OnWit(1, 7, <<<<Lift(7)>>>>)}, Entries(2)),
   dividing  |-> Source(Dividing, {On(6, 3), On(5, 3), On(0, 0)}, {NoWit}),
   calling   |-> Source(Calling, {On(1, 0), On(2, 0)}, {NoWit}),
   looping   |-> Source(Looping, {On(5, 3), On(2, 4)}, {NoWit}),
   reserving |-> Source(Reserving, {On(5, 3), On(2, 4)}, {NoWit}),
   bounded   |-> Source(LoopingTo, {On(5, 1), On(5, 4), On(3, 4)}, {NoWit}),
   leaving   |-> Source(Leaving, {On(1, 3), On(2, 3), On(2, 5)}, {NoWit}),
   matching  |-> Source(Matching, {On(1, 5), On(2, 5), On(4, 6)}, {NoWit}),
   dispatching |-> Source(Dispatching, {On(1, 3), On(2, 7), On(2, 3)}, {NoWit}),
   pairing   |-> Source(Pairing, {On(1, 3), On(2, 3), On(2, 2)}, {NoWit}),
   pointing  |-> Source(Pointing, {On(6, 6), On(5, 6), On(5, 5)}, {NoWit}),
   filling   |-> Source(Filling, {OnWit(1, 4, <<<<Lift(5), Lift(4)>>>>), OnWit(1, 4, <<<<EZero, Lift(4)>>>>),
                                  OnWit(1, 4, <<<<Lift(4), Lift(5)>>>>)},
                        {[s |-> <<<<v, Lift(4)>>>>] : v \in MCAdvice}),
   ranging   |-> Source(Ranging, {On(2, 4), On(4, 4), On(8, 16), On(1, 2)}, {NoWit}),
   unrolling |-> Source(Unrolling, {On(3, 2), On(2, 3), On(3, 5)}, {NoWit}),
   bitwise   |-> Source(Bitwise3, {OnWit(3, 4, <<<<Lift(4)>>>>), OnWit(3, 2, <<<<Lift(4)>>>>), OnWit(9, 16, <<<<Lift(2)>>>>)},
                        {[s |-> <<<<v>>>>] : v \in MCAdvice \cup {Lift(4), Lift(16)}}),
   exponents |-> Source(Exponents, {On(0, 8), On(0, 16), On(0, 3)}, {NoWit}),
   hashing   |-> Source(Hashing, {On(2, 3), On(3, 2)}, {NoWit})]
  @@ [m \in DOMAIN Meaningless |-> [ast |-> Meaningless[m], refused |-> TRUE, trials |-> {}, claims |-> {}]]

\* The exponent of x as a power of g.
LogOf(x) == LogBelow(x, 2^KBits - 1)

MCMeans(n, pi, wit) ==
  LET p == pi[1][1]
      q == pi[2][1]
  IN  CASE n = "branching" -> q = 5 /\ p # q
        [] n = "popping" -> IF p = 0 THEN Len(wit.s) > 1 /\ wit.s[2] = <<pi[2]>> ELSE wit.s[1] = <<pi[2]>>
        [] n = "dividing" -> q # 0 /\ p = KMul(2, q)
        [] n = "calling" -> KMul(KAdd(KMul(2, p), q), KAdd(KMul(3, p), q)) = 6
        [] n = "looping" -> \A i \in 0..2 : KMul(p, GPow(i)) # q
        [] n = "reserving" -> \A i \in 0..1 : KMul(p, GPow(i)) # q
        [] n = "bounded" -> \A i \in 0..LogOf(q) - 1 : KMul(p, GPow(i)) # 5
        [] n = "leaving" -> \A i \in 0..2 : KMul(q, GPow(i)) # 3 \/ \E j \in 0..i : p = GPow(j)
        [] n = "matching" -> \/ p = 1 /\ q = 5
                             \/ p = 2 /\ KMul(q, q) = 5
                             \/ p = 4 /\ KAdd(q, 3) = 5
        [] n = "dispatching" -> \/ p = 1 /\ KMul(q, 2) = 6
                                \/ p = 2 /\ KAdd(q, 1) = 6
        [] n = "pairing" -> p = 1 /\ q = 3
        [] n = "pointing" -> p = 6 /\ q = 6
        [] n = "filling" -> wit.s[1][1] # EZero /\ wit.s[1][2] = pi[2]
        [] n = "ranging" -> LogOf(p) < 3 /\ LogOf(p) < LogOf(q)
        [] n = "unrolling" -> p \notin {0, 2} /\ q = KAdd(p, 1)
        [] n = "bitwise" -> p \in 0..7 /\ wit.s[1][1] = pi[2]
        [] n = "exponents" -> LogOf(q) \in 0..3
        [] n = "hashing" -> HashedTwice(p, q)[1] = HashedTwice(2, 3)[1]

MCIvCells == <<<<1, 2, 0>>, <<3, 4, 0>>>>
=============================================================================
