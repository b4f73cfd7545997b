----------------------------- MODULE MCSemantics -----------------------------
(***************************************************************************)
(* The programs and the budgets of the semantic pipeline: the cases of the *)
(* repository's tests of indexed types, of inference, of lowering and of   *)
(* evaluation, and programs that reach the edges of each phase.            *)
(***************************************************************************)
EXTENDS WasmPipeline

P(n) == Par(n)
D(name, parameters, constructors) == [name |-> name, parameters |-> parameters, constructors |-> constructors]
K(name, fields) == [name |-> name, fields |-> fields, result |-> NoType]
KI(name, fields, result) == [name |-> name, fields |-> fields, result |-> result]
Eq(a, b) == Con("Equal", <<a, b>>)
Tag(a) == Con("Tag", <<a>>)
List(a) == Con("List", <<a>>)
F2(a, b, c) == Fun(a, Fun(b, c))
HasField(label) == Con("HasField", <<Con(label, <<>>), P("record"), P("value")>>)

Types ==
    <<D("Equal", <<"a", "b">>, <<KI("Refl", <<>>, Eq(P("a"), P("a")))>>),
      D("Tag", <<"a">>, <<KI("TagInt", <<>>, Tag(Integer)), KI("TagBool", <<>>, Tag(Boolean))>>),
      D("Swap", <<"a", "b">>, <<KI("Swapped", <<P("a"), P("b")>>, Con("Swap", <<P("b"), P("a")>>))>>),
      D("Pair", <<"a", "b">>, <<K("MkPair", <<P("a"), P("b")>>)>>),
      D("Flag", <<"a">>, <<K("Any", <<>>), KI("IsInt", <<>>, Con("Flag", <<Integer>>))>>),
      D("Choice", <<"a">>, <<KI("First", <<>>, Con("Choice", <<Integer>>)), KI("Second", <<>>, Con("Choice", <<Integer>>))>>),
      D("Store", <<"a">>, <<>>),
      D("False", <<"a">>, <<>>),
      D("List", <<"a">>, <<K("Nil", <<>>), K("Cons", <<P("a"), List(P("a"))>>)>>),
      D("Maybe", <<"a">>, <<K("Nothing", <<>>), K("Just", <<P("a")>>)>>),
      D("Point", <<>>, <<K("Point", <<Integer, Boolean>>)>>),
      D("Label", <<>>, <<K("Label", <<Integer>>)>>),
      D("Labelled", <<>>, <<K("Labelled", <<Integer, Boolean, Integer>>)>>),
      D("FieldX", <<>>, <<>>), D("FieldY", <<>>, <<>>),
      D("HasField", <<"label", "record", "value">>,
        <<KI("HasX", <<Fun(P("record"), P("value"))>>, HasField("FieldX")), KI("HasY", <<Fun(P("record"), P("value"))>>, HasField("FieldY"))>>),
      D("ExtendRecord", <<"source", "patch", "result">>, <<K("Extended", <<F2(P("source"), P("patch"), P("result"))>>)>>),
      D("$ThunkType", <<"value">>, <<K("$Thunk", <<P("value")>>)>>)>>
MCSurfaceTypes == {"Pair", "Store", "$ThunkType"}

Def(name, annotation, body) == [name |-> name, annotation |-> annotation, body |-> body]
Plain(name, body) == Def(name, NoType, body)
Main(body) == Plain("main", body)
N(x) == Name(x)
L(xs, body) == Lambda(xs, body)
A(f, args) == Apply(N(f), args)
Add(a, b) == Prim("Add", <<a, b>>)
Pair(a, b) == A("MkPair", <<a, b>>)
Link(a, b) == A("Cons", <<a, b>>)
One == Number(1)
Zero == Main(Number(0))
Failing(n) == Prim("Divide", <<Number(n), Number(0)>>) \* a value that must not be needed

(***************************************************************************)
(* Indexed types                                                           *)
(***************************************************************************)
ByRefl(proof, body) == Case(N(proof), <<Arm("Refl", <<>>, body)>>)
ByTag(t, atInt, atBool) == Case(N(t), <<Arm("TagInt", <<>>, atInt), Arm("TagBool", <<>>, atBool)>>)
Indexed ==
    <<<<Def("cast", F2(Eq(P("a"), P("b")), P("a"), P("b")), L(<<"p", "v">>, ByRefl("p", N("v")))),
        Main(A("cast", <<N("Refl"), Number(42)>>))>>,
      <<Def("trans", F2(Eq(P("a"), P("b")), Eq(P("b"), P("c")), Eq(P("a"), P("c"))),
            L(<<"l", "r">>, ByRefl("l", ByRefl("r", N("Refl"))))),
        Def("main", Eq(Integer, Integer), A("trans", <<N("Refl"), N("Refl")>>))>>,
      <<Def("untag", Fun(Tag(P("a")), P("a")), L(<<"t">>, ByTag("t", One, Truth(TRUE)))),
        Main(Pair(A("untag", <<N("TagInt")>>), A("untag", <<N("TagBool")>>)))>>,
      <<Def("only", Fun(Tag(Integer), Integer), L(<<"t">>, Case(N("t"), <<Arm("TagInt", <<>>, One)>>))),
        Main(A("only", <<N("TagInt")>>))>>,
      <<Def("absurd", Fun(Eq(Integer, Boolean), Integer), L(<<"p">>, Case(N("p"), <<>>))), Zero>>,
      <<Def("restore", Fun(Con("Swap", <<P("a"), P("b")>>), Con("Pair", <<P("b"), P("a")>>)),
            L(<<"v">>, Case(N("v"), <<Arm("Swapped", <<"x", "y">>, Pair(N("x"), N("y")))>>))),
        Main(A("restore", <<A("Swapped", <<Truth(TRUE), One>>)>>))>>,
      <<Def("add", F2(Eq(P("a"), Integer), P("a"), Integer), L(<<"p", "v">>, Add(ByRefl("p", N("v")), One))),
        Main(A("add", <<N("Refl"), Number(41)>>))>>,
      <<Def("choose", F2(Eq(P("a"), Boolean), P("a"), Boolean),
            L(<<"p", "v">>, If(ByRefl("p", N("v")), Truth(TRUE), Truth(FALSE)))),
        Main(A("choose", <<N("Refl"), Truth(TRUE)>>))>>,
      <<Def("onlyAny", Fun(Con("Flag", <<Boolean>>), Integer), L(<<"f">>, Case(N("f"), <<Arm("Any", <<>>, One)>>))),
        Main(A("onlyAny", <<N("Any")>>))>>,
      <<Plain("classify", L(<<"t">>, ByTag("t", One, Number(0)))),
        Main(Pair(A("classify", <<N("TagInt")>>), A("classify", <<N("TagBool")>>)))>>,
      <<Def("loop", F2(Eq(P("a"), P("b")), P("a"), P("b")),
            L(<<"p", "v">>, If(Truth(TRUE), ByRefl("p", N("v")), A("loop", <<N("p"), N("v")>>)))),
        Main(A("loop", <<N("Refl"), Number(42)>>))>>,
      <<Main(LetRec("loop", L(<<"p">>, ByRefl("p", A("loop", <<N("p")>>))), Number(0)))>>,
      <<Def("main", Fun(Con("False", <<Integer>>), Con("Pair", <<Integer, Boolean>>)), L(<<"i">>, Case(N("i"), <<>>)))>>>>

(* Not well typed.                                                         *)
Rejected ==
    <<<<Def("bad", Fun(Tag(Integer), Integer), L(<<"t">>, ByTag("t", One, Number(0)))), Zero>>,
      <<Def("bad", Fun(Eq(Integer, Boolean), Integer), L(<<"p">>, ByRefl("p", Number(0)))), Zero>>,
      <<Plain("untag", L(<<"t">>, ByTag("t", One, Truth(TRUE)))), Zero>>,
      <<Def("bad", Fun(Tag(P("a")), P("a")), L(<<"t">>, ByTag("t", Truth(TRUE), Truth(TRUE)))), Zero>>,
      <<Def("bad", Fun(Con("Choice", <<Integer>>), Integer), L(<<"v">>, Case(N("v"), <<Arm("First", <<>>, One)>>))), Zero>>,
      <<Plain("left", L(<<"t">>, A("right", <<N("t")>>))),
        Def("right", Fun(Tag(P("a")), P("a")), L(<<"t">>, ByTag("t", A("left", <<N("t")>>), A("left", <<N("t")>>)))), Zero>>,
      <<Def("main", Eq(Integer, Boolean), N("Refl"))>>,
      <<Main(L(<<"v">>, Apply(N("v"), <<N("v")>>)))>>,
      <<Plain("f", L(<<"x">>, Let("y", If(Truth(TRUE), N("x"), L(<<"z">>, N("z"))),
                              If(A("y", <<Truth(TRUE)>>), A("y", <<One>>), One)))),
        Main(A("f", <<L(<<"n">>, Add(N("n"), One))>>))>>,
      <<Main(If(Truth(TRUE), One, Truth(FALSE)))>>>>

(***************************************************************************)
(* Generalisation, and the shortcuts of the inferencer of the GPU          *)
(***************************************************************************)
Polymorphic == Forall(<<"s">>, Fun(P("s"), P("s")))
Identity == Plain("id", L(<<"x">>, N("x")))
AppliedToOne == Def("app", Fun(Polymorphic, Integer), L(<<"g">>, A("g", <<One>>)))
Generalised ==
    <<<<Plain("wrap", L(<<"x", "n">>, Pair(Pair(N("x"), N("x")), Pair(N("x"), N("x"))))),
        Main(Let("p", A("wrap", <<One, Number(0)>>),
             Let("q", A("wrap", <<Truth(TRUE), Number(0)>>), Pair(N("p"), N("q")))))>>,
      <<Main(Let("n", N("Nil"), Pair(Link(One, N("n")), Link(Truth(TRUE), N("n")))))>>,
      <<Identity, Main(Let("g", Let("h", Number(0), N("id")), Pair(A("g", <<One>>), A("g", <<Truth(TRUE)>>))))>>,
      <<Main(A("Just", <<N("main")>>))>>,
      <<Plain("f", L(<<"k">>, Apply(L(<<"x">>, Let("u", A("k", <<N("x")>>), N("x"))), <<N("k")>>))), Zero>>,
      <<AppliedToOne, Plain("f", L(<<"x">>, Let("h", L(<<"y">>, N("x")), A("app", <<N("h")>>)))), Main(A("f", <<Truth(TRUE)>>))>>,
      <<AppliedToOne, Identity, Main(A("app", <<N("id")>>))>>,
      <<AppliedToOne, Main(A("app", <<L(<<"x">>, Add(N("x"), One))>>))>>,
      <<Main(Let("i", L(<<"x">>, N("x")), Pair(A("i", <<One>>), A("i", <<Truth(TRUE)>>))))>>,
      <<Main(L(<<"x">>, Let("y", L(<<"z">>, N("x")), Pair(A("y", <<One>>), A("y", <<Truth(TRUE)>>)))))>>>>

(* What a branch learns of a type stays in the abbreviated parameter.      *)
KeptRefinements ==
    <<<<Identity,
        Def("f", F2(Tag(P("a")), P("a"), Integer),
            L(<<"t", "x">>, Let("y", A("id", <<N("x")>>), ByTag("t", N("y"), N("y"))))),
        Main(A("f", <<N("TagBool"), Truth(TRUE)>>))>>,
      <<Identity,
        Def("f", F2(Tag(P("a")), P("a"), Integer),
            L(<<"t", "x">>, Let("y", A("id", <<N("x")>>), ByTag("t", Add(N("y"), One), One)))),
        Main(A("f", <<N("TagInt"), One>>))>>>>

(***************************************************************************)
(* Evaluation                                                              *)
(***************************************************************************)
Map == Plain("map", L(<<"f", "xs">>,
           Case(N("xs"), <<Arm("Nil", <<>>, N("Nil")),
                           Arm("Cons", <<"h", "t">>, Link(A("f", <<N("h")>>), A("map", <<N("f"), N("t")>>)))>>)))
Length == Plain("length", L(<<"xs">>,
              Case(N("xs"), <<Arm("Cons", <<"h", "t">>, Add(One, A("length", <<N("t")>>))), Arm("Nil", <<>>, Number(0))>>)))
Take == Plain("take", L(<<"n", "xs">>,
            If(Prim("Less", <<Number(0), N("n")>>),
               Case(N("xs"), <<Arm("Nil", <<>>, N("Nil")),
                               Arm("Cons", <<"h", "t">>, Link(N("h"), A("take", <<Add(N("n"), Prim("Negate", <<One>>)), N("t")>>)))>>),
               N("Nil"))))
Ones == Plain("ones", Link(One, N("ones")))
From == Plain("from", L(<<"n">>, Link(N("n"), A("from", <<Add(N("n"), One)>>))))
Even(n) == <<Plain("even", L(<<"n">>, If(Prim("Less", <<N("n"), One>>), Truth(TRUE), A("odd", <<Add(N("n"), Number(-1))>>)))),
             Plain("odd", L(<<"n">>, If(Prim("Less", <<N("n"), One>>), Truth(FALSE), A("even", <<Add(N("n"), Number(-1))>>)))),
             Main(A("even", <<Number(n)>>))>>

(* A sum of some of the 36 parameters of a function.                       *)
Parameters == <<"b35", "b34", "b33", "b32", "b31", "b30", "b29", "b28", "b27", "b26", "b25", "b24", "b23", "b22", "b21",
                "b20", "b19", "b18", "b17", "b16", "b15", "b14", "b13", "b12", "b11", "b10", "b9", "b8", "b7", "b6",
                "b5", "b4", "b3", "b2", "b1", "b0">>
DeepSum == Apply(L(Parameters, Add(Add(N("b0"), N("b35")), Add(Add(N("b16"), N("b33")), Add(N("b6"), N("b31"))))),
                 [i \in 1 .. 36 |-> Number(36 - i)])

CalledByNeed ==
    <<<<Map, Main(A("map", <<L(<<"x">>, Add(N("x"), One)), Link(One, Link(Number(127), N("Nil")))>>))>>,
      <<Ones, Main(N("ones"))>>,
      <<Ones, Take, Main(A("take", <<Number(2), N("ones")>>))>>,
      <<From, Main(A("from", <<Number(3)>>))>>,
      <<From, Take, Length, Main(A("length", <<A("take", <<Number(2), A("from", <<Failing(1)>>)>>)>>))>>,
      <<Main(Add(N("main"), One))>>,
      <<Plain("a", N("b")), Plain("b", N("a")), Main(N("a"))>>,
      <<Main(LetRec("f", L(<<"n">>, If(Prim("Less", <<N("n"), One>>), Number(0), Add(N("n"), A("f", <<Add(N("n"), Number(-1))>>)))),
                    A("f", <<Number(3)>>)))>>,
      Even(3),
      \* ill typed at once, so that only the evaluator goes through the 36 parameters
      <<Main(Let("u", Apply(One, <<One>>), DeepSum))>>,
      <<Main(Let("x", Add(One, One), Add(Add(N("x"), N("x")), N("x"))))>>,
      <<Main(Let("x", Failing(1), One))>>,
      <<Main(StrictLet("x", Failing(1), One))>>,
      <<Main(StrictLet("x", Add(One, One), Add(N("x"), N("x"))))>>,
      <<Plain("first", L(<<"x", "y">>, N("x"))), Main(A("first", <<One, Failing(1)>>))>>,
      <<Plain("first", L(<<"x", "y">>, N("x"))), Main(StrictApply(N("first"), <<One, Failing(1)>>, {2}))>>,
      <<Plain("first", L(<<"x", "y">>, N("x"))),
        Main(StrictApply(N("first"), <<Prim("Divide", <<Number(-128), Number(-1)>>), Truth(TRUE)>>, {1}))>>,
      <<Plain("sub", L(<<"x", "y">>, Add(N("x"), Prim("Negate", <<N("y")>>)))),
        Main(Let("from10", A("sub", <<Number(10)>>), Add(A("from10", <<One>>), A("from10", <<Number(2)>>))))>>,
      <<Main(Let("mk", A("MkPair", <<One>>), Pair(A("mk", <<Truth(TRUE)>>), A("mk", <<Number(2)>>))))>>,
      <<Main(Pair(A("MkPair", <<One>>), L(<<"x">>, N("x"))))>>,
      <<Main(Pair(Prim("Divide", <<Number(-7), Number(2)>>), Add(Number(127), One)))>>,
      <<Main(Pair(Prim("Negate", <<Number(-128)>>), Prim("Widen", <<Number(-5)>>)))>>,
      <<Main(Prim("Widen", <<Number(5)>>))>>,
      <<Main(Pair(One, Failing(1)))>>,
      <<Main(Pair(Truth(FALSE), A("Just", <<N("Nothing")>>)))>>,
      <<Main(Case(Pair(One, Truth(TRUE)), <<Arm("MkPair", <<"x", "x">>, N("x"))>>))>>,
      <<Main(Case(Pair(One, Truth(TRUE)), <<Arm("MkPair", <<"x", "y">>, Let("x", N("y"), N("x")))>>))>>,
      <<Main(Apply(L(<<"x", "x">>, N("x")), <<One, Truth(TRUE)>>))>>,
      <<Main(Let("x", One, Let("x", Add(N("x"), One), N("x"))))>>,
      <<Main(Let("x", Let("y", N("x"), N("y")), N("x"))), Plain("x", Number(7))>>,
      <<Main(Case(A("Just", <<One>>), <<Arm("Just", <<"x">>, N("x"))>>))>>,
      <<Main(Apply(L(<<>>, Number(5)), <<>>))>>,
      <<Main(Apply(L(<<"x">>, One), <<>>))>>,
      <<Main(Apply(L(<<"x">>, Apply(L(<<>>, N("x")), <<>>)), <<One>>))>>,
      <<Main(If(Truth(FALSE), Fault, One))>>,
      <<Plain("failure", Fault), Main(N("failure"))>>,
      <<Main(Let("s", Prim("StoreEmpty", <<>>), Prim("StoreLength", <<N("s")>>)))>>>>

(* Modules that cannot be lowered.                                         *)
Unlowered ==
    <<<<Main(N("nowhere"))>>,
      <<Main(Case(N("Nil"), <<Arm("Cons", <<"h">>, One), Arm("Nowhere", <<>>, One)>>))>>,
      <<Main(Case(N("Nil"), <<Arm("Nil", <<>>, One), Arm("Nil", <<>>, N("nowhere"))>>))>>,
      <<Main(Case(N("nowhere"), <<Arm("Nowhere", <<>>, One)>>))>>,
      <<Main(One), Main(One)>>,
      <<Plain("Nil", One), Main(One)>>,
      <<Plain("id", One)>>>>

Call(module, inputs) == [module |-> module, inputs |-> inputs, written |-> FALSE]
Closed(modules) == [i \in DOMAIN modules |-> Call(modules[i], {<<>>})]

GivenInt(n) == Reference!IntegerValue(n)
GivenBool(b) == Reference!BooleanValue(b)
Made(con, args) == Reference!ConstructorValue(con, [i \in DOMAIN args |-> Reference!Known(args[i])])
Applications ==
    <<Call(<<Map, Main(L(<<"xs">>, A("map", <<L(<<"x">>, Prim("Less", <<N("x"), One>>)), N("xs")>>)))>>,
           {<<Made("Nil", <<>>)>>, <<Made("Cons", <<GivenInt(0), Made("Cons", <<GivenInt(1), Made("Nil", <<>>)>>)>>)>>}),
      Call(<<Def("main", Fun(Integer, Con("Maybe", <<Integer>>)), N("Just"))>>, {<<GivenInt(3)>>}),
      Call(<<Main(L(<<"p">>, Case(N("p"), <<Arm("MkPair", <<"x", "y">>, If(N("y"), Add(N("x"), N("x")), Number(0)))>>)))>>,
           {<<Made("MkPair", <<GivenInt(64), GivenBool(TRUE)>>)>>, <<Made("MkPair", <<GivenInt(1), GivenBool(FALSE)>>)>>}),
      Call(<<Def("main", F2(Integer, Integer, Integer), L(<<"x", "y">>, N("x")))>>, {<<GivenInt(3)>>, <<>>})>>

(***************************************************************************)
(* The cases of the Wasm backend                                           *)
(***************************************************************************)
IntToInt == Fun(Integer, Integer)
Two == Number(2)
Less(a, b) == Prim("Less", <<a, b>>)
Minus1(n) == Add(n, Number(-1))
Needing(e) == If(Less(N("n"), Number(-5)), Number(0), e) \* n is needed in any case
SumTo(f, n, sum) == L(<<n, sum>>, If(Less(N(n), One), N(sum), A(f, <<Minus1(N(n)), Add(N(sum), N(n))>>)))
MainOfN(body) == Def("main", IntToInt, L(<<"n">>, body))
(* Loops, as workers and fused, their arguments, and folds.                *)
Looping ==
    <<Call(<<Plain("sum", SumTo("sum", "n", "a")), MainOfN(Needing(A("sum", <<N("n"), Number(0)>>)))>>,
         {<<GivenInt(0)>>, <<GivenInt(3)>>}),
      Call(<<MainOfN(Needing(LetRec("go", SumTo("go", "i", "a"), A("go", <<N("n"), Number(0)>>))))>>,
         {<<GivenInt(3)>>}),
      Call(<<MainOfN(Needing(LetRec("go", L(<<"i">>, If(Less(N("i"), One), N("n"), A("go",
         <<Minus1(N("i"))>>))), A("go", <<N("n")>>))))>>, {<<GivenInt(3)>>}),
      Call(<<MainOfN(If(Less(N("n"), One), Number(0), Add(N("n"), A("main", <<Minus1(N("n"))>>))))>>,
         {<<GivenInt(3)>>}),
      Call(<<Plain("len", L(<<"xs", "a">>, Case(N("xs"), <<Arm("Nil", <<>>, N("a")), Arm("Cons", <<"h", "t">>,
         A("len", <<N("t"), Add(N("a"), One)>>))>>))), Main(A("len", <<Link(One, Link(Two, N("Nil"))),
         Number(0)>>))>>, {<<>>}),
      Call(<<Plain("rev", L(<<"xs", "a">>, Case(N("xs"), <<Arm("Nil", <<>>, N("a")), Arm("Cons", <<"h", "t">>,
         A("rev", <<N("t"), Link(N("h"), N("a"))>>))>>))), Main(A("rev", <<Link(One, Link(Two, N("Nil"))),
         N("Nil")>>))>>, {<<>>}),
      Call(<<Plain("down", L(<<"n", "a">>, If(Less(N("n"), One), N("a"), A("down", <<Minus1(N("n")),
         Link(Add(N("n"), N("n")), N("a"))>>)))), Def("main", Fun(Integer, List(Integer)), L(<<"n">>, A("down",
         <<N("n"), N("Nil")>>)))>>, {<<GivenInt(3)>>}),
      Call(<<Plain("fix", L(<<"n">>, LetRec("go", L(<<"i", "a">>, If(Less(N("i"), One), N("a"),
         Case(Pair(N("i"), N("a")), <<Arm("MkPair", <<"u", "v">>, A("go", <<Minus1(N("u")), Add(N("v"),
         N("n"))>>))>>))), A("go", <<N("n"), Number(0)>>)))), MainOfN(Needing(A("fix", <<N("n")>>)))>>,
         {<<GivenInt(3)>>}),
      Call(<<MainOfN(Needing(LetRec("f", L(<<"i">>, If(Less(N("i"), One), N("n"), Add(One, A("f",
         <<Minus1(N("i"))>>)))), Add(A("f", <<N("n")>>), A("f", <<Two>>)))))>>, {<<GivenInt(3)>>}),
      Call(<<MainOfN(Needing(LetRec("f", L(<<"i">>, If(Less(N("i"), One), Number(0), Add(N("i"), A("f",
         <<Minus1(N("i"))>>)))), A("f", <<N("n")>>))))>>, {<<GivenInt(4)>>}),
      Call(<<MainOfN(If(Less(N("n"), One), Number(0), Add(Case(Pair(N("n"), One), <<Arm("MkPair", <<"x",
         "y">>, Add(N("x"), N("y")))>>), A("main", <<Minus1(N("n"))>>))))>>, {<<GivenInt(3)>>}),
      Call(<<Plain("even", L(<<"n">>, If(Less(N("n"), One), One, A("odd", <<Minus1(N("n"))>>)))), Plain("odd",
         L(<<"n">>, If(Less(N("n"), One), Number(0), A("even", <<Minus1(N("n"))>>)))), MainOfN(Needing(A("even",
         <<N("n")>>)))>>, {<<GivenInt(3)>>}),
      Call(<<Plain("ack", L(<<"m", "n">>, If(Less(N("m"), One), Add(N("n"), One), If(Less(N("n"), One),
         A("ack", <<Minus1(N("m")), One>>), A("ack", <<Minus1(N("m")), A("ack", <<N("m"),
         Minus1(N("n"))>>)>>))))), MainOfN(Needing(A("ack", <<One, N("n")>>)))>>, {<<GivenInt(1)>>}),
      Call(<<Plain("f", L(<<"n", "l", "y">>, If(Less(N("n"), One), Add(N("y"), One), A("f", <<Minus1(N("n")), N("y"), Number(7)>>)))),
         Main(A("f", <<One, Number(0), Failing(1)>>))>>, {<<>>})>>

(* Loops that are used as values, and what they capture.                   *)
LoopsAsValues ==
    <<Call(<<Map, Plain("sum", SumTo("sum", "n", "a")), Main(A("map", <<A("sum", <<Two>>), Link(One,
         Link(Number(10), N("Nil")))>>))>>, {<<>>}),
      Call(<<Map, Plain("count", L(<<"u", "n">>, If(Less(N("n"), One), Number(0), A("count", <<N("u"),
         Minus1(N("n"))>>)))), Main(A("map", <<A("count", <<Failing(1)>>), Link(One, Link(Two, N("Nil")))>>))>>,
         {<<>>}),
      Call(<<Map, Main(Let("d", Add(One, One), LetRec("go", L(<<"a", "n">>, If(Less(N("n"), One), Add(N("a"),
         N("d")), A("go", <<Add(N("a"), One), Minus1(N("n"))>>))), A("map", <<A("go", <<Two>>), Link(One,
         Link(Number(3), N("Nil")))>>))))>>, {<<>>}),
      Call(<<Main(LetRec("xs", L(<<"n">>, If(Less(N("n"), One), N("Nil"), Link(N("n"), A("xs",
         <<Minus1(N("n"))>>)))), A("xs", <<Two>>)))>>, {<<>>}),
      Call(<<Main(Let("xs", LetRec("zs", L(<<"n">>, Link(N("n"), N("Nil"))), A("zs", <<One>>)), N("xs")))>>,
         {<<>>}),
      Call(<<Map, Def("main", Fun(Integer, List(Integer)),
         L(<<"n">>, LetRec("f", L(<<"x">>, Add(N("x"), N("n"))), A("map", <<If(Less(N("n"), One), L(<<"y">>, N("y")), N("f")),
         Link(One, N("Nil"))>>))))>>, {<<GivenInt(3)>>}),
      Call(<<MainOfN(Needing(LetRec("f", L(<<"a", "b">>, If(Less(N("a"), One), N("b"),
         A("f", <<Minus1(N("a")), Add(N("b"), N("n"))>>))), Let("g", A("f", <<Two>>), Add(A("g", <<One>>), A("g", <<Two>>))))))>>,
         {<<GivenInt(3)>>})>>

(* Join points: bodies that go round, end, ignore or need their argument.  *)
Joining ==
    <<Call(<<Plain("loop", L(<<"n", "a">>, Let("j", L(<<"x">>, A("loop", <<Minus1(N("n")), Add(N("a"),
         N("x"))>>)), If(Less(N("n"), One), N("a"), If(Less(N("n"), Two), A("j", <<One>>), A("j",
         <<N("n")>>)))))), MainOfN(Needing(A("loop", <<N("n"), Number(0)>>)))>>, {<<GivenInt(3)>>}),
      Call(<<Plain("loop", L(<<"n", "a">>, Let("j", L(<<"x">>, N("x")), If(Less(N("n"), One), A("j", <<A("j",
         <<N("a")>>)>>), A("loop", <<Minus1(N("n")), N("a")>>))))), MainOfN(Needing(A("loop", <<N("n"),
         Number(7)>>)))>>, {<<GivenInt(3)>>}),
      Call(<<Plain("loop", L(<<"n", "a">>, Let("j", L(<<"x">>, A("loop", <<Minus1(N("n")), Add(N("a"),
         One)>>)), If(Less(N("n"), One), N("a"), If(Less(N("n"), Two), StrictApply(N("j"), <<Add(N("n"), One)>>,
         {1}), A("j", <<Failing(1)>>)))))), MainOfN(Needing(A("loop", <<N("n"), Number(0)>>)))>>,
         {<<GivenInt(3)>>}),
      Call(<<Plain("loop", L(<<"n", "a">>, Let("j", L(<<"x">>, Case(N("x"), <<Arm("Nothing", <<>>, A("loop",
         <<Minus1(N("n")), N("a")>>)), Arm("Just", <<"y">>, A("loop", <<Minus1(N("n")), Add(N("a"),
         N("y"))>>))>>)), If(Less(N("n"), One), N("a"), Let("q", Add(N("n"), N("n")), If(Less(N("n"), Two),
         A("j", <<N("Nothing")>>), A("j", <<A("Just", <<N("q")>>)>>))))))), MainOfN(Needing(A("loop", <<N("n"),
         Number(0)>>)))>>, {<<GivenInt(3)>>}),
      Call(<<Plain("loop", L(<<"n", "a">>, Let("j", L(<<"x">>, A("loop", <<Minus1(N("n")), N("a")>>)),
         If(Less(N("n"), One), N("a"), If(Less(N("n"), Two), StrictApply(N("j"), <<Failing(1)>>, {1}), A("j", <<One>>)))))),
         MainOfN(Needing(A("loop", <<N("n"), Number(5)>>)))>>, {<<GivenInt(0)>>, <<GivenInt(2)>>}),
      Call(<<Plain("loop", L(<<"n", "a">>, Let("j", L(<<"x">>, Add(N("x"), N("a"))),
         If(Less(A("j", <<N("n")>>), Number(8)), A("j", <<N("a")>>), A("loop", <<Minus1(N("n")), N("a")>>))))),
         MainOfN(Needing(A("loop", <<N("n"), Number(5)>>)))>>, {<<GivenInt(2)>>})>>

(* Constructors that are taken apart once, and known ones.                 *)
Reusing ==
    <<Call(<<MainOfN(Case(Pair(N("n"), Add(N("n"), One)), <<Arm("MkPair", <<"x", "y">>, Add(N("x"),
         N("y")))>>))>>, {<<GivenInt(3)>>}),
      Call(<<Main(Let("p", Pair(One, Two), Case(N("p"), <<Arm("MkPair", <<"x", "y">>, Pair(N("y"),
         N("x")))>>)))>>, {<<>>}),
      Call(<<Main(StrictLet("p", Pair(One, Two), Case(N("p"), <<Arm("MkPair", <<"x", "y">>, Pair(Add(N("y"),
         N("x")), N("x")))>>)))>>, {<<>>}),
      Call(<<Def("main", Fun(Boolean, Con("Pair", <<Integer, Integer>>)), L(<<"b">>, StrictLet("p", If(N("b"),
         Pair(One, Two), Pair(Two, One)), If(N("b"), Case(N("p"), <<Arm("MkPair", <<"x", "y">>, Pair(N("y"),
         N("x")))>>), Case(N("p"), <<Arm("MkPair", <<"x", "y">>, Pair(N("x"), Add(N("y"), One)))>>)))))>>,
         {<<GivenBool(TRUE)>>, <<GivenBool(FALSE)>>}),
      Call(<<Main(StrictLet("p", Link(One, N("Nil")), Case(N("p"), <<Arm("Nil", <<>>, N("Nil")), Arm("Cons",
         <<"h", "t">>, Link(Add(N("h"), One), Link(N("h"), N("t"))))>>)))>>, {<<>>}),
      Call(<<Main(StrictLet("p", Pair(One, Two), Case(N("p"), <<Arm("MkPair", <<"x", "y">>, StrictLet("q",
         Pair(N("y"), N("x")), Case(N("q"), <<Arm("MkPair", <<"u", "v">>, Pair(Pair(N("u"), N("v")), Pair(N("x"),
         N("y"))))>>)))>>)))>>, {<<>>}),
      Call(<<MainOfN(Needing(Let("p", Pair(Number(7), Truth(TRUE)), Case(N("p"), <<Arm("MkPair", <<"x", "y">>,
         If(N("y"), Add(N("x"), N("n")), N("n")))>>))))>>, {<<GivenInt(3)>>}),
      Call(<<Plain("just", L(<<"m", "d">>, Case(N("m"), <<Arm("Nothing", <<>>, N("d")), Arm("Just", <<"x">>,
         N("x"))>>))), Main(Pair(A("just", <<N("Nothing"), One>>), A("just", <<A("Just", <<Two>>),
         Failing(1)>>)))>>, {<<>>}),
      Call(<<Main(StrictLet("p", Pair(One, Two), StrictLet("q", Case(N("p"), <<Arm("MkPair", <<"x", "y">>, Pair(N("y"), N("x")))>>),
         Case(N("p"), <<Arm("MkPair", <<"u", "v">>, Pair(N("u"), N("v")))>>))))>>, {<<>>}),
      Call(<<Main(StrictLet("p", Pair(One, Two), StrictLet("q", Case(N("p"), <<Arm("MkPair", <<"x", "y">>, Pair(N("y"), N("x")))>>),
         Pair(N("p"), N("q")))))>>, {<<>>})>>

(* Functions that are known, that are one of a set, or unknown.            *)
Calling ==
    <<Call(<<Def("main", Fun(Boolean, Integer), L(<<"b">>, Let("f", If(N("b"), L(<<"x">>, Add(N("x"), One)),
         L(<<"x">>, Minus1(N("x")))), A("f", <<Two>>))))>>, {<<GivenBool(TRUE)>>, <<GivenBool(FALSE)>>}),
      Call(<<Plain("twice", L(<<"f", "x">>, A("f", <<A("f", <<N("x")>>)>>))), MainOfN(A("twice", <<L(<<"y">>,
         Add(N("y"), N("n"))), One>>))>>, {<<GivenInt(3)>>}),
      Call(<<Plain("compose", L(<<"f", "g", "x">>, A("f", <<A("g", <<N("x")>>)>>))), Plain("inc", L(<<"x">>,
         Add(N("x"), One))), Main(Apply(A("compose", <<N("inc"), N("inc")>>), <<Two>>))>>, {<<>>}),
      Call(<<Plain("const", L(<<"x", "y">>, N("x"))), Main(A("const", <<One, Failing(1)>>))>>, {<<>>}),
      Call(<<MainOfN(Let("f", L(<<"x", "y">>, Add(N("x"), Add(N("y"), N("n")))), A("f", <<One, Two>>)))>>,
         {<<GivenInt(3)>>}),
      Call(<<MainOfN(Let("f", L(<<"x">>, L(<<"y">>, Add(N("x"), Add(N("y"), N("n"))))), Let("g", A("f",
         <<One>>), Add(A("g", <<Two>>), A("g", <<Number(3)>>)))))>>, {<<GivenInt(3)>>}),
      Call(<<Plain("f", L(<<"x">>, L(<<"y">>, N("x")))), Main(Let("g", Let("u", Failing(1), If(Less(N("u"),
         One), N("f"), N("f"))), A("g", <<One, Two>>)))>>, {<<>>}),
      Call(<<Plain("inc", L(<<"x">>, Add(N("x"), One))), Plain("k", L(<<"x">>, A("Just", <<L(<<"y">>, A("x",
         <<N("y")>>))>>))), Def("main", Fun(Boolean, Integer), L(<<"b">>, Let("h", If(N("b"), N("Just"), N("k")),
         Let("u", A("k", <<N("inc")>>), Case(A("h", <<L(<<"z">>, Minus1(N("z")))>>), <<Arm("Nothing", <<>>, One),
         Arm("Just", <<"g">>, Case(N("u"), <<Arm("Nothing", <<>>, One), Arm("Just", <<"w">>, Add(A("g",
         <<Number(10)>>), A("w", <<Number(10)>>)))>>))>>)))))>>, {<<GivenBool(TRUE)>>, <<GivenBool(FALSE)>>}),
      Call(<<Plain("pick", L(<<"b">>, If(N("b"), L(<<"x">>, Add(N("x"), One)), L(<<"x">>, Number(0))))),
         Def("main", Fun(Boolean, Integer), L(<<"b">>, Apply(A("pick", <<N("b")>>), <<If(N("b"), One,
         Failing(1))>>)))>>, {<<GivenBool(TRUE)>>, <<GivenBool(FALSE)>>}),
      Call(<<Plain("pick", L(<<"b", "z">>, If(N("b"), L(<<"x">>, Add(N("x"), N("z"))), L(<<"x">>, Add(N("z"),
         N("x")))))), Def("main", Fun(Boolean, Integer), L(<<"b">>, Let("f", A("pick", <<N("b"), Two>>),
         Add(A("f", <<One>>), A("f", <<Two>>)))))>>, {<<GivenBool(TRUE)>>, <<GivenBool(FALSE)>>}),
      Call(<<Map, Main(A("map", <<A("MkPair", <<One>>), Link(Truth(TRUE), N("Nil"))>>))>>, {<<>>}),
      Call(<<Plain("app", L(<<"f">>, A("f", <<One>>))), Main(Pair(A("app", <<N("Just")>>), A("app",
         <<L(<<"x">>, A("Just", <<Add(N("x"), One)>>))>>)))>>, {<<>>}),
      Call(<<Plain("fold", L(<<"f", "z", "xs">>, Case(N("xs"), <<Arm("Nil", <<>>, N("z")), Arm("Cons", <<"h",
         "t">>, A("f", <<N("h"), A("fold", <<N("f"), N("z"), N("t")>>)>>))>>))), Main(A("fold", <<L(<<"x", "y">>,
         Add(N("x"), N("y"))), Number(0), Link(One, Link(Two, N("Nil")))>>))>>, {<<>>}),
      Call(<<Plain("foldl", L(<<"f", "z", "xs">>, Case(N("xs"), <<Arm("Nil", <<>>, N("z")), Arm("Cons", <<"h",
         "t">>, A("foldl", <<N("f"), A("f", <<N("z"), N("h")>>), N("t")>>))>>))), Main(A("foldl", <<L(<<"x",
         "y">>, Add(N("x"), N("y"))), Number(0), Link(One, Link(Two, N("Nil")))>>))>>, {<<>>}),
      Call(<<MainOfN(Let("s", Add(N("n"), One), Let("f", L(<<"x">>, Add(N("x"), N("s"))), Let("g", L(<<"x">>,
         A("f", <<A("f", <<N("x")>>)>>)), Add(A("g", <<One>>), A("g", <<Two>>))))))>>, {<<GivenInt(3)>>}),
      Call(<<Plain("inc", L(<<"x">>, Add(N("x"), One))), Def("main", Fun(Boolean, Con("Pair", <<Integer, Integer>>)), L(<<"b">>,
         Let("mk", If(N("b"), N("Just"), N("Just")), Let("u", A("Just", <<L(<<"z">>, Minus1(N("z")))>>), Case(A("mk", <<N("inc")>>),
         <<Arm("Nothing", <<>>, Pair(One, One)), Arm("Just", <<"g">>, Case(N("u"), <<Arm("Nothing", <<>>, Pair(One, One)),
         Arm("Just", <<"h">>, Pair(A("g", <<One>>), A("h", <<One>>)))>>))>>)))))>>, {<<GivenBool(TRUE)>>}),
      Call(<<Main(Case(Pair(L(<<"x">>, Add(N("x"), One)), L(<<"z">>, Minus1(N("z")))),
         <<Arm("MkPair", <<"f", "g">>, Pair(A("f", <<One>>), A("g", <<One>>)))>>))>>, {<<>>}),
      Call(<<MainOfN(Let("f", L(<<"p">>, Case(N("p"), <<Arm("MkPair", <<"x", "y">>, Add(N("x"), N("n")))>>)), A("f", <<Pair(One, Two)>>)))>>,
         {<<GivenInt(3)>>}),
      Call(<<Def("main", Fun(Boolean, Con("Pair", <<Integer, Integer>>)), L(<<"b">>,
         Let("h", If(N("b"), A("MkPair", <<One>>), L(<<"y">>, Pair(N("y"), N("y")))), A("h", <<Two>>))))>>,
         {<<GivenBool(TRUE)>>, <<GivenBool(FALSE)>>})>>

(* Values that are needed at once, later, or never; globals in exports.    *)
Demanding ==
    <<Call(<<MainOfN(Let("x", Prim("Divide", <<Number(10), N("n")>>), If(Less(N("n"), One), One, N("x"))))>>,
         {<<GivenInt(0)>>, <<GivenInt(3)>>}),
      Call(<<MainOfN(Let("x", Prim("Divide", <<Number(10), N("n")>>), Add(N("n"), N("x"))))>>,
         {<<GivenInt(0)>>, <<GivenInt(3)>>}),
      Call(<<Plain("add", L(<<"x", "y">>, Add(N("x"), N("y")))), Main(StrictApply(N("add"),
         <<StrictApply(N("add"), <<One, Two>>, {1, 2}), Number(3)>>, {1, 2}))>>, {<<>>}),
      Call(<<Plain("less", L(<<"x", "y">>, Less(N("x"), N("y")))), Main(StrictApply(N("less"), <<One, Two>>,
         {1, 2}))>>, {<<>>}),
      Call(<<Plain("k", Number(5)), Plain("g", L(<<"y">>, Add(N("y"), N("k")))), Def("main", IntToInt,
         L(<<"x">>, A("g", <<N("x")>>)))>>, {<<GivenInt(3)>>}),
      Call(<<Plain("k", Number(5)), Plain("g", L(<<"y">>, Add(N("y"), N("k")))), MainOfN(Needing(A("g",
         <<N("n")>>)))>>, {<<GivenInt(3)>>}),
      Call(<<Plain("k", Add(One, One)), Plain("f", L(<<"x", "y">>, StrictLet("z", Add(N("x"), N("k")),
         Add(N("z"), N("y"))))), Main(StrictApply(N("f"), <<One, Two>>, {1, 2}))>>, {<<>>}),
      Call(<<Main(StrictLet("x", If(Less(One, Two), Number(4), Failing(1)), StrictLet("y", Less(N("x"), One),
         If(N("y"), One, N("x")))))>>, {<<>>}),
      Call(<<Plain("f", L(<<"x">>, StrictLet("b", Less(N("x"), One), If(N("b"), Truth(FALSE), Less(N("x"),
         Number(9)))))), Main(StrictApply(N("f"), <<Two>>, {1}))>>, {<<>>}),
      Call(<<Plain("a", Pair(N("b"), One)), Plain("b", Add(One, Two)), Main(N("a"))>>, {<<>>}),
      Call(<<MainOfN(Let("x", Prim("Divide", <<Number(10), N("n")>>), If(Less(One, N("n")), Add(N("x"), N("x")), One)))>>,
         {<<GivenInt(0)>>, <<GivenInt(3)>>}),
      Call(<<MainOfN(Let("x", Prim("Divide", <<Number(10), N("n")>>), Let("m", A("Just", <<L(<<"y">>, Add(N("x"), N("y")))>>),
         If(Less(N("n"), One), One, Case(N("m"), <<Arm("Nothing", <<>>, One), Arm("Just", <<"g">>, Case(N("m"),
         <<Arm("Nothing", <<>>, One), Arm("Just", <<"h">>, Add(A("g", <<One>>), A("h", <<Two>>)))>>))>>)))))>>,
         {<<GivenInt(0)>>, <<GivenInt(3)>>}),
      Call(<<Plain("k", Add(One, One)), Plain("m", Add(Two, Two)), Main(If(Less(One, Two), N("k"), N("m")))>>, {<<>>}),
      Call(<<Plain("f", L(<<"a", "b">>, Let("z", Add(N("b"), One), If(Less(N("b"), One), Add(N("a"), One), Add(N("z"), N("b")))))),
         Main(A("f", <<Failing(1), One>>))>>, {<<>>})>>

(* Every definition has a type: those that a certificate covers, those it  *)
(* leaves to inference, and those that nothing may accept.                 *)
Certified ==
    <<<<Def("main", Integer, Case(A("Just", <<Pair(One, One)>>), <<Arm("Nothing", <<>>, Case(Pair(One, Two), <<Arm("MkPair", <<"x", "y">>, N("x"))>>))>>))>>,
      <<Def("main", Integer, Case(Pair(One, One), <<Arm("MkPair", <<"x", "y">>, If(N("x"), N("y"), One))>>))>>,
      <<Def("length", Fun(List(Boolean), Integer), Length.body), Def("main", Integer, A("length", <<Link(Truth(TRUE), N("Nil"))>>))>>,
      <<Def("size", Fun(Con("Choice", <<Integer>>), Integer), L(<<"c">>, Case(N("c"), <<Arm("First", <<>>, One), Arm("Second", <<>>, Two)>>))),
        Def("main", Integer, A("size", <<N("Second")>>))>>,
      <<Def("flag", Fun(Con("Flag", <<Integer>>), Integer), L(<<"c">>, Case(N("c"), <<Arm("Any", <<>>, One), Arm("IsInt", <<>>, Two)>>))),
        Def("main", Integer, A("flag", <<N("Any")>>))>>,
      <<Def("main", Fun(Integer, Integer), L(<<"n">>, Let("id", L(<<"x">>, N("x")), If(A("id", <<Truth(TRUE)>>), A("id", <<N("n")>>), One))))>>,
      <<Def("main", Con("List", <<Integer>>), LetRec("ones", Link(One, N("ones")), Case(N("ones"), <<Arm("Nil", <<>>, N("ones")), Arm("Cons", <<"h", "t">>, Link(N("h"), N("Nil")))>>)))>>,
      <<Def("even", Fun(Integer, Boolean), Even(2)[1].body), Def("odd", Fun(Integer, Boolean), Even(2)[2].body),
        Def("main", Boolean, Even(2)[3].body)>>>>

(***************************************************************************)
(* What frontends write                                                    *)
(***************************************************************************)
At(at, definition) == definition @@ [at |-> at]
Otherwise(e, arms, binder, body) == Frontend!WithDefault(e, arms, binder, body)
Local(name, xs, body) == Frontend!Binding(name, 0, xs, body)
Group(bindings, body) == Frontend!Group(bindings, body)
EvenOdd(body) ==
    Group(<<Local("even", <<"n">>, If(Less(N("n"), One), Truth(TRUE), A("odd", <<Minus1(N("n"))>>))),
            Local("odd", <<"n">>, If(Less(N("n"), One), Truth(FALSE), A("even", <<Minus1(N("n"))>>)))>>, body)
Defaults ==
    <<<<Main(Otherwise(Link(One, N("Nil")), <<Arm("Nil", <<>>, Truth(TRUE))>>, <<>>, Truth(FALSE)))>>,
      <<Main(Otherwise(A("Just", <<Two>>), <<Arm("Nothing", <<>>, Number(0))>>, <<"m">>,
                       Otherwise(N("m"), <<Arm("Just", <<"x">>, Add(N("x"), N("x")))>>, <<>>, One)))>>,
      <<Main(Otherwise(N("Nil"), <<Arm("Nil", <<>>, One), Arm("Cons", <<"h", "t">>, N("h"))>>, <<"xs">>, Number(5)))>>,
      <<Main(L(<<"t">>, Otherwise(N("t"), <<Arm("TagInt", <<>>, One)>>, <<>>, Two)))>>,
      <<Main(Otherwise(Failing(1), <<Arm("Nothing", <<>>, Number(0))>>, <<"m">>, One))>>,
      <<Main(Otherwise(Pair(One, Two), <<Arm("MkPair", <<"x", "y">>, N("x"))>>, <<>>, One))>>,
      <<Main(Otherwise(N("Nil"), <<>>, <<>>, One))>>,
      <<Main(Otherwise(N("Nil"), <<Arm("Nowhere", <<>>, One), Arm("Nil", <<>>, One)>>, <<>>, Two))>>>>
Groups ==
    <<<<Main(EvenOdd(A("even", <<Number(3)>>)))>>,
      <<Main(Let("x", Add(One, One), Group(<<Local("f", <<"y">>, Add(N("x"), N("y")))>>, A("f", <<A("f", <<One>>)>>))))>>,
      <<Main(L(<<"x">>, Group(<<Local("ones", <<>>, Link(N("x"), N("ones")))>>, N("ones"))))>>,
      <<Main(Let("x", One, Group(<<Local("f", <<"y">>, Group(<<Local("g", <<"z">>, If(Less(N("z"), N("x")), N("y"), A("f", <<Minus1(N("z"))>>)))>>,
                                                             A("g", <<N("y")>>)))>>, A("f", <<Two>>))))>>,
      <<Main(Group(<<Local("f", <<"g">>, Add(N("g"), One)), Local("g", <<"x">>, A("f", <<N("x")>>))>>,
                   Let("f", L(<<"x">>, Number(7)), Pair(A("f", <<One>>), A("g", <<One>>)))))>>,
      <<Main(L(<<"x">>, Group(<<Local("f", <<"y">>, Add(N("x"), N("y")))>>, Let("x", Number(100), A("f", <<One>>)))))>>,
      <<Main(Apply(L(<<"x">>, Group(<<Local("f", <<"y">>, Add(N("x"), N("y"))), Local("g", <<"x">>, A("f", <<N("x")>>))>>, A("g", <<Two>>))),
                   <<One>>))>>,
      <<Main(Apply(L(<<"x", "y", "z">>, Group(<<Local("f", <<"u">>, Add(Add(N("x"), N("y")), N("u")))>>, A("f", <<N("z")>>))),
                   <<One, Two, One>>))>>,
      <<Main(Apply(L(<<"x", "y", "z">>, Group(<<Local("f", <<"u">>, Add(Add(N("x"), N("y")), N("z")))>>, A("f", <<N("z")>>))),
                   <<One, Two, One>>))>>,
      <<Main(Group(<<>>, One))>>,
      <<Main(Group(<<Local("f", <<>>, One), Local("f", <<>>, Two)>>, N("f")))>>,
      <<Main(Group(<<Local("f", <<"x", "x">>, N("x"))>>, A("f", <<One, Two>>)))>>,
      <<At(3, Main(Group(<<Frontend!Binding("f", 4, <<"x">>, Add(N("x"), Truth(TRUE))), Frontend!Binding("g", 1, <<"x">>, Apply(N("x"), <<N("x")>>))>>, One))),
        At(5, Plain("last", A("main", <<One>>)))>>,
      <<Main(Otherwise(A("Just", <<Two>>), <<Arm("Nothing", <<>>, Truth(FALSE))>>, <<"m">>, EvenOdd(A("odd", <<One>>))))>>>>
FullCalls ==
    <<<<Plain("sub", L(<<"x", "y">>, Add(N("x"), Prim("Negate", <<N("y")>>)))),
        Main(Let("from10", A("sub", <<Number(10)>>), Add(A("from10", <<One>>), Apply(A("sub", <<One>>), <<Two>>))))>>,
      <<Plain("const", L(<<"x">>, L(<<"y">>, N("x")))), Main(A("const", <<One, Failing(1)>>))>>,
      <<Plain("sub", L(<<"x", "y">>, N("x"))), Main(A("sub", <<>>))>>,
      <<Main(Pair(A("MkPair", <<One>>), A("MkPair", <<>>)))>>,
      <<Plain("f", L(<<"x", "y">>, Add(N("x"), N("y")))), Main(Let("f", L(<<"x">>, Add(N("x"), One)), A("f", <<One>>)))>>,
      <<Plain("op", L(<<"x">>, Add(N("x"), One))), Plain("twice", L(<<"f", "x">>, A("f", <<A("f", <<N("x")>>)>>))),
        Main(Frontend!WithEffectHandler("op", L(<<"x">>, Add(N("x"), N("x"))), A("twice", <<N("op"), Number(3)>>)))>>,
      <<Main(Frontend!Join("j", "x", If(Truth(TRUE), Frontend!Jump("j", One), Frontend!Jump("j", Failing(1))), Add(N("x"), One)))>>,
      <<Main(Let("t", Frontend!Delay(Add(One, One)), Add(Frontend!ForceThunk(N("t")), Frontend!ForceThunk(N("t")))))>>,
      <<Main(L(<<"t">>, Frontend!ForceThunk(N("t"))))>>>>
XY == [con |-> "Point", fields |-> <<"x", "y">>]
Z == [con |-> "Label", fields |-> <<"z">>]
XYZ == [con |-> "Labelled", fields |-> <<"x", "y", "z">>]
APoint == Frontend!StructuralRecord(XY, [x |-> One, y |-> Truth(TRUE)])
Records ==
    <<<<Plain("yOf", L(<<"evidence", "r">>, Frontend!ProjectField("HasY", N("r"), N("evidence")))),
        Main(A("yOf", <<Frontend!HasFieldEvidence(XY, "y", "HasY"), APoint>>))>>,
      <<Plain("xOf", L(<<"evidence", "r">>, Frontend!ProjectField("HasX", N("r"), N("evidence")))),
        Main(A("xOf", <<Frontend!HasFieldEvidence(XYZ, "x", "HasX"),
                        Frontend!ExtendRecord("Extended", APoint, Frontend!StructuralRecord(Z, [z |-> Two]),
                                              Frontend!ExtendRecordEvidence(XY, Z, XYZ, "Extended"))>>))>>,
      <<Main(Frontend!ExtendRecord("Extended", APoint, Frontend!StructuralRecord(Z, [z |-> Two]), Frontend!ExtendRecordEvidence(XY, Z, XYZ, "Extended")))>>>>
Submissions(modules) ==
    [i \in DOMAIN modules |->
        [Call([d \in DOMAIN modules[i] |-> modules[i][d] @@ [at |-> 0]], {<<>>}) EXCEPT !.written = TRUE]]
WrittenPrograms == Submissions(Defaults \o Groups \o FullCalls \o Records)

MCPrograms ==
    WrittenPrograms \o Closed(Certified \o Indexed \o Rejected \o Generalised \o KeptRefinements \o CalledByNeed \o Unlowered) \o Applications
    \o Looping \o LoopsAsValues \o Joining \o Reusing \o Calling \o Demanding
MCKeptRefinements == Closed(KeptRefinements)

Budget(maximumSteps, maximumStepsPerDispatch, heapSlots, stackFrames, resultNodes) ==
    {[NoRequest EXCEPT !.maximumSteps = maximumSteps, !.maximumStepsPerDispatch = maximumStepsPerDispatch,
                       !.heapSlots = heapSlots, !.stackFrames = stackFrames, !.resultNodes = resultNodes, !.deep = deep] :
        deep \in BOOLEAN}
MCBudgets ==
    Budget(400, 400, 160, 60, 30)
    \cup Budget(400, 7, 160, 60, 2)
    \cup Budget(60, 1, 160, 60, 30)
    \cup Budget(400, 60, 7, 60, 30)
    \cup Budget(400, 60, 160, 3, 30)
    \cup Budget(25, 5, 160, 60, 30)
=============================================================================
