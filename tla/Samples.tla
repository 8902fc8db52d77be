------------------------------ MODULE Samples ------------------------------
(* One program per construct of the language that the crossings of Corpus    *)
(* leave out, each with its corner cases and the exceptions it raises.       *)
EXTENDS Corpus

Shows(es) == [i \in DOMAIN es |-> Show(es[i])]
Attempts(es) == [i \in DOMAIN es |-> Attempt(es[i])]
Op2(op, a, b) == Binary(op, a, b)
Self(x) == Attr(X("self"), x)
Method(o, m) == Attr(o, m)

Arithmetic ==
    Block(<<Set("a", Num(7)), Set("b", Unary("-", Num(2))), Set("z", Num(0)), Set("t", Bool(TRUE))>>
      \o Attempts(<<Op2("//", A, B), Op2("%", A, B), Op2("**", B, Num(3)), Op2("*", A, X("t")),
                    Op2("-", Op2("-", A, B), X("t")), Op2("//", A, X("z")), Op2("%", A, X("z")),
                    Op2("+", A, Str("x")), Op2("+", Str("x"), Str("y")), Unary("-", X("t")),
                    Op2("<", A, B), Op2(">=", B, Null), Op2("==", X("t"), Num(1)), Op2("is", A, Num(7)),
                    Op2("//", Num(7), Num(2)), Op2("%", Num(7), Num(4)), Op2("**", Num(2), Num(5)),
                    Op2("!=", Num(1), Num(2)), Op2("<=", Num(2), Num(2)), Op2(">", Num(2), Num(3)),
                    Op2("and", X("z"), X("nowhere")), Op2("or", A, X("nowhere")), X("nowhere"),
                    Op2("and", A, Str("")), Op2("or", X("z"), Null), Unary("not", Null),
                    Ternary(X("z"), Num(1), Ternary(A, Num(2), Num(3))), Fn("a", <<>>)>>))

Lists ==
    LET l == X("l") IN
    Block(<<Set("l", Ints(<<1, 2, 3, 4>>)), Do(Assign(Index(l, Unary("-", Num(1))), Num(9))),
            Do(Aug("+=", Index(l, Num(0)), Num(5)))>>
      \o Attempts(<<Index(l, Num(4)), Index(l, Str("x")), Assign(Index(l, Num(9)), Num(0)),
                    Slice(l, Num(1), Num(3), None), Slice(l, None, Unary("-", Num(1)), Num(2)),
                    Slice(l, None, None, Unary("-", Num(1))), Slice(l, Num(9), Num(0), Unary("-", Num(2))),
                    Slice(l, Null, None, Num(0)), Slice(l, Unary("-", Num(9)), Num(2), None),
                    Op2("+", l, Ints(<<0>>)), Op2("==", Op2("+", l, List(<<>>)), l),
                    Send(l, "append", <<List(<<Null>>)>>), Send(l, "insert", <<Num(1), Str("n")>>),
                    Send(l, "find", <<Num(9)>>), Send(l, "index", <<Num(77)>>), Send(l, "remove", <<Num(2)>>),
                    Send(l, "contains", <<List(<<Null>>)>>), Send(l, "count", <<Num(6)>>),
                    Send(l, "reverse", <<>>), Send(l, "extend", <<Ints(<<4>>)>>), Send(l, "pop", <<>>),
                    Send(l, "copy", <<>>), Send(l, "len", <<>>), Send(l, "nothing", <<>>), l,
                    Send(l, "clear", <<>>), Send(l, "pop", <<>>)>>))

Dicts ==
    LET d == X("d")
        e == X("e")
    IN Block(<<Set("d", Dict(<<Str("k"), Str("f")>>, <<Num(1), Lambda(<<"x">>, Op2("*", X("x"), Num(3)))>>)),
               Do(Assign(Index(d, Str("n")), Num(4))), Set("e", Dict(<<>>, <<>>)), Set("a", Num(1)), Set("b", List(<<>>))>>
         \o Attempts(<<Index(d, Str("k")), Index(d, Str("no")), Attr(d, "n"), Attr(d, "no"),
                       Send(d, "f", <<Num(5)>>), Send(d, "has_key", <<Str("n")>>),
                       Send(d, "get", <<Str("no"), Num(8)>>), Send(Dict(<<Str("f")>>, <<Num(6)>>), "pop", <<Str("f")>>),
                       Send(d, "setdefault", <<Str("s"), Num(2)>>), Send(d, "copy", <<>>),
                       Send(d, "get", <<Num(1), Num(8)>>), Send(d, "pop", <<Num(1), Num(8)>>),
                       Send(d, "setdefault", <<Num(1), Num(8)>>),
                       Send(e, "update", <<d>>), Op2("==", d, e), Send(e, "pop", <<Str("no")>>), Op2("==", Dict(<<Str("k")>>, <<A>>), Dict(<<Str("k")>>, <<B>>)),
                       Send(d, "merge", <<Dict(<<Str("k")>>, <<Null>>)>>), Fn("len", <<e>>),
                       Send(e, "clear", <<>>), Op2("!=", d, e), Dict(<<Num(1)>>, <<Num(1)>>),
                       Send(d, "nothing", <<>>), Send(Num(1), "f", <<>>)>>))

\* Counters that share a variable, closures of a block's variable, recursion
\* beyond the frames there are.
Closures ==
    LET n == X("n") IN
    Block(<<Def("counter", <<"n">>,
                <<Def("up", <<"by">>, <<Nonlocal(<<"n">>), Do(Aug("+=", n, X("by"))), Return(n)>>),
                  Def("get", <<>>, <<Return(n)>>),
                  Return(List(<<X("up"), X("get")>>))>>),
            Set("p", Fn("counter", <<Num(10)>>)), Set("q", Fn("counter", <<Num(20)>>)),
            Do(Call(Index(X("p"), Num(0)), <<Num(1)>>)), Do(Call(Index(X("q"), Num(0)), <<Num(2)>>)),
            Def("blocks", <<>>,
                <<Set("fs", List(<<>>)), Set("i", Num(0)),
                  While(Op2("<", X("i"), Num(2)),
                        Block(<<Let("own", Op2("*", X("i"), Num(10)), FALSE),
                                Do(Send(X("fs"), "append",
                                        <<Lambda(<<>>, Lambda(<<>>, Aug("+=", X("own"), Num(1))))>>)),
                                Do(Aug("+=", X("i"), Num(1)))>>)),
                  Return(X("fs"))>>),
            Set("fs", Fn("blocks", <<>>)),
            Set("next", Lambda(<<"x">>, Block(<<Set("y", Plus(X("x"), Num(1))), Return(X("y"))>>))),
            Def("depth", <<"k">>, <<Return(Op2("+", Num(1), Fn("depth", <<Op2("+", X("k"), Num(1))>>)))>>),
            Def("fact", <<"k">>, <<When(Op2("<", X("k"), Num(2)), <<Return(Num(1))>>),
                                   Return(Op2("*", X("k"), Fn("fact", <<Op2("-", X("k"), Num(1))>>)))>>)>>
      \o Attempts(<<Call(Index(X("p"), Num(1)), <<>>), Call(Index(X("q"), Num(1)), <<>>),
                    Call(Call(Index(X("fs"), Num(0)), <<>>), <<>>), Call(Call(Index(X("fs"), Num(0)), <<>>), <<>>),
                    Call(Call(Index(X("fs"), Num(1)), <<>>), <<>>), Fn("fact", <<Num(5)>>),
                    Fn("depth", <<Num(0)>>), Fn("fact", <<>>), Call(Lambda(<<"x", "y">>, X("y")), <<Num(1), Num(2)>>),
                    Fn("next", <<Num(1)>>)>>))

Generators ==
    Block(<<Def("evens", <<"to">>,
                <<Set("i", Num(0)),
                  While(Op2("<", X("i"), X("to")),
                        Block(<<Yield(X("i")), Do(Aug("+=", X("i"), Num(2)))>>)), Yield(None)>>),
            Def("outer", <<>>, <<For(<<"x">>, Fn("evens", <<Num(3)>>), Block(<<Yield(X("x"))>>)),
                                 Yield(Fn("evens", <<Num(2)>>)), Return(Num(1))>>),
            Show(Fn("outer", <<>>)),
            Class("Box", "", <<Def("items", <<>>, <<Yield(Num(1))>>)>>),
            Show(Attr(Fn("Box", <<>>), "none"))>>)

Hooks ==
    Block(<<Class("Base", "", <<Def("__init__", <<"self", "n">>, <<Do(Assign(Self("n"), X("n")))>>),
                                Def("name", <<>>, <<Return(Str("base"))>>),
                                Def("twice", <<>>, <<Return(Op2("*", Self("n"), Num(2)))>>)>>),
            Class("Row", "Base",
                  <<Def("init", <<"n">>, <<Do(Call(Attr(X("super"), "init"), <<X("n")>>)),
                                           Do(Assign(Self("log"), List(<<>>)))>>),
                    Def("name", <<>>, <<Return(Plus(Str("row of "), Call(Attr(X("super"), "name"), <<>>)))>>),
                    Def("on_get", <<"i">>, <<Return(Op2("*", Self("n"), X("i")))>>),
                    Def("on_set", <<"i", "v">>, <<Do(Send(Self("log"), "append", <<List(<<X("i"), X("v")>>)>>))>>),
                    Def("on_len", <<>>, <<Return(Num(3))>>),
                    Def("on_iter", <<>>, <<Return(Self("log"))>>),
                    Def("on_call", <<"x">>, <<Return(Plus(X("x"), Self("n")))>>),
                    Def("mine", <<>>, <<Return(Attr(X("super"), "n"))>>),
                    Def("equals", <<"o">>, <<Return(Op2("==", Self("n"), Attr(X("o"), "n")))>>)>>),
            Set("r", Fn("Row", <<Num(4)>>)), Do(Assign(Index(X("r"), Num(1)), Str("v"))),
            Do(Aug("+=", Index(X("r"), Num(2)), Num(1))), Do(Aug("-=", Attr(X("r"), "n"), Num(1))),
            Set("m", Method(X("r"), "twice")), Do(Assign(Attr(X("r"), "f"), Lambda(<<"x">>, X("x")))),
            Class("Odd", "Row", <<Def("equals", <<"o">>, <<Return(Num(0))>>)>>), Set("s", Fn("Odd", <<Num(3)>>)),
            For(<<"i", "v">>, X("r"), Block(<<Show(X("v"))>>))>>
      \o Attempts(<<Index(X("r"), Num(2)), Fn("len", <<X("r")>>), Fn("r", <<Num(1)>>), Send(X("r"), "name", <<>>),
                    Fn("m", <<>>), Send(X("r"), "f", <<Num(6)>>), Op2("==", X("r"), X("s")), Send(X("r"), "mine", <<>>),
                    Op2("!=", X("s"), X("r")), Op2("is", X("r"), X("r")), Send(X("r"), "nothing", <<>>),
                    Attr(X("r"), "nothing"), Attr(X("Row"), "name"), Fn("Base", <<>>), Assign(Attr(Num(1), "x"), Num(2)),
                    Fn("is_instance", <<X("s"), X("Base")>>), ListComp(Index(X("p"), Num(0)), "p", X("r"), None),
                    Fn("has_attr", <<X("r"), Str("log")>>), Fn("get_attr", <<X("r"), Str("zz"), Num(1)>>),
                    Fn("get_attr", <<Num(1), Str("zz"), Num(3)>>), Fn("get_attr", <<Num(1), Str("zz")>>),
                    Fn("set_attr", <<X("r"), Str("zz"), Num(2)>>), Fn("get_attr", <<X("r"), Str("zz")>>),
                    Fn("is_callable", <<X("m")>>), Fn("m", <<Num(1)>>)>>))

Shapes ==
    LET point(x, y) == Fn("Point", <<x, y>>)
        p == X("p")
    IN Block(<<StructDef("Point", Block(<<Let("x", Num(0), FALSE), Do(X("y")),
                                          Def("sum", <<>>, <<Return(Plus(Self("x"), Self("y")))>>)>>)),
               EnumDef("Color", <<"Red", "Green">>, <<None, Num(7)>>), Class("Plain", "", <<Pass>>),
               Def("kind", <<"v">>,
                   <<Match(X("v"),
                       <<Arm(Call(X("Point"), <<X("x"), X("y")>>), Op2(">", X("x"), X("y")), Block(<<Return(X("x"))>>)),
                         Arm(PatBind("p", PatType("Point")), Op2("==", Attr(p, "x"), Num(0)), Block(<<Return(Send(p, "sum", <<>>))>>)),
                         Arm(PatType("Point"), None, Block(<<Return(Str("point"))>>)),
                         Arm(PatOr(<<Num(1), Num(2), Str("s")>>), None, Block(<<Return(Str("few"))>>)),
                         Arm(PatRange(Num(3), Num(9)), Op2("!=", X("v"), Num(5)), Block(<<Return(Str("some"))>>)),
                         Arm(Attr(X("Color"), "Red"), None, Block(<<Return(Attr(X("v"), "name"))>>)),
                         Arm(PatBind("n", Num(20)), None, Block(<<Return(Op2("*", X("n"), Num(2)))>>))>>,
                       Block(<<Return(Str("other"))>>), None),
                     Return(Str("after"))>>),
               Match(Num(1), <<Arm(Num(2), None, Block(<<Show(Num(0))>>))>>, Block(<<Show(Num(2))>>), Op2("==", Num(1), Num(1)))>>
         \o Attempts([i \in 1 .. 8 |-> Fn("kind", <<<<point(Num(3), Num(1)), point(Num(0), Num(4)), point(Num(1), Num(1)),
                                                      Num(2), Num(4), Num(5), Attr(X("Color"), "Red"), Num(20)>>[i]>>)])
         \o Attempts(<<Fn("kind", <<Str("z")>>), Attr(Attr(X("Color"), "Green"), "value"), Fn("Color", <<Str("a"), Num(1)>>),
                       Attr(X("Color"), "Blue"), Fn("Point", <<Num(1)>>), Fn("Plain", <<Num(1)>>)>>)
         \o <<TryCatch(<<Class("Bad", "Point", <<Pass>>)>>, "problem", <<Show(X("problem"))>>)>>)

Natively ==
    LET l == Ints(<<3, 1, 2>>) IN
    Block(<<Set("odd", Lambda(<<"x">>, Op2("%", X("x"), Num(2)))),
            Set("add", Lambda(<<"x", "y">>, Plus(X("x"), X("y")))), Set("w", Num(0)),
            Do(ListComp(ListComp(Show(Plus(X("x"), X("y"))).e, "y", l, None), "x", Ints(<<0, 1>>), None))>>
      \o Attempts(<<Fn("map", <<X("odd"), l>>), Fn("map", <<l, X("odd")>>), Fn("filter", <<l, X("odd")>>),
                    Fn("reduce", <<l, X("add")>>), Fn("reduce", <<l, X("add"), Num(10)>>),
                    Fn("reduce", <<List(<<>>), X("add")>>), Fn("map", <<List(<<>>), X("odd")>>),
                    Fn("range", <<Num(3)>>), Fn("range", <<Num(5), Num(0), Unary("-", Num(2))>>),
                    Fn("range", <<Num(1), Num(3)>>), Fn("range", <<Num(1), Num(2), Num(0)>>),
                    Fn("zip", <<l, Ints(<<4, 5>>)>>), Fn("enumerate", <<l, Num(1)>>), Fn("any", <<List(<<Null>>)>>),
                    Fn("all", <<l>>), Fn("min", <<l>>), Fn("max", <<Num(1), Num(5), Num(2)>>), Fn("sum", <<l>>),
                    Fn("sorted", <<l>>), Fn("reversed", <<l>>), Fn("abs", <<Unary("-", Num(4))>>), Fn("len", <<Num(1)>>),
                    Fn("len", <<Str("abc")>>), Fn("bool", <<List(<<>>)>>), Fn("assert", <<Num(0)>>), Fn("len", <<>>),
                    Fstring(<<Str("n="), Plus(Num(1), Num(1)), Str(";"), Null>>), Fstring(<<>>), Fstring(<<Bool(TRUE)>>),
                    Pipe(l, Fn("map", <<X("odd")>>)), Pipe(Num(4), X("odd")), Pipe(Num(9), Send(l, "append", <<>>)),
                    ListComp(Op2("*", X("x"), X("x")), "x", l, Op2(">", X("x"), Num(1))),
                    DictComp(Fn("str", <<X("x")>>), X("x"), "x", l, None), ListComp(X("x"), "x", Num(1), None),
                    Op2("+", Walrus("w", Num(5)), X("w"))>>))

\* Locals of functions: parameters, walrus, constants, shadowing, decorators.
Locals ==
    Block(<<Set("g", Num(1)), Let("k", Num(2), TRUE),
            Def("doubled", <<"f">>, <<Return(Lambda(<<"x">>, Op2("*", Fn("f", <<X("x")>>), Num(2))))>>),
            FuncDef("next", <<"x">>, Block(<<Return(Plus(X("x"), X("k")))>>), FALSE,
                    <<X("doubled"), Lambda(<<"f">>, Fn("doubled", <<X("f")>>))>>),
            Def("locals", <<"n">>,
                <<When(Op2(">", Walrus("m", Op2("*", X("n"), Num(2))), Num(2)), <<Set("big", Bool(TRUE))>>),
                  Let("g", Num(5), FALSE), Let("fixed", X("m"), TRUE),
                  For(<<"i">>, Fn("range", <<Num(3)>>), Block(<<When(Op2("==", X("i"), Num(1)), <<Continue>>), Show(X("i"))>>)),
                  If(Op2("==", X("n"), Num(1)), Block(<<Return(Str("one"))>>), <<[c |-> Op2("==", X("n"), Num(2)), body |-> Block(<<Show(Str("two"))>>)]>>, None),
                  Do(Aug("+=", X("g"), X("fixed"))), Return(List(<<X("g"), X("i"), X("big")>>))>>),
            Def("bump", <<>>, <<Nonlocal(<<"g">>), Set("g", Num(10)), Return(X("g"))>>)>>
      \o Attempts(<<Fn("next", <<Num(1)>>), Fn("locals", <<Num(1)>>), Fn("locals", <<Num(2)>>), Fn("bump", <<>>), X("g")>>))

\* Programs that nothing saves from an exception.
Uncaught ==
    <<Block(<<Def("gen", <<>>, <<Yield(Num(1)), Raise(Str("in gen"))>>), Show(Num(1)), Do(Fn("gen", <<>>)), Show(Num(2))>>),
      Block(<<Class("E", "", <<Def("equals", <<"o">>, <<Raise(Str("no"))>>)>>), Do(Op2("==", Fn("E", <<>>), Num(1)))>>),
      Block(<<Guarding(<<Do(X("nowhere"))>>, <<Show(Str("last"))>>)>>),
      Block(<<Do(Fn("map", <<Ints(<<1>>), Lambda(<<"x">>, Op2("//", X("x"), Op2("-", X("x"), X("x"))))>>))>>),
      Block(<<Try(Block(<<Raise(Num(1))>>), FALSE, "", Block(<<Raise(None)>>), None)>>)>>

RaisingGenerator ==
    Block(<<Def("gen", <<>>, <<Yield(Num(1)), Raise(Str("in gen"))>>), Attempt(Fn("gen", <<>>))>>)

Samples ==
    <<Arithmetic, Lists, Dicts, Closures, Generators, Hooks, Shapes, Natively, Locals>> \o Uncaught

\* Read and compiled, not run: modules and coroutines, and programs the
\* compiler refuses.
Others ==
    [i \in DOMAIN Operators |-> Nestings(Operators[i])] \o
    <<Block(<<Import("m", ""), Import("m", "n"), FromImport("m", <<"a", "b">>, <<"", "c">>), FromImport("m", <<"*">>, <<"">>),
              FuncDef("f", <<"x">>, Block(<<Return(Await(Fn("g", <<X("x")>>)))>>), TRUE, <<>>),
              Do(Spawn(Fn("f", <<Num(1)>>))), Do(Spawn(X("f"))),
              Class("K", "", <<FuncDef("m", <<"self">>, Block(<<Pass>>), TRUE, <<>>)>>),
              Set("h", Lambda(<<>>, Block(<<Show(Num(1)), Return(None)>>))), Raise(None)>>),
      Block(<<Let("k", Num(1), TRUE), Set("k", Num(2))>>), Block(<<Break>>), Block(<<Nonlocal(<<"x">>)>>),
      Block(<<Def("f", <<>>, <<Nonlocal(<<"x">>)>>)>>), Block(<<Do(Assign(Num(1), Num(2)))>>)>>
=============================================================================
