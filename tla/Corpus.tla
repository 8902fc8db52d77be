------------------------------- MODULE Corpus -------------------------------
(* The programs MCPipeline runs: a family that crosses the statements with   *)
(* each other, a family for the operators, and one program per remaining     *)
(* construct.                                                                *)
EXTENDS Ast, SequencesExt

X(name) == Ident(name)
Fn(f, args) == Call(X(f), args)
Send(o, m, args) == Call(Attr(o, m), args)
Do(e) == ExprStmt(e)
Show(e) == Do(Fn("print", <<e>>))
Set(x, e) == Do(Assign(X(x), e))
Def(f, ps, ss) == FuncDef(f, ps, Block(ss), FALSE, <<>>)
Class(name, super, ss) == ClassDef(name, super, Block(ss))
Ints(ns) == List([i \in DOMAIN ns |-> Num(ns[i])])
Plus(a, b) == Binary("+", a, b)
TryCatch(ss, x, hs) == Try(Block(ss), TRUE, x, Block(hs), None)
Guarding(ss, fs) == Try(Block(ss), FALSE, "", None, Block(fs))
When(c, ss) == If(c, Block(ss), <<>>, None)

\* A run of e that shows its value or what it raises.
Attempt(e) == TryCatch(<<Show(e)>>, "problem", <<Show(X("problem"))>>)

(* ------------------------- statements and exits ------------------------- *)

Turns == <<"turn1", "turn2", "turn3">>

\* A context around the statements ss; n makes its names and marks its own.
Around(context, n, ss) ==
    LET mark(k) == Show(Num(10 * n + k))
        turn == Turns[n]
        item == <<"item1", "item2", "item3">>[n]
    IN
    CASE context = "if" -> <<If(X("go"), Block(ss), <<>>, Block(<<mark(1)>>)), mark(2)>>
      [] context = "while" ->
           <<Set(turn, Num(0)),
             While(Binary("<", X(turn), Num(2)),
                   Block(<<Do(Aug("+=", X(turn), Num(1)))>> \o ss \o <<mark(1)>>)),
             mark(2)>>
      [] context = "for" ->
           <<For(<<item>>, Ints(<<7, 8>>), Block(<<Show(X(item))>> \o ss \o <<mark(1)>>)),
             mark(2)>>
      [] context = "catch" -> <<TryCatch(ss, "caught", <<Show(X("caught")), mark(1)>>), mark(2)>>
      [] context = "handler" ->
           <<Try(Block(<<Raise(Num(10 * n))>>), FALSE, "", Block(ss), Block(<<mark(1)>>)), mark(2)>>
      [] context = "finally" -> <<Guarding(ss, <<mark(1)>>), mark(2)>>
      [] context = "with" -> <<With(Fn("Guard", <<>>), "g", Block(ss)), mark(2)>>
      [] context = "match" ->
           <<Match(Num(n), <<Arm(Num(0), None, Block(<<mark(1)>>))>>, Block(ss), None), mark(2)>>

Contexts == <<"if", "while", "for", "catch", "handler", "finally", "with", "match">>
Loops == {"while", "for"}

Exit(kind) ==
    CASE kind = "fall" -> <<Show(Str("end"))>>
      [] kind = "return" -> <<Return(Num(5))>>
      [] kind = "raise" -> <<Raise(Num(6))>>
      [] kind = "break" -> <<Break>>
      [] kind = "continue" -> <<Continue>>

Manager ==
    Class("Guard", "", <<Def("__enter__", <<>>, <<Show(Str("enter")), Return(Num(3))>>),
                         Def("__exit__", <<>>, <<Show(Str("exit"))>>)>>)

\* The contexts path around an exit, in a function.  A variable first assigned
\* inside a try statement gets no slot in advance: the turns are assigned first.
Cross(path, exit) ==
    Block((IF Contains(path, "with") THEN <<Manager>> ELSE <<>>)
          \o <<Def("run", <<"go">>,
                   [i \in DOMAIN path |-> Set(Turns[i], Num(0))] \o
                   FoldRight(LAMBDA i, ss : Around(path[i], i, ss), [i \in DOMAIN path |-> i], Exit(exit))),
               Attempt(Fn("run", <<Bool(TRUE)>>))>>)

\* break and continue need a loop around them, and the compiler leaves the
\* locals of a match on the stack when they leave it.
Leaves(path) ==
    \E i \in DOMAIN path : path[i] \in Loops /\ \A j \in i + 1 .. Len(path) : path[j] # "match"

\* The finally of a statement is skipped when an exception leaves its catch
\* body through another statement (see README).
SkipsFinally(path) ==
    \E i \in DOMAIN path :
        LET inside == {path[j] : j \in i + 1 .. Len(path)}
        IN path[i] = "handler" /\ "catch" \notin inside /\ inside \intersect {"handler", "finally", "with"} # {}

Crossable(path, exit) ==
    CASE exit \in {"break", "continue"} -> Leaves(path)
      [] exit = "raise" -> ~SkipsFinally(path)
      [] OTHER -> TRUE

Exits == <<"fall", "return", "raise", "break", "continue">>
Each(xs, f(_)) == FlattenSeq([i \in DOMAIN xs |-> f(xs[i])])
Crossings(paths) ==
    Each(paths, LAMBDA path : Each(Exits, LAMBDA x :
         IF Crossable(path, x) THEN <<Cross(path, x)>> ELSE <<>>))
Pairs == Each(Contexts, LAMBDA o : Each(Contexts, LAMBDA i : <<<<o, i>>>>))
Nested == <<"for", "handler", "finally", "with">>
Triples ==
    Each(Nested, LAMBDA o : Each(Nested, LAMBDA m : Each(Nested, LAMBDA i : <<<<o, m, i>>>>)))

(* ------------------------------- operators ------------------------------ *)

Operators == <<"or", "and", "==", "!=", "<", ">=", "is", "|", "^", "&", "<<", ">>", "+", "-", "*",
               "/", "//", "%", "**">>
A == X("a")
B == X("b")
C == X("c")

\* Each operator with each of the others on its left and on its right, and
\* with the forms that bind more loosely or more tightly.
Nestings(op) ==
    Block([i \in DOMAIN Operators |->
             Do(List(<<Binary(op, Binary(Operators[i], A, B), C),
                       Binary(op, A, Binary(Operators[i], B, C))>>))]
          \o <<Do(List(<<Binary(op, Unary("not", A), B), Binary(op, A, Unary("-", B)),
                         Unary("not", Binary(op, A, B)), Unary("-", Binary(op, A, B)),
                         Unary("~", Binary(op, A, Await(B))), Await(Binary(op, A, B)),
                         Spawn(Binary(op, A, B)), Ternary(Binary(op, A, B), C, A),
                         Binary(op, Ternary(A, B, C), Walrus("a", B)),
                         Pipe(Binary(op, A, B), Pipe(A, Binary(op, B, C))), Pipe(Pipe(A, B), C),
                         Binary(op, Pipe(A, B), Lambda(<<"x">>, C)),
                         Index(Binary(op, A, B), Binary(op, B, C)),
                         Attr(Call(Binary(op, A, B), <<Binary(op, B, C), A>>), "f")>>)),
               Do(Assign(A, Assign(B, Binary(op, A, Assign(C, A))))),
               Do(Aug("+=", Index(A, B), Ternary(A, B, Ternary(B, Ternary(C, A, B), C)))),
               Do(Lambda(<<>>, Aug("//=", A, Lambda(<<"x", "y">>, Binary(op, A, B)))))>>)
=============================================================================
