----------------------------- MODULE Reference -----------------------------
(* What a program means, without tokens, bytecode, stack or handlers: an     *)
(* evaluator of the syntax tree.  The machine is checked against it.  It     *)
(* follows docs/03 to docs/18 and the tests of the language, and where those *)
(* say something else than the natives and operators do (map(list, fn), `is` *)
(* as equality, lists compared deeply, __enter__ and __exit__, members of an *)
(* enum, ...) it follows the code; what a native does it takes from Builtins.*)
(*                                                                           *)
(* The state s has the heap, the scopes, the lists being collected by        *)
(* generators, the output and the depth of calls.  A scope has its variables,*)
(* the scope around it and the scope of its function (scope 1 is the         *)
(* script's).  An outcome is a state, a value and how the evaluation ended.  *)
EXTENDS Ast, Builtins

CONSTANT CallsMax      \* calls that fit in the machine

Ok(s, v) == [s |-> s, v |-> v, sig |-> "ok"]
Signal(s, sig, v) == [s |-> s, v |-> v, sig |-> sig]
Raises(s, v) == Signal(s, "raise", v)
Faults(s) == Raises(s, ErrorText)
Then(r, next(_, _)) == IF r.sig = "ok" THEN next(r.s, r.v) ELSE r
Done(r) == Then(r, LAMBDA s, v : Ok(s, VNull))
FromHeap(s, g) == IF g.v = Failed THEN Faults(s) ELSE Ok([s EXCEPT !.heap = g.heap], g.v)
Made(s, obj) == FromHeap(s, Fresh(s.heap, obj))

(* -------------------------------- scopes -------------------------------- *)

NoVars == [x \in {} |-> VNull]
NewScope(s, parent, fun, vars) ==
    [s EXCEPT !.scopes = Append(@, [vars |-> vars, parent |-> parent, nonlocals |-> {},
                                    fun |-> IF fun = 0 THEN Len(@) + 1 ELSE fun])]
LastScope(s) == Len(s.scopes)
BlockScope(s, env) == NewScope(s, env, s.scopes[env].fun, NoVars)
Bind(s, env, x, v) == [s EXCEPT !.scopes[env].vars = (x :> v) @@ @]

RECURSIVE Holder(_, _, _)
\* The innermost scope from env outwards that has x, or 0.
Holder(s, env, x) ==
    CASE env = 0 -> 0
      [] env # 0 /\ x \in DOMAIN s.scopes[env].vars -> env
      [] OTHER -> Holder(s, s.scopes[env].parent, x)

Lookup(s, env, x) ==
    LET h == Holder(s, env, x) IN IF h = 0 THEN Faults(s) ELSE Ok(s, s.scopes[h].vars[x])

\* A name that is no variable yet, or only a global of a function that does
\* not declare it nonlocal, becomes a variable of the function.
AssignTo(s, env, x, v) ==
    LET h == Holder(s, env, x)
        fun == s.scopes[env].fun
        own == h = 0 \/ (h = 1 /\ fun # 1 /\ x \notin s.scopes[fun].nonlocals)
    IN Bind(s, IF own THEN fun ELSE h, x, v)

RECURSIVE HasYield(_)
HasYield(e) ==
    CASE e.k = "yield" -> TRUE
      [] e.k = "block" -> \E i \in DOMAIN e.ss : HasYield(e.ss[i])
      [] e.k = "if" -> \/ HasYield(e.then) \/ HasYield(e.else)
                       \/ \E i \in DOMAIN e.elifs : HasYield(e.elifs[i].body)
      [] e.k \in {"while", "for", "with"} -> HasYield(e.body)
      [] e.k = "try" -> HasYield(e.body) \/ HasYield(e.handler) \/ HasYield(e.final)
      [] OTHER -> FALSE

ClassOf(heap, v) == heap[ObjOf(heap, v).class]
Responds(s, v, m) == IsObj(s.heap, v, "instance") /\ m \in DOMAIN ClassOf(s.heap, v).methods
MethodOf(s, v, m) == ClassOf(s.heap, v).methods[m]

RECURSIVE Eval(_, _, _), EvalAll(_, _, _), Exec(_, _, _), Apply(_, _, _, _),
          CallOf(_, _, _), Each(_, _, _, _, _), Comprehend(_, _, _, _, _),
          Matches(_, _, _, _), TryArms(_, _, _, _)

(* --------------------------------- calls -------------------------------- *)

\* The closure f with its self and its arguments.  A generator collects what
\* it yields; an initialiser returns its self.
Apply(s, f, self, args) ==
    LET c == ObjOf(s.heap, f)
        vars == [x \in ToSet(c.params) |->
                   args[CHOOSE i \in DOMAIN c.params : c.params[i] = x]]
        s1 == NewScope([s EXCEPT !.depth = @ + 1, !.yields = Append(@, <<>>)], c.env, 0,
                       IF c.isMethod THEN ("self" :> self) @@ vars ELSE vars)
        r == IF c.body.k = "block" THEN Exec(s1, LastScope(s1), c.body)
             ELSE LET e == Eval(s1, LastScope(s1), c.body) IN [e EXCEPT !.sig =
                         IF @ = "ok" THEN "return" ELSE @]
        back == [r.s EXCEPT !.depth = s.depth, !.yields = s.yields]
    IN CASE Len(args) # Len(c.params) \/ s.depth >= CallsMax -> Faults(s)
         [] r.sig = "raise" -> Raises(back, r.v)
         [] r.sig # "raise" /\ HasYield(c.body) -> Made(back, ListObj(Last(r.s.yields)))
         [] r.sig # "raise" /\ c.isInit -> Ok(back, self)
         [] OTHER -> Ok(back, IF r.sig = "return" THEN r.v ELSE VNull)

\* map, filter and reduce from element i of the list on; acc is the list they
\* build, or the value so far.
Each(s, kind, args, i, acc) ==
    LET es == ObjOf(s.heap, args[1]).es
        r == CallOf(s, args[2], IF kind = "reduce" THEN <<acc, es[i]>> ELSE <<es[i]>>)
        next(s1, v) ==
            Each(s1, kind, args, i + 1,
                 CASE kind = "map" -> Append(acc, v)
                   [] kind = "filter" -> IF Truthy(s1.heap, v) THEN Append(acc, es[i]) ELSE acc
                   [] OTHER -> v)
    IN IF i <= Len(es) THEN Then(r, next)
       ELSE IF kind = "reduce" THEN Ok(s, acc) ELSE Made(s, ListObj(acc))

CallNativeOf(s, name, args) ==
    LET list == IsObj(s.heap, args[1], "list")
        es == ObjOf(s.heap, args[1]).es
    IN CASE NativeArity(name) \notin {-1, Len(args)} -> Faults(s)
         [] name = "print" ->
              Ok([s EXCEPT !.out = Append(@, [i \in DOMAIN args |-> Shown(s.heap, args[i])])], VNull)
         [] name = "len" /\ Responds(s, args[1], "on_len") ->
              Apply(s, MethodOf(s, args[1], "on_len"), args[1], <<>>)
         [] name \in {"map", "filter"} -> IF list THEN Each(s, name, args, 1, <<>>) ELSE Faults(s)
         [] name = "reduce" ->
              CASE ~list \/ (Len(args) < 3 /\ es = <<>>) -> Faults(s)
                [] list /\ Len(args) >= 3 -> Each(s, name, args, 1, args[3])
                [] OTHER -> Each(s, name, args, 2, es[1])
         [] OTHER -> FromHeap(s, Native(s.heap, name, args))

NewInstance(s, class, args) ==
    LET made == Made(s, [k |-> "instance", class |-> class, fields |-> NoVars])
        init == s.heap[class].methods["init"]
    IN CASE s.heap[class].isEnum -> Faults(s)
         [] ~s.heap[class].isEnum /\ "init" \in DOMAIN s.heap[class].methods ->
              Apply(made.s, init, made.v, args)
         [] OTHER -> IF args = <<>> THEN made ELSE Faults(s)

CallOf(s, f, args) ==
    LET o == ObjOf(s.heap, f) IN
    CASE f[1] = "native" -> CallNativeOf(s, f[2], args)
      [] IsObj(s.heap, f, "closure") -> Apply(s, f, VNull, args)
      [] IsObj(s.heap, f, "class") -> NewInstance(s, f[2], args)
      [] IsObj(s.heap, f, "bound") -> Apply(s, o.method, o.recv, args)
      [] Responds(s, f, "on_call") -> Apply(s, MethodOf(s, f, "on_call"), f, args)
      [] OTHER -> Faults(s)

\* v.name(args): a field or an entry, a method, or a built-in method.
Send(s, v, name, args) ==
    LET o == ObjOf(s.heap, v) IN
    CASE IsObj(s.heap, v, "instance") /\ name \in DOMAIN o.fields -> CallOf(s, o.fields[name], args)
      [] Responds(s, v, name) /\ name \notin DOMAIN o.fields -> Apply(s, MethodOf(s, v, name), v, args)
      [] IsObj(s.heap, v, "dict") /\ name \in DOMAIN o.map -> CallOf(s, o.map[name], args)
      [] IsObj(s.heap, v, "dict") /\ name \notin DOMAIN o.map ->
           FromHeap(s, DictMethod(s.heap, v, name, args))
      [] IsObj(s.heap, v, "list") -> FromHeap(s, ListMethod(s.heap, v, name, args))
      [] OTHER -> Faults(s)

(* ------------------------------ expressions ----------------------------- *)

\* The values of a sequence of expressions, from left to right.
EvalAll(s, env, es) ==
    IF es = <<>> THEN Ok(s, <<>>)
    ELSE Then(Eval(s, env, Head(es)), LAMBDA s1, v :
              Then(EvalAll(s1, env, Tail(es)), LAMBDA s2, vs : Ok(s2, <<v>> \o vs)))

Equal(s, a, b) ==
    IF Responds(s, a, "equals")
    THEN Then(Apply(s, MethodOf(s, a, "equals"), a, <<b>>),
              LAMBDA s1, v : Ok(s1, VBool(Truthy(s1.heap, v))))
    ELSE Ok(s, VBool(SameValue(s.heap, a, b)))

Combine(s, op, a, b) ==
    CASE op \in {"==", "is"} -> Equal(s, a, b)
      [] op = "!=" -> Then(Equal(s, a, b), LAMBDA s1, v : Ok(s1, VBool(~v[2])))
      [] op = "+" /\ IsObj(s.heap, a, "list") /\ IsObj(s.heap, b, "list") ->
           Made(s, ListObj(ObjOf(s.heap, a).es \o ObjOf(s.heap, b).es))
      [] OTHER -> FromHeap(s, Gives(s.heap, Arithmetic(op, a, b)))

AtIndex(s, o, i) ==
    IF Responds(s, o, "on_get") THEN Apply(s, MethodOf(s, o, "on_get"), o, <<i>>)
    ELSE FromHeap(s, Gives(s.heap, Element(s.heap, o, i)))

AttrOf(s, o, x) ==
    CASE IsObj(s.heap, o, "instance") -> FromHeap(s, InstanceAttr(s.heap, o, x))
      [] IsObj(s.heap, o, "class") /\ x \in DOMAIN ObjOf(s.heap, o).methods ->
           Ok(s, ObjOf(s.heap, o).methods[x])
      [] IsObj(s.heap, o, "dict") /\ x \in DOMAIN ObjOf(s.heap, o).map ->
           Ok(s, ObjOf(s.heap, o).map[x])
      [] OTHER -> Faults(s)

\* Stores v in a variable, an attribute or an element whose object (and index)
\* is already evaluated in ov.
Store(s, env, t, ov, v) ==
    LET o == ov[1]
        heap == WithElement(s.heap, o, ov[2], v)
    IN CASE t.k = "ident" -> Ok(AssignTo(s, env, t.name, v), v)
         [] t.k = "attr" ->
              IF IsObj(s.heap, o, "instance")
              THEN Ok([s EXCEPT !.heap[o[2]].fields = (t.name :> v) @@ @], VNull) ELSE Faults(s)
         [] t.k = "index" /\ Responds(s, o, "on_set") ->
              Done(Apply(s, MethodOf(s, o, "on_set"), o, <<ov[2], v>>))
         [] OTHER -> IF heap = <<>> THEN Faults(s) ELSE Ok([s EXCEPT !.heap = heap], VNull)
Targets(t) == CASE t.k = "ident" -> <<>> [] t.k = "attr" -> <<t.o>> [] OTHER -> <<t.o, t.i>>

Closure(s, env, name, params, body, isMethod) ==
    Made(s, [k |-> "closure", params |-> params, body |-> body, env |-> env,
             isMethod |-> isMethod, isInit |-> isMethod /\ name = "init"])

\* super.x: the method of the superclass bound to self, or a field of self.
SuperAttr(s, env, x) ==
    LET super == Lookup(s, env, "super").v
        self == Lookup(s, env, "self").v
        methods == ObjOf(s.heap, super).methods
    IN IF x \in DOMAIN methods
       THEN Made(s, [k |-> "bound", recv |-> self, method |-> methods[x]])
       ELSE IF IsObj(s.heap, self, "instance") /\ x \in DOMAIN ObjOf(s.heap, self).fields
       THEN Ok(s, ObjOf(s.heap, self).fields[x]) ELSE Faults(s)

\* f(args): what is called, or the object of the method, comes first.
EvalCall(s, env, f, args) ==
    LET sends == f.k = "attr" /\ f.o # Ident("super")
    IN Then(Eval(s, env, IF sends THEN f.o ELSE f), LAMBDA s1, callee :
            Then(EvalAll(s1, env, args), LAMBDA s2, vs :
                 IF sends THEN Send(s2, callee, f.name, vs) ELSE CallOf(s2, callee, vs)))

\* [e for var in list if cond], in a scope of its own; add is the body.
Comprehend(s, env, e, list, i) ==
    LET es == ObjOf(s.heap, list).es
        s1 == Bind(s, env, e.var, es[i])
        keep == IF e.cond = None THEN Ok(s1, VBool(TRUE)) ELSE Eval(s1, env, e.cond)
        body == IF e.k = "listcomp" THEN <<e.e>> ELSE <<e.key, e.val>>
        here == Then(keep, LAMBDA s2, v :
                     IF Truthy(s2.heap, v) THEN Then(EvalAll(s2, env, body), LAMBDA s3, vs : Ok(s3, <<vs>>))
                     ELSE Ok(s2, <<>>))
    IN IF i > Len(es) THEN Ok(s, <<>>)
       ELSE Then(here, LAMBDA s2, row :
                 Then(Comprehend(s2, env, e, list, i + 1), LAMBDA s3, rows : Ok(s3, row \o rows)))

\* A comprehension of a list or a dict from its rows.
Collected(s, e, rows) ==
    IF e.k = "listcomp" THEN Made(s, ListObj([i \in DOMAIN rows |-> rows[i][1]]))
    ELSE Made(s, DictObj(FoldLeft(LAMBDA map, row : (row[1][2] :> row[2]) @@ map, NoVars, rows)))

\* What a loop goes over.
Iterable(s, v) ==
    IF Responds(s, v, "on_iter") THEN Apply(s, MethodOf(s, v, "on_iter"), v, <<>>) ELSE Ok(s, v)

AugTo(op) == SubSeq(op, 1, Len(op) - 1)

Eval(s, env, e) ==
    CASE e.k = "int" -> Ok(s, VInt(e.n))
      [] e.k = "str" -> Ok(s, VStr(e.s))
      [] e.k = "bool" -> Ok(s, VBool(e.b))
      [] e.k = "null" -> Ok(s, VNull)
      [] e.k = "ident" -> Lookup(s, env, e.name)
      [] e.k = "binary" /\ e.op \in {"and", "or"} ->
           Then(Eval(s, env, e.l), LAMBDA s1, v :
                IF Truthy(s1.heap, v) = (e.op = "and") THEN Eval(s1, env, e.r) ELSE Ok(s1, v))
      [] e.k = "binary" /\ e.op \notin {"and", "or"} ->
           Then(EvalAll(s, env, <<e.l, e.r>>), LAMBDA s1, vs : Combine(s1, e.op, vs[1], vs[2]))
      [] e.k = "unary" ->
           Then(Eval(s, env, e.e), LAMBDA s1, v :
                FromHeap(s1, Gives(s1.heap, Negated(s1.heap, e.op, v))))
      [] e.k = "call" -> EvalCall(s, env, e.f, e.args)
      [] e.k = "index" ->
           Then(EvalAll(s, env, <<e.o, e.i>>), LAMBDA s1, vs : AtIndex(s1, vs[1], vs[2]))
      [] e.k = "slice" ->
           LET part(x) == IF x = None THEN Null ELSE x
           IN Then(EvalAll(s, env, <<e.o, part(e.lo), part(e.hi), part(e.step)>>), LAMBDA s1, vs :
                   LET by == IF vs[4] = VNull THEN 1 ELSE AsInt(vs[4])
                   IN IF IsObj(s1.heap, vs[1], "list") /\ by # 0
                      THEN Made(s1, ListObj(Sliced(ObjOf(s1.heap, vs[1]).es, vs[2], vs[3], by)))
                      ELSE Faults(s1))
      [] e.k = "attr" ->
           IF e.o = Ident("super") THEN SuperAttr(s, env, e.name)
           ELSE Then(Eval(s, env, e.o), LAMBDA s1, v : AttrOf(s1, v, e.name))
      [] e.k = "list" -> Then(EvalAll(s, env, e.es), LAMBDA s1, vs : Made(s1, ListObj(vs)))
      [] e.k = "dict" ->
           LET both == [i \in 1 .. 2 * Len(e.ks) |->
                          IF i % 2 = 1 THEN e.ks[(i + 1) \div 2] ELSE e.vs[i \div 2]]
           IN Then(EvalAll(s, env, both), LAMBDA s1, vs :
                   IF \A i \in 1 .. Len(e.ks) : vs[2 * i - 1][1] = "str"
                   THEN Collected(s1, e, [i \in 1 .. Len(e.ks) |-> <<vs[2 * i - 1], vs[2 * i]>>])
                   ELSE Faults(s1))
      [] e.k = "assign" ->
           Then(EvalAll(s, env, Targets(e.t)), LAMBDA s1, ov :
                Then(Eval(s1, env, e.e), LAMBDA s2, v : Store(s2, env, e.t, ov, v)))
      [] e.k = "aug" ->
           Then(EvalAll(s, env, Targets(e.t) \o <<e.t, e.e>>), LAMBDA s1, vs :
                LET n == Len(vs)
                    h == Holder(s1, env, e.t.name)
                IN Then(Combine(s1, AugTo(e.op), vs[n - 1], vs[n]), LAMBDA s2, v :
                        IF e.t.k = "ident" THEN Ok(Bind(s2, h, e.t.name, v), v)
                        ELSE Store(s2, env, e.t, vs, v)))
      [] e.k = "fstring" ->
           Then(EvalAll(s, env, e.parts), LAMBDA s1, vs :
                Ok(s1, VStr(FoldLeft(LAMBDA text, v : text \o TextOf(v)[2], "", vs))))
      [] e.k = "lambda" -> Closure(s, env, "", e.params, e.body, FALSE)
      [] e.k = "func" -> Closure(s, env, "", e.params, e.body, FALSE)
      [] e.k = "pipe" ->
           IF e.r.k = "call" THEN EvalCall(s, env, e.r.f, <<e.l>> \o e.r.args)
           ELSE Then(EvalAll(s, env, <<e.r, e.l>>), LAMBDA s1, vs : CallOf(s1, vs[1], <<vs[2]>>))
      [] e.k = "ternary" ->
           Then(Eval(s, env, e.c), LAMBDA s1, v :
                Eval(s1, env, IF Truthy(s1.heap, v) THEN e.t ELSE e.e))
      [] e.k = "walrus" ->
           Then(Eval(s, env, e.e), LAMBDA s1, v : Ok(AssignTo(s1, env, e.name, v), v))
      [] e.k \in {"listcomp", "dictcomp"} ->
           Then(Eval(s, env, e.it), LAMBDA s1, v :
                Then(Iterable(s1, v), LAMBDA s2, list :
                     LET s3 == NewScope(s2, env, 0, e.var :> VNull)
                         rows == Comprehend(s3, LastScope(s3), e, list, 1)
                     IN IF IsObj(s2.heap, list, "list")
                        THEN Then(rows, LAMBDA s4, rs : Collected(s4, e, rs)) ELSE Faults(s2)))

(* ------------------------------ statements ------------------------------ *)

ExecBlock(s, env, block) == LET s1 == BlockScope(s, env) IN Exec(s1, LastScope(s1), block)

\* The statements of a block one after the other, in the scope env: those of
\* its first half, then those of its second.
RECURSIVE Sequence(_, _, _)
Sequence(s, env, es) ==
    LET half == Len(es) \div 2 IN
    CASE es = <<>> -> Ok(s, VNull)
      [] Len(es) = 1 -> Exec(s, env, es[1])
      [] OTHER -> Then(Sequence(s, env, SubSeq(es, 1, half)),
                       LAMBDA s1, v : Sequence(s1, env, SubSeq(es, half + 1, Len(es))))

\* The end of a loop's iteration: stop, or go on with next.
Iterated(r, next(_)) ==
    CASE r.sig = "break" -> Ok(r.s, VNull)
      [] r.sig \in {"ok", "continue"} -> next(r.s)
      [] OTHER -> r

\* while; and for over element i and the following ones of the list v, whose
\* length is looked up again each time.
RECURSIVE While1(_, _, _), For1(_, _, _, _, _)
While1(s, env, e) ==
    Then(Eval(s, env, e.c), LAMBDA s1, v :
         IF Truthy(s1.heap, v)
         THEN Iterated(ExecBlock(s1, env, e.body), LAMBDA s2 : While1(s2, env, e))
         ELSE Ok(s1, VNull))
For1(s, env, e, v, i) ==
    LET es == ObjOf(s.heap, v).es
        parts == IF Len(e.vars) = 1 THEN <<es[i]>> ELSE ObjOf(s.heap, es[i]).es
        s1 == FoldLeft(LAMBDA t, n : AssignTo(t, env, e.vars[n], parts[n]), s,
                       [n \in 1 .. Len(e.vars) |-> n])
    IN IF i > Len(es) THEN Ok(s, VNull)
       ELSE Iterated(ExecBlock(s1, env, e.body), LAMBDA s2 : For1(s2, env, e, v, i + 1))

\* finally: its own signal wins over the one of the statement.
Finally(r, last(_)) == LET f == last(r.s) IN IF f.sig = "ok" THEN [r EXCEPT !.s = f.s] ELSE f

ExecTry(s, env, e) ==
    LET body == ExecBlock(s, env, e.body)
        caught == BlockScope(body.s, env)
        handler == Exec(Bind(Bind(caught, LastScope(caught), "raised", body.v),
                             LastScope(caught), IF e.hasVar THEN e.var ELSE "raised", body.v),
                        LastScope(caught), e.handler)
        r == IF body.sig = "raise" /\ e.handler # None THEN handler ELSE body
    IN IF e.final = None THEN r ELSE Finally(r, LAMBDA s1 : ExecBlock(s1, env, e.final))

ExecWith(s, env, e) ==
    Then(Eval(s, env, e.mgr), LAMBDA s1, mgr :
         Then(Send(s1, mgr, "__enter__", <<>>), LAMBDA s2, v :
              LET s3 == BlockScope(s2, env)
                  s4 == IF e.var = "" THEN s3 ELSE Bind(s3, LastScope(s3), e.var, v)
              IN Finally(Exec(s4, LastScope(s3), e.body), LAMBDA s5 : Send(s5, mgr, "__exit__", <<>>))))

\* Does the value v match p?  The answer is a boolean value.
Matches(s, env, p, v) ==
    LET compare(op, q) == Then(Eval(s, env, q), LAMBDA s1, w : Combine(s1, op, v, w))
        first == Matches(s, env, p.ps[1], v)
    IN CASE p.k = "pat_or" ->
              IF Len(p.ps) = 1 THEN first
              ELSE Then(first, LAMBDA s1, yes :
                        IF yes[2] THEN Ok(s1, yes) ELSE Matches(s1, env, PatOr(Tail(p.ps)), v))
         [] p.k = "pat_range" ->
              Then(compare(">=", p.lo), LAMBDA s1, yes :
                   IF yes[2] THEN Then(Eval(s1, env, p.hi), LAMBDA s2, w : Combine(s2, "<=", v, w))
                   ELSE Ok(s1, yes))
         [] p.k = "pat_type" ->
              Then(Lookup(s, env, p.t), LAMBDA s1, t :
                   Ok(s1, VBool(/\ IsObj(s1.heap, t, "class") /\ IsObj(s1.heap, v, "instance")
                                /\ ObjOf(s1.heap, v).class = t[2])))
         [] p.k = "pat_bind" -> Matches(s, env, p.p, v)
         [] OTHER -> compare("==", p)

\* The names a pattern binds, in the scope of its arm.
IsDestruct(p) ==
    /\ p.k = "call" /\ p.f.k = "ident" /\ p.args # <<>>
    /\ \A i \in DOMAIN p.args : p.args[i].k = "ident"
BindPattern(s, env, p, v) ==
    CASE p.k = "pat_bind" -> Ok(Bind(s, env, p.name, v), VNull)
      [] IsDestruct(p) ->
           FoldLeft(LAMBDA r, a : Then(r, LAMBDA s1, u :
                      Then(AttrOf(s1, v, a.name), LAMBDA s2, w : Ok(Bind(s2, env, a.name, w), VNull))),
                    Ok(s, VNull), p.args)
      [] OTHER -> Ok(s, VNull)

\* The first arm whose pattern and guard hold.
TryArms(s, env, v, e) ==
    LET arm == Head(e.arms)
        next(s1) == TryArms(s1, env, v, [e EXCEPT !.arms = Tail(@)])
        guard(s1, env1, g) == IF g = None THEN Ok(s1, VBool(TRUE)) ELSE Eval(s1, env1, g)
        pat == IF IsDestruct(arm.pat) THEN PatType(arm.pat.f.name) ELSE arm.pat
        inArm(s1) ==
            LET s2 == BlockScope(s1, env)
            IN Then(BindPattern(s2, LastScope(s2), arm.pat, v), LAMBDA s3, u :
                    Then(guard(s3, LastScope(s2), arm.guard), LAMBDA s4, yes :
                         IF Truthy(s4.heap, yes) THEN Exec(s4, LastScope(s2), arm.body) ELSE next(s4)))
    IN CASE e.arms # <<>> ->
              Then(Matches(s, env, pat, v), LAMBDA s1, yes :
                   IF Truthy(s1.heap, yes) THEN inArm(s1) ELSE next(s1))
         [] e.arms = <<>> /\ e.wild # None ->
              Then(guard(s, env, e.wildGuard), LAMBDA s1, yes :
                   IF Truthy(s1.heap, yes) THEN ExecBlock(s1, env, e.wild) ELSE Ok(s1, VNull))
         [] OTHER -> Ok(s, VNull)

\* The methods of a class; self is no parameter, and super is the superclass.
WithMethods(s, env, class, ms) ==
    LET plain(ps) == IF ps # <<>> /\ Head(ps) = "self" THEN Tail(ps) ELSE ps
        name(m) == IF m.name = "__init__" THEN "init" ELSE m.name
        add(t, m) == LET c == Closure(t, env, name(m), plain(m.params), m.body, TRUE)
                     IN [c.s EXCEPT !.heap[class].methods = (name(m) :> c.v) @@ @]
    IN FoldLeft(add, s, SelectSeq(ms, LAMBDA m : m.k = "func"))
NewClassOf(s, name, super, isStruct, isEnum) ==
    Made(s, [k |-> "class", name |-> name, super |-> IF super = VNull THEN 0 ELSE super[2],
             methods |-> IF super = VNull THEN NoVars ELSE ObjOf(s.heap, super).methods,
             isStruct |-> isStruct, isEnum |-> isEnum])

\* An initialiser that stores its arguments.
Storing(fields) ==
    FuncDef("init", fields,
            Block([i \in DOMAIN fields |->
                     ExprStmt(Assign(Attr(Ident("self"), fields[i]), Ident(fields[i])))]), FALSE, <<>>)

ExecClass(s, env, e) ==
    LET super == IF e.super = "" THEN Ok(s, VNull) ELSE Lookup(s, env, e.super)
        make(s1, sup) ==
            LET c == NewClassOf(s1, e.name, sup, FALSE, FALSE)
                s2 == NewScope(Bind(c.s, env, e.name, c.v), env, s.scopes[env].fun,
                               IF sup = VNull THEN NoVars ELSE "super" :> sup)
            IN Ok(WithMethods(s2, LastScope(s2), c.v[2], e.body.ss), VNull)
    IN Then(super, LAMBDA s1, sup :
            IF sup = VNull \/ (/\ IsObj(s1.heap, sup, "class")
                               /\ ~ObjOf(s1.heap, sup).isStruct /\ ~ObjOf(s1.heap, sup).isEnum)
            THEN make(s1, sup) ELSE Faults(s1))

ExecStruct(s, env, e) ==
    LET fields == SelectSeq(e.body.ss, LAMBDA x : x.k = "let" \/ (x.k = "expr" /\ x.e.k = "ident"))
        names == [i \in DOMAIN fields |-> IF fields[i].k = "let" THEN fields[i].name ELSE fields[i].e.name]
        c == NewClassOf(s, e.name, VNull, TRUE, FALSE)
        init == IF names = <<>> THEN <<>> ELSE <<Storing(names)>>
    IN Ok(WithMethods(Bind(c.s, env, e.name, c.v), env, c.v[2], init \o e.body.ss), VNull)

\* The members of an enum are instances of it; afterwards it makes no more.
ExecEnum(s, env, e) ==
    LET c == NewClassOf(s, e.name, VNull, FALSE, FALSE)
        s1 == WithMethods(Bind(c.s, env, e.name, c.v), env, c.v[2], <<Storing(<<"name", "value">>)>>)
        member(r, i) ==
            Then(r, LAMBDA s2, u :
              Then(IF e.vals[i] = None THEN Ok(s2, VInt(i - 1)) ELSE Eval(s2, env, e.vals[i]),
                   LAMBDA s3, v :
                     Then(NewInstance(s3, c.v[2], <<VStr(e.members[i]), v>>), LAMBDA s4, o :
                          Ok([s4 EXCEPT !.heap[c.v[2]].methods = (e.members[i] :> o) @@ @], VNull))))
        r == FoldLeft(member, Ok(s1, VNull), [i \in 1 .. Len(e.members) |-> i])
    IN Then(r, LAMBDA s2, u : Ok([s2 EXCEPT !.heap[c.v[2]].isEnum = TRUE], VNull))

\* A function, and its decorators from the last to the first.
ExecFunc(s, env, e) ==
    LET c == Closure(s, env, "", e.params, e.body, FALSE)
        decorate(r, d) ==
            Then(r, LAMBDA s1, u :
              Then(EvalAll(s1, env, <<d, Ident(e.name)>>), LAMBDA s2, vs :
                Then(CallOf(s2, vs[1], <<vs[2]>>), LAMBDA s3, v : Ok(Bind(s3, env, e.name, v), VNull))))
    IN FoldLeft(decorate, Ok(Bind(c.s, env, e.name, c.v), VNull), Reverse(e.decorators))

Operand(s, env, e, default) == IF e = None THEN Ok(s, default) ELSE Eval(s, env, e)

Exec(s, env, e) ==
    CASE e.k \in {"none", "pass"} -> Ok(s, VNull)
      [] e.k = "block" -> Sequence(s, env, e.ss)
      [] e.k = "expr" -> Done(Eval(s, env, e.e))
      [] e.k = "return" ->
           Then(Operand(s, env, e.e, VNull), LAMBDA s1, v : Signal(s1, "return", v))
      [] e.k = "yield" ->
           Then(Operand(s, env, e.e, VNull), LAMBDA s1, v :
                Ok([s1 EXCEPT !.yields[Len(s1.yields)] = Append(@, v)], VNull))
      [] e.k = "raise" /\ e.e # None -> Then(Eval(s, env, e.e), LAMBDA s1, v : Raises(s1, v))
      [] e.k = "raise" /\ e.e = None ->
           LET h == Holder(s, env, "raised")
           IN Raises(s, IF h = 0 THEN VStr("no active exception") ELSE s.scopes[h].vars["raised"])
      [] e.k \in {"break", "continue"} -> Signal(s, e.k, VNull)
      [] e.k = "if" ->
           Then(Eval(s, env, e.c), LAMBDA s1, v :
                CASE Truthy(s1.heap, v) -> ExecBlock(s1, env, e.then)
                  [] ~Truthy(s1.heap, v) /\ e.elifs # <<>> ->
                       Exec(s1, env, If(Head(e.elifs).c, Head(e.elifs).body, Tail(e.elifs), e.else))
                  [] OTHER -> ExecBlock(s1, env, e.else))
      [] e.k = "while" -> While1(s, env, e)
      [] e.k = "for" ->
           Then(Eval(s, env, e.it), LAMBDA s1, v :
                Then(Iterable(s1, v), LAMBDA s2, list :
                     IF IsObj(s2.heap, list, "list") THEN For1(s2, env, e, list, 1) ELSE Faults(s2)))
      [] e.k = "try" -> ExecTry(s, env, e)
      [] e.k = "with" -> ExecWith(s, env, e)
      [] e.k = "match" ->
           Then(Eval(s, env, e.e), LAMBDA s1, v : TryArms(s1, env, v, e))
      [] e.k = "let" -> Then(Eval(s, env, e.e), LAMBDA s1, v : Ok(Bind(s1, env, e.name, v), VNull))
      [] e.k = "nonlocal" ->
           Ok([s EXCEPT !.scopes[s.scopes[env].fun].nonlocals = @ \union ToSet(e.names)], VNull)
      [] e.k = "func" -> ExecFunc(s, env, e)
      [] e.k = "class" -> ExecClass(s, env, e)
      [] e.k = "struct" -> ExecStruct(s, env, e)
      [] e.k = "enum" -> ExecEnum(s, env, e)

\* The output of a program and how it ends: "done", or "error" with the value
\* nothing caught.
Meaning(program) ==
    LET s == [heap |-> <<>>, out |-> <<>>, yields |-> <<<<>>>>, depth |-> 1,
              scopes |-> <<[vars |-> [n \in Natives |-> VNative(n)], parent |-> 0,
                            nonlocals |-> {}, fun |-> 1]>>]
        r == Exec(s, 1, program)
    IN [out |-> r.s.out,
        end |-> IF r.sig = "raise" THEN <<"error", Shown(r.s.heap, r.v)>> ELSE <<"done">>]
=============================================================================
