------------------------------ MODULE Compiler ------------------------------
(* The compiler (compiler.c): a walk of the syntax tree that threads the     *)
(* Compiler struct, here the record c, and writes the code of one function   *)
(* per frame.  An instruction is one cell of the code, so a jump offset is   *)
(* the index of the instruction it reaches.  Source positions, the constant  *)
(* pool (an operand stands in the instruction) and the limits on constants,  *)
(* locals, upvalues and jump distances are left out.                         *)
EXTENDS Ast, SequencesExt

CONSTANT BreakMax      \* length of break_jumps

ASSUME CompilerAssumption == BreakMax \in Nat

I(op, a, b, s) == [op |-> op, a |-> a, b |-> b, s |-> s]
Op(op) == I(op, 0, 0, "")
OpN(op, n) == I(op, n, 0, "")
OpS(op, s) == I(op, 0, 0, s)

(* ------------------------- frames, scopes, jumps ------------------------- *)

Cur(c) == c.frames[Len(c.frames)]
Depth(c) == Cur(c).depth
IsScript(c) == Len(c.frames) = 1

\* Address of the next instruction.
Here(c) == Len(Cur(c).code) + 1

Emits(c, ins) == [c EXCEPT !.frames[Len(c.frames)].code = @ \o ins]
Emit(c, in) == Emits(c, <<in>>)
Jump(c, op) == Emit(c, Op(op))

\* patch_jump, patch_exception_handler: the instruction at reaches Here.
Patch(c, at) == [c EXCEPT !.frames[Len(c.frames)].code[at].a = Here(c)]
PatchAll(c, ats) == FoldLeft(LAMBDA d, at : Patch(d, at), c, ats)
Loop(c, start) == Emit(c, OpN("LOOP", start))
Error(c) == [c EXCEPT !.err = TRUE]

Scope(c) == [c EXCEPT !.frames[Len(c.frames)].depth = @ + 1]

AddLocal(c, name) ==
    [c EXCEPT !.frames[Len(c.frames)].locals =
        Append(@, [name |-> name, depth |-> Depth(c), captured |-> FALSE,
                   const |-> FALSE])]
NextSlot(c) == Len(Cur(c).locals)

\* As ScopeEnd, but a captured local is popped like the others.
ScopeEndPlain(c) ==
    LET d == Depth(c) - 1
        n == Len(SelectSeq(Cur(c).locals, LAMBDA l : l.depth <= d))
    IN Emits([c EXCEPT !.frames[Len(c.frames)].depth = d,
                       !.frames[Len(c.frames)].locals = SubSeq(@, 1, n)],
             [i \in 1 .. Len(Cur(c).locals) - n |-> Op("POP")])

\* scope_end: the locals on top that are deeper than the scope left.
ScopeEnd(c) ==
    LET ls == Cur(c).locals
        d == Depth(c) - 1
        kept == {i \in 1 .. Len(ls) : ls[i].depth <= d}
        n == IF kept = {} THEN 0 ELSE Max(kept)
        pops == [i \in 1 .. Len(ls) - n |->
                   Op(IF ls[Len(ls) + 1 - i].captured THEN "CLOSE_UPVALUE" ELSE "POP")]
    IN Emits([c EXCEPT !.frames[Len(c.frames)].depth = d,
                       !.frames[Len(c.frames)].locals = SubSeq(@, 1, n)], pops)

(* ------------------------------- variables ------------------------------- *)

\* resolve_local: the innermost local of the frame with this name, or -1.
LocalSlot(frame, name) ==
    LET is == {i \in 1 .. Len(frame.locals) : frame.locals[i].name = name}
    IN IF is = {} THEN -1 ELSE Max(is) - 1

IsNonlocal(c, name) == name \in Cur(c).nonlocals
HasGlobal(c, name) == name \in c.globals
DeclareGlobal(c, name) == [c EXCEPT !.globals = @ \union {name}]

\* The frames, innermost first, that bind the name as a local.
Binders(c, name, from) ==
    {f \in 1 .. from : LocalSlot(c.frames[f], name) # -1}

ConstFrom(c, name, from) ==
    LET fs == Binders(c, name, from) IN
    IF fs = {} THEN name \in c.constGlobals
    ELSE c.frames[Max(fs)].locals[LocalSlot(c.frames[Max(fs)], name) + 1].const

\* var_is_const and enclosing_or_global_is_const.
VarIsConst(c, name) == ConstFrom(c, name, Len(c.frames))
EnclosingIsConst(c, name) == ConstFrom(c, name, Len(c.frames) - 1)

\* add_upvalue on frame f: an equal capture is used again.
AddUpvalue(c, f, slot, isLocal) ==
    LET u == [index |-> slot, isLocal |-> isLocal]
        ups == c.frames[f].ups
    IN IF \E i \in 1 .. Len(ups) : ups[i] = u
       THEN [c |-> c, up |-> (CHOOSE i \in 1 .. Len(ups) : ups[i] = u) - 1]
       ELSE [c |-> [c EXCEPT !.frames[f].ups = Append(@, u)], up |-> Len(ups)]

\* resolve_upvalue for frame f; it marks the captured local.
RECURSIVE ResolveUpvalue(_, _, _)
ResolveUpvalue(c, f, name) ==
    IF f = 1 THEN [c |-> c, up |-> -1]
    ELSE LET slot == LocalSlot(c.frames[f - 1], name)
             outer == ResolveUpvalue(c, f - 1, name)
         IN IF slot # -1
            THEN AddUpvalue([c EXCEPT !.frames[f - 1].locals[slot + 1].captured = TRUE],
                            f, slot, TRUE)
            ELSE IF outer.up = -1 THEN outer
            ELSE AddUpvalue(outer.c, f, outer.up, FALSE)

Upvalue(c, name) == ResolveUpvalue(c, Len(c.frames), name)
Slot(c, name) == LocalSlot(Cur(c), name)

\* Neither a local nor an upvalue.
Unbound(c, name) == Slot(c, name) = -1 /\ Upvalue(c, name).up = -1

\* emit_load_var and emit_store_var; a store leaves its value on the stack.
Access(c, name, local, up, global) ==
    IF Slot(c, name) # -1 THEN Emit(c, OpN(local, Slot(c, name)))
    ELSE LET u == Upvalue(c, name) IN
         IF u.up # -1 THEN Emit(u.c, OpN(up, u.up)) ELSE Emit(c, OpS(global, name))
LoadVar(c, name) == Access(c, name, "LOAD_LOCAL", "GET_UPVALUE", "LOAD_GLOBAL")
StoreVar(c, name) == Access(c, name, "STORE_LOCAL", "SET_UPVALUE", "STORE_GLOBAL")

DefineGlobal(c, name) == DeclareGlobal(Emit(c, OpS("DEFINE_GLOBAL", name)), name)

\* The value on the stack becomes a new global or the slot of a new local.
Define(c, name) ==
    IF Depth(c) = 0 THEN DefineGlobal(c, name) ELSE AddLocal(c, name)

\* frame_init, and the scope and the parameters of a function.
BeginFunction(c, kind, name, params) ==
    LET slot0 == IF kind \in {"method", "init"} THEN "self" ELSE ""
        local(n, d) == [name |-> n, depth |-> d, captured |-> FALSE, const |-> FALSE]
    IN [c EXCEPT !.frames = Append(@,
          [name |-> name, kind |-> kind, code |-> <<>>, depth |-> 1,
           locals |-> <<local(slot0, 0)>> \o
                      [i \in 1 .. Len(params) |-> local(params[i], 1)],
           ups |-> <<>>, nonlocals |-> {}, arity |-> Len(params),
           hasYield |-> FALSE])]

\* scope_end and frame_end; the enclosing function makes the closure.
EndFrame(c) ==
    LET f == Cur(c)
        fn == [name |-> f.name, arity |-> f.arity, code |-> f.code, ups |-> f.ups,
               isAsync |-> f.kind = "async", isGen |-> f.hasYield]
    IN Emit([c EXCEPT !.frames = SubSeq(@, 1, Len(@) - 1), !.fns = Append(@, fn)],
            OpN("CLOSURE", Len(c.fns) + 1))
EndFunction(c) == EndFrame(Emits(ScopeEnd(c), <<Op("PUSH_NULL"), Op("RETURN")>>))

\* compile_expr, compile_node and predeclare_node_locals call each other;
\* Visit, at the end, is one of them.
RECURSIVE Visit(_, _, _)
CExpr(c, e) == Visit(c, "expr", e)
CNode(c, e) == Visit(c, "node", e)
Predeclare(c, e) == Visit(c, "predeclare", e)

\* The expressions one after the other, up to one the compiler refuses.
CExprs(c, es) ==
    LET next(d, e) == IF d.err THEN d ELSE CExpr(d, e)
    IN FoldLeft(next, c, es)

(* ------------------------------ expressions ------------------------------ *)

\* Constant folding of two integer literals.
RECURSIVE Power(_, _)
Power(b, e) == IF e = 0 THEN 1 ELSE b * Power(b, e - 1)

Compare(op, x, y) ==
    CASE op \in {"==", "is"} -> x = y
      [] op = "!=" -> x # y
      [] op = "<" -> x < y
      [] op = "<=" -> x <= y
      [] op = ">" -> x > y
      [] op = ">=" -> x >= y
Comparisons == {"==", "is", "!=", "<", "<=", ">", ">="}

Fold(op, x, y) ==
    CASE op = "+" -> x + y
      [] op = "-" -> x - y
      [] op = "*" -> x * y
      [] op = "//" -> IF y # 0 THEN x \div y ELSE 0
      [] op = "%" -> IF y # 0 THEN x % y ELSE 0
      [] op = "**" -> Power(x, y)
Foldable == {"+", "-", "*", "//", "%", "**"}

BoolNum(b) == IF b THEN 1 ELSE 0

\* and and or jump over their right side and keep the left one.
CShortCircuit(c, op, l, r) ==
    LET c1 == CExpr(c, l)
        c2 == Emit(Jump(c1, IF op = "and" THEN "AND" ELSE "OR"), Op("POP"))
    IN Patch(CExpr(c2, r), Here(c1))

CBinary(c, e) ==
    LET literals == e.l.k = "int" /\ e.r.k = "int" IN
    CASE e.op \in {"and", "or"} -> CShortCircuit(c, e.op, e.l, e.r)
      [] literals /\ e.op \in Foldable -> Emit(c, OpN("PUSH_INT", Fold(e.op, e.l.n, e.r.n)))
      [] literals /\ e.op \in Comparisons ->
           Emit(c, OpN("PUSH_BOOL", BoolNum(Compare(e.op, e.l.n, e.r.n))))
      [] OTHER -> Emit(CExpr(CExpr(c, e.l), e.r),
                       OpS("BINARY", IF e.op = "is" THEN "==" ELSE e.op))

\* super in a method of a class with a superclass: self, the superclass and
\* GET_SUPER.
IsSuper(c, o) ==
    /\ o = Ident("super")
    /\ c.classes # <<>>
    /\ Last(c.classes) # ""
GetSuper(c, name) ==
    Emit(LoadVar(Emit(c, OpN("LOAD_LOCAL", 0)), Last(c.classes)),
         OpS("GET_SUPER", name))

CCall(c, f, args) ==
    CASE f.k = "attr" /\ IsSuper(c, f.o) ->
           Emit(CExprs(GetSuper(c, f.name), args), OpN("CALL", Len(args)))
      [] f.k = "attr" /\ ~IsSuper(c, f.o) ->
           Emit(CExprs(CExpr(c, f.o), args), I("INVOKE", Len(args), 0, f.name))
      [] OTHER -> Emit(CExprs(CExpr(c, f), args), OpN("CALL", Len(args)))

CAttr(c, e) ==
    IF IsSuper(c, e.o) THEN GetSuper(c, e.name)
    ELSE Emit(CExpr(c, e.o), OpS("GET_ATTR", e.name))

OrNull(c, e) == IF e = None THEN Emit(c, Op("PUSH_NULL")) ELSE CExpr(c, e)

CSlice(c, e) ==
    Emit(OrNull(OrNull(OrNull(CExpr(c, e.o), e.lo), e.hi), e.step), Op("SLICE"))

CDict(c, e) ==
    LET both == [i \in 1 .. 2 * Len(e.ks) |->
                   IF i % 2 = 1 THEN e.ks[(i + 1) \div 2] ELSE e.vs[i \div 2]]
    IN Emit(CExprs(c, both), OpN("CREATE_DICT", Len(e.ks)))

\* A name declared nonlocal: an enclosing local or an existing global.
StoreNonlocal(c, name) ==
    LET u == Upvalue(c, name) IN
    CASE u.up # -1 /\ ~EnclosingIsConst(c, name) -> Emit(u.c, OpN("SET_UPVALUE", u.up))
      [] u.up = -1 /\ HasGlobal(c, name) /\ ~EnclosingIsConst(c, name) ->
           Emit(c, OpS("STORE_GLOBAL", name))
      [] OTHER -> Error(c)

StoreUnlessConst(c, name) == IF VarIsConst(c, name) THEN Error(c) ELSE StoreVar(c, name)

\* The value stays as the slot of a new local and is loaded again.  In a
\* nested block of a function the local belongs to the function, except in
\* loops.
NewLocal(c, name) ==
    LET hoist == ~IsScript(c) /\ Depth(c) > 1 /\ c.loopDepth = 0
        d == AddLocal(c, name)
    IN LoadVar(IF hoist
               THEN [d EXCEPT !.frames[Len(d.frames)].locals[NextSlot(c) + 1].depth = 1]
               ELSE d, name)

AssignName(c, name) ==
    CASE IsNonlocal(c, name) -> StoreNonlocal(c, name)
      [] ~IsNonlocal(c, name) /\ ~Unbound(c, name) -> StoreUnlessConst(c, name)
      [] ~IsNonlocal(c, name) /\ Unbound(c, name) /\ IsScript(c) /\ HasGlobal(c, name) ->
           StoreUnlessConst(c, name)
      [] OTHER -> IF Depth(c) = 0 THEN LoadVar(DefineGlobal(c, name), name)
                  ELSE NewLocal(c, name)

\* Every branch leaves one value.
CAssign(c, t, e) ==
    CASE t.k = "ident" -> AssignName(CExpr(c, e), t.name)
      [] t.k = "attr" -> Emits(CExpr(CExpr(c, t.o), e),
                               <<OpS("SET_ATTR", t.name), Op("PUSH_NULL")>>)
      [] t.k = "index" -> Emits(CExpr(CExpr(CExpr(c, t.o), t.i), e),
                                <<Op("SET_INDEX"), Op("PUSH_NULL")>>)
      [] OTHER -> Error(c)

AugOp(op) ==
    CASE op = "+=" -> "+" [] op = "-=" -> "-" [] op = "*=" -> "*" [] op = "/=" -> "/"
      [] op = "%=" -> "%" [] op = "**=" -> "**" [] op = "//=" -> "//" [] op = "&=" -> "&"
      [] op = "|=" -> "|" [] op = "^=" -> "^" [] op = "<<=" -> "<<" [] op = ">>=" -> ">>"

\* The container and the key of an indexed target are evaluated twice.
CAug(c, e) ==
    LET t == e.t
        op == OpS("BINARY", AugOp(e.op))
        pair(d) == CExpr(CExpr(d, t.o), t.i)
    IN CASE t.k = "ident" ->
              IF VarIsConst(c, t.name) THEN Error(c)
              ELSE StoreVar(Emit(CExpr(LoadVar(c, t.name), e.e), op), t.name)
         [] t.k = "attr" ->
              Emits(CExpr(Emits(CExpr(c, t.o), <<Op("DUP"), OpS("GET_ATTR", t.name)>>), e.e),
                    <<op, OpS("SET_ATTR", t.name), Op("PUSH_NULL")>>)
         [] t.k = "index" ->
              Emits(CExpr(Emit(pair(pair(c)), Op("GET_INDEX")), e.e),
                    <<op, Op("SET_INDEX"), Op("PUSH_NULL")>>)
         [] OTHER -> Error(c)

CSpawn(c, e) ==
    IF e.k = "call" THEN Emit(CExprs(CExpr(c, e.f), e.args), OpN("SPAWN_CALL", Len(e.args)))
    ELSE Emit(CExpr(c, e), Op("CREATE_TASK"))

\* str(part) unless the part is a literal, the parts added from the left.
CPart(c, e) ==
    IF e.k = "str" THEN CExpr(c, e) ELSE Emit(CExpr(LoadVar(c, "str"), e), OpN("CALL", 1))
CFstring(c, ps) ==
    IF ps = <<>> THEN Emit(c, OpS("PUSH_STRING", ""))
    ELSE FoldLeft(LAMBDA d, e : Emit(CPart(d, e), OpS("BINARY", "+")),
                  CPart(c, Head(ps)), Tail(ps))

CLambda(c, e) ==
    LET d == BeginFunction(c, "function", "<lambda>", e.params) IN
    EndFunction(IF e.body.k = "block" THEN CNode(Predeclare(d, e.body), e.body)
                ELSE Emit(CExpr(d, e.body), Op("RETURN")))

\* l |> f(args) is f(l, args).
CPipe(c, l, r) ==
    CASE r.k = "call" /\ r.f.k = "attr" ->
           Emit(CExprs(CExpr(CExpr(c, r.f.o), l), r.args),
                I("INVOKE", Len(r.args) + 1, 0, r.f.name))
      [] r.k = "call" /\ r.f.k # "attr" ->
           Emit(CExprs(CExpr(CExpr(c, r.f), l), r.args), OpN("CALL", Len(r.args) + 1))
      [] OTHER -> Emit(CExpr(CExpr(c, r), l), OpN("CALL", 1))

CTernary(c, e) ==
    LET c1 == CExpr(c, e.c)
        c2 == CExpr(Emit(Jump(c1, "JUMP_IF_FALSE"), Op("POP")), e.t)
        c3 == Emit(Patch(Jump(c2, "JUMP"), Here(c1)), Op("POP"))
    IN Patch(CExpr(c3, e.e), Here(c2))

CWalrus(c, name, e) ==
    LET d == CExpr(c, e) IN
    CASE IsNonlocal(d, name) -> StoreNonlocal(d, name)
      [] ~IsNonlocal(d, name) /\ ~Unbound(d, name) -> StoreUnlessConst(d, name)
      [] ~IsNonlocal(d, name) /\ Unbound(d, name) /\ IsScript(d) /\ HasGlobal(d, name) ->
           IF VarIsConst(d, name) THEN Error(d) ELSE Emit(d, OpS("STORE_GLOBAL", name))
      [] OTHER -> LoadVar(IF Depth(d) = 0 THEN DefineGlobal(d, name)
                          ELSE AddLocal(d, name), name)

(* Code that runs when the condition on the stack holds; both sides pop it.  *)
(* It begins with c, and ends with d.                                        *)
SkipUnless(c) == Emit(Jump(c, "JUMP_IF_FALSE"), Op("POP"))
SkipEnd(c, d) == Patch(Emit(Patch(Jump(d, "JUMP"), Here(c)), Op("POP")), Here(d))

InScope(c, body) == ScopeEnd(CNode(Scope(c), body))

\* The head of a loop over a sequence, __idx >= len(__iter) leaves it by the
\* jump at Here + 7; then var = __iter[__idx] and __idx += 1.
IterHead(c, iter, idx) ==
    Emits(c, <<OpN("LOAD_LOCAL", idx), OpS("LOAD_GLOBAL", "len"), OpN("LOAD_LOCAL", iter),
               OpN("CALL", 1), OpS("BINARY", ">="), OpN("JUMP_IF_FALSE", Here(c) + 8),
               Op("POP"), Op("JUMP"), Op("POP")>>)
IterElement(iter, idx) ==
    <<OpN("LOAD_LOCAL", iter), OpN("LOAD_LOCAL", idx), Op("GET_INDEX")>>
StorePop(slot) == <<OpN("STORE_LOCAL", slot), Op("POP")>>
IterAdvance(idx) ==
    <<OpN("LOAD_LOCAL", idx), OpN("PUSH_INT", 1), OpS("BINARY", "+")>> \o StorePop(idx)

\* A comprehension is a function of its own, called at once, that sees no
\* loop and no try of the enclosing one.  Slots: 1 the result, 2 the
\* variable, 3 the sequence, 4 the index.
CComp(c, e) ==
    LET list == e.k = "listcomp"
        fresh == [c EXCEPT !.loopStart = -1, !.loopDepth = 0, !.breaks = <<>>,
                           !.tryDepth = 0, !.tryAtLoop = 0, !.excSlot = -1]
        c1 == BeginFunction(fresh, "function",
                            IF list THEN "<listcomp>" ELSE "<dictcomp>", <<>>)
        c2 == AddLocal(Emit(c1, Op(IF list THEN "CREATE_LIST" ELSE "CREATE_DICT")), "__comp")
        c3 == AddLocal(Emit(c2, Op("PUSH_NULL")), e.var)
        c4 == AddLocal(Emit(CExpr(c3, e.it), Op("GET_ITER")), "__lc_iter")
        c5 == AddLocal(Emit(c4, OpN("PUSH_INT", 0)), "__lc_idx")
        c6 == Emits(IterHead(c5, 3, 4), IterElement(3, 4) \o StorePop(2) \o IterAdvance(4))
        comp(d) == Emit(d, OpN("LOAD_LOCAL", 1))
        add(d) == IF list
                  THEN Emits(CExpr(comp(d), e.e), <<I("INVOKE", 1, 0, "append"), Op("POP")>>)
                  ELSE Emits(CExpr(CExpr(comp(d), e.key), e.val),
                             <<Op("SET_INDEX"), Op("PUSH_NULL"), Op("POP")>>)
        cond == CExpr(c6, e.cond)
        c7 == IF e.cond = None THEN add(c6) ELSE SkipEnd(cond, add(SkipUnless(cond)))
        c8 == EndFunction(Emit(comp(Patch(Loop(c7, Here(c5)), Here(c5) + 7)), Op("RETURN")))
    IN Emit([c8 EXCEPT !.loopStart = c.loopStart, !.loopDepth = c.loopDepth,
                       !.breaks = c.breaks, !.tryDepth = c.tryDepth,
                       !.tryAtLoop = c.tryAtLoop, !.excSlot = c.excSlot],
            OpN("CALL", 0))

\* A function statement or expression up to its closure; the locals assigned
\* anywhere in its body get their slots first.
CFunction(c, e) ==
    LET d == BeginFunction(c, IF e.isAsync THEN "async" ELSE "function", e.name, e.params)
    IN EndFunction(CNode(Predeclare(d, e.body), e.body))

\* compile_expr: the code that leaves the value of e on the stack.
ExprCode(c, e) ==
    CASE c.err -> c
      [] ~c.err /\ e.k = "int" -> Emit(c, OpN("PUSH_INT", e.n))
      [] ~c.err /\ e.k = "str" -> Emit(c, OpS("PUSH_STRING", e.s))
      [] ~c.err /\ e.k = "bool" -> Emit(c, OpN("PUSH_BOOL", BoolNum(e.b)))
      [] ~c.err /\ e.k = "null" -> Emit(c, Op("PUSH_NULL"))
      [] ~c.err /\ e.k = "ident" -> LoadVar(c, e.name)
      [] ~c.err /\ e.k = "binary" -> CBinary(c, e)
      [] ~c.err /\ e.k = "unary" -> Emit(CExpr(c, e.e), OpS("UNARY", e.op))
      [] ~c.err /\ e.k = "call" -> CCall(c, e.f, e.args)
      [] ~c.err /\ e.k = "index" -> Emit(CExprs(c, <<e.o, e.i>>), Op("GET_INDEX"))
      [] ~c.err /\ e.k = "slice" -> CSlice(c, e)
      [] ~c.err /\ e.k = "attr" -> CAttr(c, e)
      [] ~c.err /\ e.k = "list" -> Emit(CExprs(c, e.es), OpN("CREATE_LIST", Len(e.es)))
      [] ~c.err /\ e.k = "dict" -> CDict(c, e)
      [] ~c.err /\ e.k = "assign" -> CAssign(c, e.t, e.e)
      [] ~c.err /\ e.k = "aug" -> CAug(c, e)
      [] ~c.err /\ e.k = "await" -> Emit(CExpr(c, e.e), Op("AWAIT"))
      [] ~c.err /\ e.k = "spawn" -> CSpawn(c, e.e)
      [] ~c.err /\ e.k = "fstring" -> CFstring(c, e.parts)
      [] ~c.err /\ e.k = "lambda" -> CLambda(c, e)
      [] ~c.err /\ e.k = "pipe" -> CPipe(c, e.l, e.r)
      [] ~c.err /\ e.k = "func" -> CFunction(c, e)
      [] ~c.err /\ e.k = "ternary" -> CTernary(c, e)
      [] ~c.err /\ e.k = "walrus" -> CWalrus(c, e.name, e.e)
      [] ~c.err /\ e.k \in {"listcomp", "dictcomp"} -> CComp(c, e)
      [] OTHER -> Error(c)

(* ------------------------ slots reserved in advance ---------------------- *)

Reserve(c, name) == AddLocal(Emit(c, Op("PUSH_NULL")), name)

\* The name gets a slot unless something binds it already.
ReserveNew(c, name) ==
    IF IsNonlocal(c, name) \/ Slot(c, name) # -1 THEN c
    ELSE IF Upvalue(c, name).up # -1 THEN Upvalue(c, name).c
    ELSE IF HasGlobal(c, name) THEN c
    ELSE Reserve(c, name)

\* A loop variable shadows a global, and may not be a const local.
ReserveLoopVar(c, name) ==
    CASE Slot(c, name) # -1 -> IF Cur(c).locals[Slot(c, name) + 1].const THEN Error(c) ELSE c
      [] Slot(c, name) = -1 /\ Upvalue(c, name).up # -1 -> Upvalue(c, name).c
      [] OTHER -> Reserve(c, name)

Predeclares(c, es) == FoldLeft(Predeclare, c, es)

\* predeclare_node_locals; it enters neither functions nor try statements.
Predeclared(c, e) ==
    CASE e.k = "assign" -> IF e.t.k = "ident" THEN ReserveNew(c, e.t.name) ELSE c
      [] e.k = "walrus" -> Predeclare(ReserveNew(c, e.name), e.e)
      [] e.k = "if" -> Predeclares(c, <<e.then>> \o [i \in 1 .. Len(e.elifs) |->
                                        e.elifs[i].body] \o <<e.else>>)
      [] e.k = "while" -> Predeclares(c, <<e.c, e.body>>)
      [] e.k = "for" -> Predeclare(FoldLeft(ReserveLoopVar, c, e.vars), e.body)
      [] e.k = "block" -> Predeclares(c, e.ss)
      [] e.k = "expr" -> Predeclare(c, e.e)
      [] e.k = "match" -> Predeclares(c, [i \in 1 .. Len(e.arms) |-> e.arms[i].body]
                                         \o <<e.wild>>)
      [] e.k = "with" -> Predeclare(c, e.body)
      [] e.k = "binary" -> Predeclares(c, <<e.l, e.r>>)
      [] e.k = "unary" -> Predeclare(c, e.e)
      [] e.k = "ternary" -> Predeclares(c, <<e.c, e.t, e.e>>)
      [] OTHER -> c

(* ------------------------------- statements ------------------------------ *)

\* The try and with statements the code is in.  Entry n of the array
\* overwrites what an earlier statement of that depth left there.
Enter(c, ctx) ==
    LET n == c.tryDepth + 1
    IN [c EXCEPT !.tries = SubSeq(@, 1, n - 1) \o <<ctx>> \o SubSeq(@, n + 1, Len(@)),
                 !.tryDepth = n]
TryContext(final, mgr, outer) ==
    [final |-> final, mgr |-> mgr, inCatch |-> FALSE, outer |-> outer]

\* As WithExit, but the result of __exit__ stays on the stack.
WithExitKept(mgr) == <<OpN("LOAD_LOCAL", mgr), I("INVOKE", 0, 0, "__exit__")>>

WithExit(mgr) ==
    <<OpN("LOAD_LOCAL", mgr), I("INVOKE", 0, 0, "__exit__"), Op("POP")>>

\* emit_try_unwind: an early exit pops the live handlers, runs the finally
\* bodies inline and, when it stays in the function, pops the locals of the
\* statements it leaves.
CUnwind(c, stop, popLocals) ==
    LET top == c.tryDepth
        leave(d, i) ==
            LET t == d.tries[i]
                d1 == IF t.inCatch THEN d ELSE Emit(d, Op("POP_HANDLER"))
                d2 == CASE t.final # None ->
                             [CNode([d1 EXCEPT !.tryDepth = i - 1], t.final)
                                EXCEPT !.tryDepth = top]
                        [] t.final = None /\ t.mgr # -1 -> Emits(d1, WithExit(t.mgr))
                        [] OTHER -> d1
            IN IF popLocals THEN Emits(d2, [k \in 1 .. d2.tries[i].outer |-> Op("POP")])
               ELSE d2
    IN FoldLeft(leave, c, [k \in 1 .. top - stop |-> top + 1 - k])

\* As CReturn, but without the unwinding.
CReturnAtOnce(c, e) == Emit(OrNull(c, e), Op("RETURN"))
CReturn(c, e) == Emit(CUnwind(OrNull(c, e), 0, FALSE), Op("RETURN"))

\* raise in a catch body runs the finally of its own try statement first.
CRaise(c, e) ==
    LET d == CASE e # None -> CExpr(c, e)
               [] e = None /\ c.excSlot >= 0 -> Emit(c, OpN("LOAD_LOCAL", c.excSlot))
               [] OTHER -> Emit(c, OpS("PUSH_STRING", "no active exception"))
        n == c.tryDepth
        inCatch == n > 0 /\ d.tries[n].inCatch /\ d.tries[n].final # None
        final == CNode([d EXCEPT !.tryDepth = n - 1], d.tries[n].final)
    IN Emit(IF inCatch THEN [final EXCEPT !.tryDepth = n] ELSE d, Op("RAISE"))

CTry(c, e) ==
    LET n == c.tryDepth + 1
        c0 == Reserve(Scope(c), CASE e.hasVar -> e.var
                                  [] ~e.hasVar /\ e.handler # None -> "__flux_catch_exc__"
                                  [] OTHER -> "__flux_exc__")
        slot == NextSlot(c0) - 1
        c1 == Enter(Emit(c0, I("PUSH_HANDLER", 0, slot, "")), TryContext(e.final, -1, 1))
        final(d) == CNode([d EXCEPT !.tryDepth = n - 1], e.final)
        c2 == final(Emit([InScope(c1, e.body) EXCEPT !.tryDepth = n - 1], Op("POP_HANDLER")))
        c3 == Emits(Patch(Jump(c2, "JUMP"), Here(c0)), StorePop(slot))
        catch == InScope([c3 EXCEPT !.excSlot = slot, !.tries[n].inCatch = TRUE,
                                    !.tryDepth = n], e.handler)
        c4 == IF e.handler # None THEN final([catch EXCEPT !.excSlot = c.excSlot])
              ELSE Emits(final(c3), <<OpN("LOAD_LOCAL", slot), Op("RAISE")>>)
    IN ScopeEnd(Patch(c4, Here(c2)))

CWith(c, e) ==
    LET n == c.tryDepth + 1
        c0 == Scope(c)
        mgr == NextSlot(c0)
        c1 == Emits(AddLocal(CExpr(c0, e.mgr), "__with_mgr"),
                    <<OpN("LOAD_LOCAL", mgr), I("INVOKE", 0, 0, "__enter__")>>)
        c2 == Reserve(IF e.var # "" THEN AddLocal(c1, e.var) ELSE Emit(c1, Op("POP")),
                      "__with_exc__")
        exc == NextSlot(c2) - 1
        c3 == Enter(Emit(c2, I("PUSH_HANDLER", 0, exc, "")),
                    TryContext(None, mgr, NextSlot(c2) - NextSlot(c0)))
        c4 == Emits([CNode(c3, e.body) EXCEPT !.tryDepth = n - 1],
                    <<Op("POP_HANDLER")>> \o WithExit(mgr))
        c5 == Emits(Patch(Jump(c4, "JUMP"), Here(c2)),
                    StorePop(exc) \o WithExit(mgr) \o <<OpN("LOAD_LOCAL", exc), Op("RAISE")>>)
    IN ScopeEnd(Patch(c5, Here(c4)))

\* As CContinue, but it goes back to where it stands itself.
CContinueHere(c) ==
    LET d == CUnwind(c, c.tryAtLoop, TRUE) IN
    IF c.loopDepth = 0 THEN Error(c)
    ELSE Loop(Emits(d, <<Op("PUSH_NULL"), Op("POP")>>), Here(d))

\* The jump of a break beyond BreakMax is dropped.
CBreak(c) ==
    LET d == CUnwind(c, c.tryAtLoop, TRUE) IN
    CASE c.loopDepth = 0 -> Error(c)
      [] c.loopDepth > 0 /\ Len(d.breaks) < BreakMax ->
           [Jump(d, "JUMP") EXCEPT !.breaks = Append(@, Here(d))]
      [] OTHER -> d
CContinue(c) ==
    IF c.loopDepth = 0 THEN Error(c)
    ELSE Loop(CUnwind(c, c.tryAtLoop, TRUE), c.loopStart)

\* The branches of elif are tested one after the other, and one that was
\* taken goes on to the next test.
CIf(c, e) ==
    LET c1 == CExpr(Predeclare(c, e), e.c)
        c2 == InScope(Emit(Jump(c1, "JUMP_IF_FALSE"), Op("POP")), e.then)
        c3 == Emit(Patch(Jump(c2, "JUMP"), Here(c1)), Op("POP"))
        elif(d, b) == LET cond == CExpr(d, b.c) IN SkipEnd(cond, InScope(SkipUnless(cond), b.body))
        c4 == FoldLeft(elif, c3, e.elifs)
    IN Patch(IF e.else # None THEN InScope(c4, e.else) ELSE c4, Here(c2))

EnterLoop(c) ==
    [c EXCEPT !.tryAtLoop = c.tryDepth, !.loopStart = Here(c), !.loopDepth = @ + 1]
\* The breaks of the loop land here; the state of the enclosing loop returns.
LeaveLoop(c, outer) ==
    [PatchAll(c, SubSeq(c.breaks, Len(outer.breaks) + 1, Len(c.breaks)))
       EXCEPT !.loopStart = outer.loopStart, !.loopDepth = outer.loopDepth,
              !.breaks = outer.breaks, !.tryAtLoop = outer.tryAtLoop]

CWhile(c, e) ==
    LET c1 == EnterLoop(Predeclares(c, <<e.c, e.body>>))
        c2 == CExpr(c1, e.c)
        c3 == InScope(Emit(Jump(c2, "JUMP_IF_FALSE"), Op("POP")), e.body)
        c4 == Emit(Patch(Loop(c3, c1.loopStart), Here(c2)), Op("POP"))
    IN LeaveLoop(c4, c)

\* The slot of a loop variable, 255 when it is a variable of an enclosing
\* function (the -1 of resolve_local as a byte).
LoopVarSlot(c, name) == IF Slot(c, name) = -1 THEN 255 ELSE Slot(c, name)

CFor(c, e) ==
    LET c1 == FoldLeft(ReserveLoopVar, Predeclare(c, e.body), e.vars)
        slots == [v \in 1 .. Len(e.vars) |-> LoopVarSlot(c1, e.vars[v])]
        c2 == AddLocal(Emit(CExpr(Scope(c1), e.it), Op("GET_ITER")), "__iter")
        iter == NextSlot(c2) - 1
        c3 == EnterLoop(AddLocal(Emit(c2, OpN("PUSH_INT", 0)), "__idx"))
        part(v) == IF Len(slots) = 1 THEN <<>> ELSE <<OpN("PUSH_INT", v - 1), Op("GET_INDEX")>>
        fetch == FlattenSeq([v \in 1 .. Len(slots) |->
                    IterElement(iter, iter + 1) \o part(v) \o StorePop(slots[v])])
        c4 == InScope(Emits(IterHead(c3, iter, iter + 1), fetch \o IterAdvance(iter + 1)),
                      e.body)
        c5 == Patch(Loop(c4, c3.loopStart), c3.loopStart + 7)
    IN ScopeEnd(LeaveLoop(c5, c))

\* The decorators apply from the last to the first.
CFuncDef(c, e) ==
    LET decorate(d, x) == Emit(StoreVar(Emit(LoadVar(CExpr(d, x), e.name), OpN("CALL", 1)),
                                        e.name), Op("POP"))
    IN FoldLeft(decorate, Define(CFunction(c, e), e.name), Reverse(e.decorators))

\* A method: self is slot 0 whether the parameter is written or not, and the
\* initialiser returns it.
CMethod(c, m) ==
    LET init == m.name \in {"init", "__init__"}
        name == IF init THEN "init" ELSE m.name
        params == IF m.params # <<>> /\ Head(m.params) = "self" THEN Tail(m.params)
                  ELSE m.params
        kind == CASE init -> "init" [] ~init /\ m.isAsync -> "async" [] OTHER -> "method"
        d == CNode(BeginFunction(c, kind, name, params), m.body)
    IN Emit(EndFunction(IF init THEN Emits(d, <<OpN("LOAD_LOCAL", 0), Op("RETURN")>>) ELSE d),
            OpS("METHOD", name))
CMethods(c, body) ==
    FoldLeft(CMethod, c, SelectSeq(body.ss, LAMBDA s : s.k = "func"))

\* The initialiser a struct and an enum get: it stores its arguments.
CAutoInit(c, fields) ==
    LET store == [i \in 1 .. Len(fields) |-> <<OpN("LOAD_LOCAL", 0), OpN("LOAD_LOCAL", i),
                                               OpS("SET_ATTR", fields[i])>>]
    IN Emit(EndFunction(Emits(BeginFunction(c, "init", "init", fields),
                              FlattenSeq(store) \o <<OpN("LOAD_LOCAL", 0), Op("RETURN")>>)),
            OpS("METHOD", "init"))

NewClass(c, name) == Define(Emit(c, OpS("CLASS", name)), name)

CClass(c, e) ==
    LET c1 == NewClass(c, e.name)
        c2 == IF e.super = "" THEN c1
              ELSE Emit(LoadVar(LoadVar(c1, e.super), e.name), Op("INHERIT"))
        c3 == [LoadVar(c2, e.name) EXCEPT !.classes = Append(@, e.super)]
    IN [Emit(CMethods(c3, e.body), Op("POP")) EXCEPT !.classes = c.classes]

\* The fields of a struct: its let statements and its bare names.
IsField(s) == s.k = "let" \/ (s.k = "expr" /\ s.e.k = "ident")
FieldName(s) == IF s.k = "let" THEN s.name ELSE s.e.name
CStruct(c, e) ==
    LET fs == SelectSeq(e.body.ss, IsField)
        fields == [i \in 1 .. Len(fs) |-> FieldName(fs[i])]
        c1 == Emit(LoadVar(NewClass(c, e.name), e.name), Op("MARK_STRUCT"))
    IN Emit(CMethods(IF fields = <<>> THEN c1 ELSE CAutoInit(c1, fields), e.body), Op("POP"))

\* A member is an instance of the class, which is sealed afterwards.
CEnum(c, e) ==
    LET c1 == CAutoInit(LoadVar(NewClass(c, e.name), e.name), <<"name", "value">>)
        value(d, i) == IF e.vals[i] = None THEN Emit(d, OpN("PUSH_INT", i - 1))
                       ELSE CExpr(d, e.vals[i])
        member(d, i) == Emits(value(Emit(LoadVar(d, e.name), OpS("PUSH_STRING", e.members[i])), i),
                              <<OpN("CALL", 2), OpS("METHOD", e.members[i])>>)
    IN Emits(FoldLeft(member, c1, [i \in 1 .. Len(e.members) |-> i]),
             <<Op("MARK_ENUM"), Op("POP")>>)

CImport(c, e) ==
    DefineGlobal(Emit(c, OpS("IMPORT", e.mod)), IF e.alias = "" THEN e.mod ELSE e.alias)
CFromImport(c, e) ==
    LET bind(d, i) == DefineGlobal(Emits(d, <<Op("DUP"), OpS("GET_ATTR", e.names[i])>>),
                                   IF e.aliases[i] = "" THEN e.names[i] ELSE e.aliases[i])
        c1 == Emit(c, OpS("IMPORT", e.mod))
    IN IF e.names = <<"*">> THEN Emit(c1, Op("IMPORT_STAR"))
       ELSE Emit(FoldLeft(bind, c1, [i \in 1 .. Len(e.names) |-> i]), Op("POP"))

CLet(c, e) ==
    LET d == Define(CExpr(c, e.e), e.name) IN
    IF Depth(c) = 0
    THEN IF e.isConst THEN [d EXCEPT !.constGlobals = @ \union {e.name}] ELSE d
    ELSE [d EXCEPT !.frames[Len(d.frames)].locals[NextSlot(d)].const = e.isConst]

CNonlocal(c, names) ==
    LET declare(d, name) ==
            LET d1 == [d EXCEPT !.frames[Len(d.frames)].nonlocals = @ \union {name}]
                u == Upvalue(d1, name)
            IN IF u.up = -1 /\ ~HasGlobal(d1, name) THEN Error(d1) ELSE u.c
    IN IF IsScript(c) THEN Error(c) ELSE FoldLeft(declare, c, names)

(* --------------------------------- match --------------------------------- *)

\* One test of the subject: the jump at Here - 2 is taken when it fails and
\* leaves the false value on the stack.
FailTest(c) == Emit(Jump(c, "JUMP_IF_FALSE"), Op("POP"))
Tested(c) == [c |-> FailTest(c), fails |-> <<Here(c)>>]

CSubject(c, subj) == Emit(c, OpN("LOAD_LOCAL", subj))
TestOp(c, subj, op, e) == Tested(Emit(CExpr(CSubject(c, subj), e), OpS("BINARY", op)))
TestType(c, subj, t) == Tested(Emit(LoadVar(CSubject(c, subj), t), Op("ISINSTANCE")))

\* All alternatives but the last jump to the body when they match.
TestOr(c, subj, ps) ==
    LET try(r, p) ==
            LET d == TestOp(r.c, subj, "==", p).c
            IN [c |-> Emit(Patch(Jump(d, "JUMP"), Here(d) - 2), Op("POP")),
                to |-> Append(r.to, Here(d))]
        r == FoldLeft(try, [c |-> c, to |-> <<>>], SubSeq(ps, 1, Len(ps) - 1))
        last == TestOp(r.c, subj, "==", ps[Len(ps)])
    IN [last EXCEPT !.c = PatchAll(@, r.to)]

\* name(field, ...) binds the fields of an instance of the type.
Destructs(p) ==
    p.k = "call" /\ p.f.k = "ident" /\ p.args # <<>>
    /\ \A i \in 1 .. Len(p.args) : p.args[i].k = "ident"

TestPattern(c, subj, p) ==
    CASE p.k = "pat_or" -> TestOr(c, subj, p.ps)
      [] p.k = "pat_range" ->
           LET low == TestOp(c, subj, ">=", p.lo)
               high == TestOp(low.c, subj, "<=", p.hi)
           IN [high EXCEPT !.fails = low.fails \o @]
      [] p.k = "pat_type" -> TestType(c, subj, p.t)
      [] OTHER -> TestOp(c, subj, "==", p)

Guard(c, guard) ==
    IF guard = None THEN [c |-> c, fails |-> <<>>] ELSE Tested(CExpr(c, guard))

\* Each failure pops the value its test left and its locals, and they join.
FailLadder(c, fails) ==
    LET land(r, i) ==
            LET pops == [k \in 1 .. fails[i].locals + 1 |-> Op("POP")]
                d == Emits(Patch(r.c, fails[i].at), pops)
            IN IF i = Len(fails) THEN [r EXCEPT !.c = PatchAll(d, r.skips)]
               ELSE [c |-> Jump(d, "JUMP"), skips |-> Append(r.skips, Here(d))]
    IN FoldLeft(land, [c |-> c, skips |-> <<>>], [i \in 1 .. Len(fails) |-> i]).c
Fails(ats, n) == [i \in 1 .. Len(ats) |-> [at |-> ats[i], locals |-> n]]

\* An arm: test, bindings, guard, body, jump to the end of the statement and
\* the landing of what failed.  The result carries the jump.
EndArm(c, fails) == [c |-> FailLadder(Jump(c, "JUMP"), fails), end |-> Here(c)]

PlainArm(g, body, fails) == EndArm(InScope(g.c, body), Fails(g.fails \o fails, 0))

\* The bindings of a destructuring go on top of those of the arm.
FieldsArm(g, body, n, fails) ==
    EndArm(ScopeEnd(CNode(g.c, body)), Fails(g.fails, n) \o Fails(fails, 0))

\* A name for the subject is on the stack when the test and the guard fail.
NamedArm(d, fails) ==
    [c |-> Emits(PatchAll(Jump(d, "JUMP"), fails), <<Op("POP"), Op("POP")>>), end |-> Here(d)]

CArm(c, subj, arm) ==
    LET p == arm.pat
        bind(d, a) == AddLocal(Emit(CSubject(d, subj), OpS("GET_ATTR", a.name)), a.name)
        fields(t) == FieldsArm(Guard(FoldLeft(bind, Scope(t.c), p.args), arm.guard),
                               arm.body, Len(p.args), t.fails)
        named(b) == LET g == Guard(b.c, arm.guard)
                    IN NamedArm(ScopeEnd(CNode(g.c, arm.body)), g.fails \o b.fails)
        plain(t) == PlainArm(Guard(t.c, arm.guard), arm.body, t.fails)
    IN CASE Destructs(p) -> fields(TestType(c, subj, p.f.name))
         [] p.k = "pat_bind" ->
              named(TestPattern(AddLocal(CSubject(Scope(c), subj), p.name), subj, p.p))
         [] OTHER -> plain(TestPattern(c, subj, p))

CWild(c, e) ==
    LET wild(d) == InScope(d, e.wild)
        cond == CExpr(c, e.wildGuard)
    IN
    CASE e.wild = None -> c
      [] e.wild # None /\ e.wildGuard = None -> wild(c)
      [] OTHER -> SkipEnd(cond, wild(SkipUnless(cond)))

\* The arms of the match statement e on the subject on top.
CArms(c, e) ==
    LET add(r, x) == [c |-> x.c, ends |-> Append(r.ends, x.end)]
        arm(r, a) == IF r.c.err THEN r ELSE add(r, CArm(r.c, NextSlot(c) - 1, a))
        finish(r) == PatchAll(CWild(r.c, e), r.ends)
    IN finish(FoldLeft(arm, [c |-> c, ends |-> <<>>], e.arms))
CMatch(c, e) == ScopeEnd(CArms(AddLocal(CExpr(Scope(c), e.e), "__match__"), e))

(* --------------------------- the whole program --------------------------- *)

\* compile_node: every statement leaves the stack as it was, but for the
\* slots of the locals it declares.
NodeCode(c, e) ==
    CASE c.err \/ e.k \in {"none", "pass"} -> c
      [] ~c.err /\ e.k = "block" -> FoldLeft(CNode, c, e.ss)
      [] ~c.err /\ e.k = "expr" -> Emit(CExpr(c, e.e), Op("POP"))
      [] ~c.err /\ e.k = "return" -> CReturn(c, e.e)
      [] ~c.err /\ e.k = "yield" ->
           [Emit(OrNull(c, e.e), Op("YIELD")) EXCEPT !.frames[Len(c.frames)].hasYield = TRUE]
      [] ~c.err /\ e.k = "raise" -> CRaise(c, e.e)
      [] ~c.err /\ e.k = "try" -> CTry(c, e)
      [] ~c.err /\ e.k = "break" -> CBreak(c)
      [] ~c.err /\ e.k = "continue" -> CContinue(c)
      [] ~c.err /\ e.k = "if" -> CIf(c, e)
      [] ~c.err /\ e.k = "while" -> CWhile(c, e)
      [] ~c.err /\ e.k = "for" -> CFor(c, e)
      [] ~c.err /\ e.k = "func" -> CFuncDef(c, e)
      [] ~c.err /\ e.k = "class" -> CClass(c, e)
      [] ~c.err /\ e.k = "struct" -> CStruct(c, e)
      [] ~c.err /\ e.k = "enum" -> CEnum(c, e)
      [] ~c.err /\ e.k = "import" -> CImport(c, e)
      [] ~c.err /\ e.k = "from" -> CFromImport(c, e)
      [] ~c.err /\ e.k = "let" -> CLet(c, e)
      [] ~c.err /\ e.k = "with" -> CWith(c, e)
      [] ~c.err /\ e.k = "match" -> CMatch(c, e)
      [] ~c.err /\ e.k = "nonlocal" -> CNonlocal(c, e.names)
      [] OTHER -> Emit(CExpr(c, e), Op("POP"))

Visit(c, what, e) ==
    CASE what = "expr" -> ExprCode(c, e)
      [] what = "node" -> NodeCode(c, e)
      [] what = "predeclare" -> Predeclared(c, e)

CompilerInit ==
    [frames |-> <<[name |-> "", kind |-> "script", code |-> <<>>, depth |-> 0,
                   locals |-> <<[name |-> "", depth |-> 0, captured |-> FALSE,
                                 const |-> FALSE]>>,
                   ups |-> <<>>, nonlocals |-> {}, arity |-> 0, hasYield |-> FALSE]>>,
     fns |-> <<>>, globals |-> {}, constGlobals |-> {}, classes |-> <<>>,
     loopStart |-> 0, loopDepth |-> 0, breaks |-> <<>>,
     tries |-> <<>>, tryDepth |-> 0, tryAtLoop |-> 0, excSlot |-> -1, err |-> FALSE]

\* compiler_compile: each statement of the module is compiled with CNode; then
\* the functions of the program, the script last, or None.
Finish(c) ==
    IF c.err THEN None
    ELSE [k |-> "code",
          fns |-> Append(c.fns, [name |-> "", arity |-> 0,
                                 code |-> Cur(c).code \o <<Op("PUSH_NULL"), Op("RETURN")>>,
                                 ups |-> <<>>, isAsync |-> FALSE, isGen |-> FALSE])]
=============================================================================
