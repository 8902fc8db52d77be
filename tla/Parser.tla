------------------------------- MODULE Parser -------------------------------
(* The recursive-descent parser (parser.c) as operators over a sequence of  *)
(* tokens that ends with "eof".  Each takes the position of the current     *)
(* token and returns the node it parsed (n) and the position after it (i).  *)
(* A syntax error is position 0: nothing matches there, so it is passed on. *)
(* The recovery that only finds more errors (synchronize, skip_to_eol,      *)
(* skip_orphan_block) is left out: a program with an error is never run.    *)
EXTENDS Ast

At(n, i) == [n |-> n, i |-> i]
Fail == At(None, 0)

\* check, match and consume.
K(t, i) == IF i = 0 THEN "fail" ELSE IF i > Len(t) THEN "eof" ELSE t[i].k
Opt(t, i, k) == IF K(t, i) = k THEN i + 1 ELSE i
Eat(t, i, k) == IF K(t, i) = k THEN i + 1 ELSE 0
EatAll(t, i, ks) ==
    IF \A j \in 1 .. Len(ks) : K(t, i + j - 1) = ks[j] /\ i # 0
    THEN i + Len(ks) ELSE 0

\* The name at i, as consume(TOK_IDENT) leaves it in previous.
NameAt(t, i) == IF K(t, i) = "ident" THEN t[i].v ELSE K(t, i)

RECURSIVE SkipNewlines(_, _), DottedType(_, _), GenericType(_, _, _)
SkipNewlines(t, i) ==
    IF K(t, i) = "newline" THEN SkipNewlines(t, i + 1) ELSE i

\* skip_type_annotation: a name with a dotted path, generic parameters up to
\* the matching '>' or the end of the line, and '?'.
DottedType(t, i) ==
    IF K(t, i) = "." /\ K(t, i + 1) = "ident" THEN DottedType(t, i + 2) ELSE i

GenericType(t, i, depth) ==
    IF depth = 0 \/ K(t, i) \in {"eof", "newline", "fail"} THEN i
    ELSE GenericType(t, i + 1, CASE K(t, i) = "<" -> depth + 1
                                 [] K(t, i) = ">" -> depth - 1
                                 [] OTHER -> depth)

SkipType(t, i) ==
    IF K(t, i) \notin NameKeywords \union {"ident"} THEN i
    ELSE LET j == DottedType(t, i + 1) IN
         Opt(t, IF K(t, j) = "<" THEN GenericType(t, j + 1, 1) ELSE j, "?")

OptType(t, i, mark) == IF K(t, i) = mark THEN SkipType(t, i + 1) ELSE i

\* The rules call each other through Rule, which is at the end: x is the
\* level of a binary operator, the token that closes a list, or the statements
\* of the block so far.
RECURSIVE Rule(_, _, _, _)
Expr(t, i) == Rule("expr", t, i, 0)
TernaryFrom(t, i) == Rule("ternary", t, i, 0)
Level(t, i, lv) == Rule("level", t, i, lv)
Unaries(t, i) == Rule("unary", t, i, 0)
Powers(t, i) == Rule("power", t, i, 0)
Primary(t, i) == Rule("primary", t, i, 0)
PatternBase(t, i) == Rule("pattern base", t, i, 0)
Pattern(t, i) == Rule("pattern", t, i, 0)
BlockOf(t, i) == Rule("block", t, i, 0)
Statement(t, i) == Rule("statement", t, i, 0)
Statements(t, i, ss) == Rule("statements", t, i, ss)
Params(t, i, close) == Rule("params", t, i, close)
Items(t, i, close) == Rule("items", t, i, close)
Arms(t, i) == Rule("arms", t, i, 0)

RECURSIVE PipelineFrom(_, _), Chain(_, _, _), Postfix(_, _), Climb(_, _, _, _), Pairs(_, _),
          Alternatives(_, _), Elifs(_, _),
          NameList(_, _), DottedName(_, _, _), ImportList(_, _), Members(_, _),
          DecoratorList(_, _), SkipOrphan(_, _, _)

(* ------------------------------ expressions ------------------------------ *)

\* A list of expressions up to the token close, newlines after '(' and ','
\* skipped.
ItemsRule(t, i, close) ==
    IF K(t, i) \in {close, "eof", "fail"} THEN At(<<>>, i)
    ELSE LET e == Expr(t, i) IN
         IF K(t, e.i) # "," THEN At(<<e.n>>, e.i)
         ELSE LET rest == Items(t, SkipNewlines(t, e.i + 1), close)
              IN At(<<e.n>> \o rest.n, rest.i)

\* key : value pairs up to '}'.
Pairs(t, i) ==
    IF K(t, i) \in {"}", "eof", "fail"} THEN At(<<>>, i)
    ELSE LET key == Expr(t, i)
             val == Expr(t, Eat(t, key.i, ":"))
             pair == <<[key |-> key.n, val |-> val.n]>>
         IN IF K(t, val.i) # "," THEN At(pair, val.i)
            ELSE LET rest == Pairs(t, SkipNewlines(t, val.i + 1))
                 IN At(pair \o rest.n, rest.i)

\* "for var in iterable [if cond]" up to close.
CompTail(t, i, close) ==
    LET it == Expr(t, EatAll(t, i, <<"for", "ident", "in">>))
        cond == IF K(t, it.i) = "if" THEN Expr(t, it.i + 1) ELSE At(None, it.i)
    IN At([var |-> NameAt(t, i + 1), it |-> it.n, cond |-> cond.n],
          Eat(t, cond.i, close))

ListLiteral(t, i) ==
    LET j == SkipNewlines(t, i)
        first == Expr(t, j)
        items == Items(t, j, "]")
    IN IF K(t, j) = "]" THEN At(List(<<>>), j + 1)
       ELSE IF K(t, first.i) = "for"
       THEN LET c == CompTail(t, first.i, "]")
            IN At(ListComp(first.n, c.n.var, c.n.it, c.n.cond), c.i)
       ELSE At(List(items.n), Eat(t, SkipNewlines(t, items.i), "]"))

DictLiteral(t, i) ==
    LET j == SkipNewlines(t, i)
        key == Expr(t, j)
        val == Expr(t, Eat(t, key.i, ":"))
        pairs == Pairs(t, j)
    IN IF K(t, j) = "}" THEN At(Dict(<<>>, <<>>), j + 1)
       ELSE IF K(t, val.i) = "for"
       THEN LET c == CompTail(t, val.i, "}")
            IN At(DictComp(key.n, val.n, c.n.var, c.n.it, c.n.cond), c.i)
       ELSE At(Dict([m \in 1 .. Len(pairs.n) |-> pairs.n[m].key],
                    [m \in 1 .. Len(pairs.n) |-> pairs.n[m].val]),
               Eat(t, SkipNewlines(t, pairs.i), "}"))

\* parse_block: NEWLINE INDENT statements DEDENT.
BlockRule(t, i) ==
    LET b == Statements(t, EatAll(t, i, <<"newline", "indent">>), <<>>)
    IN At(Block(b.n), Eat(t, b.i, "dedent"))

\* Parameters: name [: type] [= default], the default parsed and left alone
\* by the compiler.  Lambda parameters have neither self nor a default.
ParamsRule(t, i, close) ==
    IF K(t, i) \in {close, "eof"} THEN At(<<>>, i)
    ELSE IF K(t, i) \notin IF close = ")" THEN {"ident", "self", "super"} ELSE {"ident"}
    THEN At(<<>>, 0)
    ELSE LET j == OptType(t, i + 1, ":")
             k == IF close = ")" /\ K(t, j) = "=" THEN Expr(t, j + 1).i ELSE j
             rest == Params(t, k + 1, close)
         IN IF K(t, k) = "," THEN At(<<NameAt(t, i)>> \o rest.n, rest.i)
            ELSE At(<<NameAt(t, i)>>, k)

\* A lambda, after its first '|': the body is an expression, or a block
\* after ':'.
LambdaAfter(t, i) ==
    LET ps == Params(t, i, "|")
        j == EatAll(t, ps.i, <<"|", "=>">>)
        body == IF K(t, j) = ":" THEN BlockOf(t, j + 1) ELSE Expr(t, j)
    IN At(Lambda(ps.n, body.n), body.i)

\* parse_fstring: each {...} part is lexed and parsed on its own, so leading
\* blanks (cols) are an INDENT; what follows the expression is not looked at.
FstringOf(parts) ==
    LET part(p) ==
          IF p.toks = <<>> THEN At(Str(p.lit), 1)
          ELSE Expr((IF p.cols > 0 THEN <<Word("indent")>> ELSE <<>>) \o p.toks, 1)
    IN IF \E m \in 1 .. Len(parts) : part(parts[m]).i = 0 THEN Fail
       ELSE At(Fstring([m \in 1 .. Len(parts) |-> part(parts[m]).n]), 1)

PrimaryRule(t, i) ==
    LET k == K(t, i) IN
    CASE k = "|" -> LambdaAfter(t, i + 1)
      [] k = "int" -> At(Num(t[i].n), i + 1)
      [] k = "string" -> At(Str(t[i].v), i + 1)
      [] k = "fstring" -> LET f == FstringOf(t[i].p)
                          IN At(f.n, IF f.i = 0 THEN 0 ELSE i + 1)
      [] k \in {"true", "false"} -> At(Bool(k = "true"), i + 1)
      [] k = "null" -> At(Null, i + 1)
      [] k \in {"ident", "self", "super"} -> At(Ident(NameAt(t, i)), i + 1)
      [] k = "(" -> LET e == Expr(t, i + 1) IN At(e.n, Eat(t, e.i, ")"))
      [] k = "[" -> ListLiteral(t, i + 1)
      [] k = "{" -> DictLiteral(t, i + 1)
      [] OTHER -> Fail

\* a[i], and a[lo:hi:step] with any part missing, after the '['.
Subscript(t, o, i) ==
    LET lo == IF K(t, i) = ":" THEN At(None, i) ELSE Expr(t, i)
        hi == IF K(t, lo.i + 1) \in {"]", ":"} THEN At(None, lo.i + 1)
              ELSE Expr(t, lo.i + 1)
        step == IF K(t, hi.i) # ":" THEN At(None, hi.i)
                ELSE IF K(t, hi.i + 1) = "]" THEN At(None, hi.i + 1)
                ELSE Expr(t, hi.i + 1)
    IN IF K(t, lo.i) = ":"
       THEN At(Slice(o, lo.n, hi.n, step.n), Eat(t, step.i, "]"))
       ELSE At(Index(o, lo.n), Eat(t, lo.i, "]"))

\* The calls, subscripts and attributes after a primary l.
Postfix(t, l) ==
    CASE K(t, l.i) = "(" ->
           LET args == Items(t, SkipNewlines(t, l.i + 1), ")")
           IN Postfix(t, At(Call(l.n, args.n),
                            Eat(t, SkipNewlines(t, args.i), ")")))
      [] K(t, l.i) = "[" -> Postfix(t, Subscript(t, l.n, l.i + 1))
      [] K(t, l.i) = "." ->
           IF K(t, l.i + 1) \in NameKeywords \union {"ident"}
           THEN Postfix(t, At(Attr(l.n, NameAt(t, l.i + 1)), l.i + 2))
           ELSE Fail
      [] OTHER -> l

\* ** is right-associative and its right side no unary.
PowerRule(t, i) ==
    LET base == Postfix(t, Primary(t, i))
        exp == Powers(t, base.i + 1)
    IN IF K(t, base.i) = "**" THEN At(Binary("**", base.n, exp.n), exp.i) ELSE base

UnaryRule(t, i) ==
    LET e == Unaries(t, i + 1) IN
    CASE K(t, i) \in {"-", "~", "not"} -> At(Unary(K(t, i), e.n), e.i)
      [] K(t, i) = "await" -> At(Await(e.n), e.i)
      [] K(t, i) = "spawn" -> At(Spawn(e.n), e.i)
      [] OTHER -> Powers(t, i)

\* The left-associative levels, loosest first; the prefix not sits between
\* and and the comparisons.
Levels == <<{"or"}, {"and"}, {"==", "!=", "<", "<=", ">", ">=", "is"},
            {"|"}, {"^"}, {"&"}, {"<<", ">>"}, {"+", "-"}, {"*", "/", "//", "%"}>>
NotLevel == 3
BitxorLevel == 5

\* As Chain, but a - b - c is a - (b - c).
ChainRight(t, l, lv) ==
    LET r == Level(t, l.i + 1, lv)
    IN IF K(t, l.i) \notin Levels[lv] THEN l ELSE At(Binary(K(t, l.i), l.n, r.n), r.i)

Chain(t, l, lv) ==
    IF K(t, l.i) \notin Levels[lv] THEN l
    ELSE LET r == Level(t, l.i + 1, lv + 1)
         IN Chain(t, At(Binary(K(t, l.i), l.n, r.n), r.i), lv)

\* The operators from level k out to level lv around l.
Climb(t, l, k, lv) ==
    CASE k < lv -> l
      [] k >= lv /\ K(t, l.i) \in Levels[k] -> Climb(t, Chain(t, l, k), k - 1, lv)
      [] OTHER -> Climb(t, l, k - 1, lv)

\* An expression of level lv.  Its first operand is parsed at the innermost
\* level, or is a not with a comparison.
LevelRule(t, i, lv) ==
    LET e == Level(t, i + 1, NotLevel) IN
    IF lv <= NotLevel /\ K(t, i) = "not"
    THEN Climb(t, At(Unary("not", e.n), e.i), NotLevel - 1, lv)
    ELSE Climb(t, Unaries(t, i), Len(Levels), lv)

\* |> may also start the next line.
PipelineFrom(t, l) ==
    LET j == Opt(t, l.i, "newline")
        r == Level(t, j + 1, 1)
    IN IF K(t, j) # "|>" THEN l ELSE PipelineFrom(t, At(Pipe(l.n, r.n), r.i))

TernaryRule(t, i) ==
    LET c == PipelineFrom(t, Level(t, i, 1))
        then == TernaryFrom(t, c.i + 1)
        else == TernaryFrom(t, Eat(t, then.i, ":"))
    IN IF K(t, c.i) # "?" THEN c
       ELSE At(Ternary(c.n, then.n, else.n), IF then.i = 0 THEN 0 ELSE else.i)

AugOps == {"+=", "-=", "*=", "/=", "%=", "**=", "//=", "&=", "|=", "^=", "<<=", ">>="}

\* parse_expr: the assignments, all right-associative.  Any expression may
\* stand to the left of '='.
ExprRule(t, i) ==
    LET l == TernaryFrom(t, i)
        r == Expr(t, l.i + 1)
    IN CASE K(t, l.i) = ":=" /\ l.n.k = "ident" -> At(Walrus(l.n.name, r.n), r.i)
         [] K(t, l.i) = "=" -> At(Assign(l.n, r.n), r.i)
         [] K(t, l.i) \in AugOps -> At(Aug(K(t, l.i), l.n, r.n), r.i)
         [] OTHER -> l

(* ------------------------------- patterns -------------------------------- *)

\* parse_pattern_base: the sub-expressions stop before '|'.
PatternBaseRule(t, i) ==
    LET lo == Level(t, i, BitxorLevel)
        hi == Level(t, lo.i + 1, BitxorLevel)
        sub == Pattern(t, lo.i + 1)
    IN CASE K(t, i) = "is" -> At(PatType(NameAt(t, i + 1)), Eat(t, i + 1, "ident"))
         [] K(t, i) # "is" /\ K(t, lo.i) = ".." -> At(PatRange(lo.n, hi.n), hi.i)
         [] K(t, i) # "is" /\ K(t, lo.i) = "as" /\ lo.n.k = "ident" ->
              At(PatBind(lo.n.name, sub.n), sub.i)
         [] OTHER -> lo

Alternatives(t, i) ==
    IF K(t, i) # "|" THEN At(<<>>, i)
    ELSE LET p == PatternBase(t, i + 1)
             rest == Alternatives(t, p.i)
         IN At(<<p.n>> \o rest.n, rest.i)

PatternRule(t, i) ==
    LET p == PatternBase(t, i)
        alts == Alternatives(t, p.i)
    IN IF alts.n = <<>> THEN p ELSE At(PatOr(<<p.n>> \o alts.n), alts.i)

\* One arm: [case] pattern [if guard] : block, and "_" for the wildcard.
OneArm(t, i) ==
    LET j == IF NameAt(t, i) = "case" THEN i + 1 ELSE i
        wild == NameAt(t, j) = "_"
        pat == IF wild THEN At(None, j + 1) ELSE Pattern(t, j)
        guard == IF K(t, pat.i) = "if" THEN Expr(t, pat.i + 1) ELSE At(None, pat.i)
        body == BlockOf(t, Eat(t, guard.i, ":"))
    IN [wild |-> wild, arm |-> Arm(pat.n, guard.n, body.n),
        i |-> SkipNewlines(t, body.i)]

\* The wildcard ends the arms.
ArmsRule(t, i) ==
    LET j == SkipNewlines(t, i)
        a == OneArm(t, j)
        rest == Arms(t, a.i)
    IN CASE K(t, j) \in {"dedent", "eof", "fail"} ->
              At([arms |-> <<>>, wild |-> None, guard |-> None], j)
         [] a.wild -> At([arms |-> <<>>, wild |-> a.arm.body, guard |-> a.arm.guard], a.i)
         [] OTHER -> At([rest.n EXCEPT !.arms = <<a.arm>> \o @], rest.i)

(* ------------------------------ statements ------------------------------- *)

Commas(t, i, e) == IF K(t, i) = "," THEN e ELSE At(<<>>, i)

NameList(t, i) ==
    LET j == Eat(t, i, "ident")
        rest == Commas(t, j, NameList(t, j + 1))
    IN At(<<NameAt(t, i)>> \o rest.n, rest.i)

\* The module name so far and ".name" after it; a last dot is dropped.
DottedName(t, i, name) ==
    CASE K(t, i) = "." /\ K(t, i + 1) = "ident" ->
            DottedName(t, i + 2, name \o "." \o NameAt(t, i + 1))
      [] K(t, i) = "." /\ K(t, i + 1) # "ident" -> At(name, i + 1)
      [] OTHER -> At(name, i)

FuncDefAfter(t, i, isAsync, decorators) ==
    LET ps == Params(t, EatAll(t, i, <<"ident", "(">>), ")")
        j == OptType(t, Eat(t, ps.i, ")"), "->")
        body == BlockOf(t, Eat(t, j, ":"))
    IN At(FuncDef(NameAt(t, i), ps.n, body.n, isAsync, decorators), body.i)

ClassAfter(t, i) ==
    LET j == Eat(t, i, "ident")
        super == IF K(t, j) = "(" THEN NameAt(t, j + 1) ELSE ""
        k == IF K(t, j) = "(" THEN EatAll(t, j, <<"(", "ident", ")">>) ELSE j
        body == BlockOf(t, Eat(t, k, ":"))
    IN At(ClassDef(NameAt(t, i), super, body.n), body.i)

StructAfter(t, i) ==
    LET body == BlockOf(t, EatAll(t, i, <<"ident", ":">>))
    IN At(StructDef(NameAt(t, i), body.n), body.i)

Members(t, i) ==
    LET j == SkipNewlines(t, i)
        v == IF K(t, j + 1) = "=" THEN Expr(t, j + 2) ELSE At(None, j + 1)
        rest == Members(t, v.i)
    IN CASE K(t, j) \in {"dedent", "eof", "fail"} -> At([names |-> <<>>, vals |-> <<>>], j)
         [] K(t, j) = "ident" ->
              At([names |-> <<NameAt(t, j)>> \o rest.n.names,
                  vals |-> <<v.n>> \o rest.n.vals], rest.i)
         [] OTHER -> At([names |-> <<>>, vals |-> <<>>], 0)

EnumAfter(t, i) ==
    LET ms == Members(t, EatAll(t, i, <<"ident", ":", "newline", "indent">>))
    IN At(EnumDef(NameAt(t, i), ms.n.names, ms.n.vals), Eat(t, ms.i, "dedent"))

LetAfter(t, i, isConst) ==
    LET j == OptType(t, Eat(t, i, "ident"), ":")
        v == IF K(t, j) = "=" THEN Expr(t, j + 1) ELSE At(Null, j)
    IN At(Let(NameAt(t, i), v.n, isConst), v.i)

MatchAfter(t, i) ==
    LET e == Expr(t, i)
        arms == Arms(t, EatAll(t, e.i, <<":", "newline", "indent">>))
    IN At(Match(e.n, arms.n.arms, arms.n.wild, arms.n.guard), Eat(t, arms.i, "dedent"))

\* condition : block, with the newlines after it skipped.
Guarded(t, i) ==
    LET c == Expr(t, i)
        b == BlockOf(t, Eat(t, c.i, ":"))
    IN At([c |-> c.n, body |-> b.n], SkipNewlines(t, b.i))

Elifs(t, i) ==
    IF K(t, i) # "elif" THEN At(<<>>, i)
    ELSE LET g == Guarded(t, i + 1)
             rest == Elifs(t, g.i)
         IN At(<<g.n>> \o rest.n, rest.i)

\* keyword : block if the keyword is there.
Clause(t, i, k) ==
    IF K(t, i) = k THEN BlockOf(t, Eat(t, i + 1, ":")) ELSE At(None, i)

IfAfter(t, i) ==
    LET g == Guarded(t, i)
        elifs == Elifs(t, g.i)
        else == Clause(t, elifs.i, "else")
    IN At(If(g.n.c, g.n.body, elifs.n, else.n), else.i)

WhileAfter(t, i) ==
    LET c == Expr(t, i)
        b == BlockOf(t, Eat(t, c.i, ":"))
    IN At(While(c.n, b.n), b.i)

ForAfter(t, i) ==
    LET vars == NameList(t, i)
        it == Expr(t, Eat(t, vars.i, "in"))
        b == BlockOf(t, Eat(t, it.i, ":"))
    IN At(For(vars.n, it.n, b.n), b.i)

WithAfter(t, i) ==
    LET m == Expr(t, i)
        as == K(t, m.i) = "as"
        b == BlockOf(t, EatAll(t, m.i, IF as THEN <<"as", "ident", ":">> ELSE <<":">>))
    IN At(With(m.n, IF as THEN NameAt(t, m.i + 1) ELSE "", b.n), b.i)

TryAfter(t, i) ==
    LET body == BlockOf(t, Eat(t, i, ":"))
        j == SkipNewlines(t, body.i)
        catch == K(t, j) = "catch"
        hasVar == catch /\ K(t, j + 1) = "ident"
        handler == IF catch THEN BlockOf(t, Eat(t, Opt(t, j + 1, "ident"), ":"))
                   ELSE At(None, j)
        final == Clause(t, SkipNewlines(t, handler.i), "finally")
    IN At(Try(body.n, hasVar, IF hasVar THEN NameAt(t, j + 1) ELSE "",
              handler.n, final.n),
          IF handler.n = None /\ final.n = None THEN 0 ELSE final.i)

\* return, raise and yield: an expression unless the statement ends here.
Operand(t, i, ends) == IF K(t, i) \in ends THEN At(None, i) ELSE Expr(t, i)
Ends == {"newline", "eof", "dedent"}

ImportAfter(t, i) ==
    LET path == DottedName(t, i + 1, NameAt(t, i))
        as == K(t, path.i) = "as"
    IN IF K(t, i) \notin NameKeywords \union {"ident"} THEN Fail
       ELSE At(Import(path.n, IF as THEN NameAt(t, path.i + 1) ELSE ""),
               IF as THEN Eat(t, path.i + 1, "ident") ELSE path.i)

ImportList(t, i) ==
    LET j == Eat(t, i, "ident")
        as == K(t, j) = "as"
        k == IF as THEN Eat(t, j + 1, "ident") ELSE j
        rest == Commas(t, k, ImportList(t, k + 1))
    IN At(<<[name |-> NameAt(t, i), alias |-> IF as THEN NameAt(t, j + 1) ELSE ""]>>
            \o rest.n, rest.i)

FromAfter(t, i) ==
    LET path == DottedName(t, Eat(t, i, "ident"), NameAt(t, i))
        j == Eat(t, path.i, "import")
        items == IF K(t, j) = "*" THEN At(<<[name |-> "*", alias |-> ""]>>, j + 1)
                 ELSE ImportList(t, j)
    IN At(FromImport(path.n,
                     [m \in 1 .. Len(items.n) |-> items.n[m].name],
                     [m \in 1 .. Len(items.n) |-> items.n[m].alias]),
          items.i)

\* @> expression lines, then func or async func.
DecoratorList(t, i) ==
    IF K(t, i) # "@>" THEN At(<<>>, i)
    ELSE LET e == Expr(t, i + 1)
             rest == DecoratorList(t, SkipNewlines(t, e.i))
         IN At(<<e.n>> \o rest.n, rest.i)

Function(t, i, decorators) ==
    CASE K(t, i) = "func" -> FuncDefAfter(t, i + 1, FALSE, decorators)
      [] K(t, i) = "async" -> FuncDefAfter(t, Eat(t, i + 1, "func"), TRUE, decorators)
      [] OTHER -> Fail

\* keyword_suggestion: a word of another language where it looks like a
\* keyword.
ForeignKeywords == {"def", "fun", "method", "function", "proc", "sub", "void",
    "klass", "type", "interface", "trait", "impl", "abstract", "record", "var",
    "val", "auto", "dim", "int", "float", "string", "bool", "include",
    "require", "use", "yield_"}
ForeignUse(t, i) ==
    /\ K(t, i) = "ident"
    /\ t[i].v \in ForeignKeywords
    /\ K(t, i + 1) \in {"ident", "(", ":", "newline", "eof"}

\* parse_stmt without the newline that may follow.
StatementRule(t, i) ==
    LET k == K(t, i)
        ds == DecoratorList(t, i)
        ns == NameList(t, i + 1)
        yields == Operand(t, i + 1, {"newline", "eof"})
        val == Operand(t, i + 1, Ends)
        e == Expr(t, i)
    IN CASE ForeignUse(t, i) -> Fail
         [] k \in {"@>", "func", "async"} -> Function(t, ds.i, ds.n)
         [] k = "class" -> ClassAfter(t, i + 1)
         [] k = "struct" -> StructAfter(t, i + 1)
         [] k = "enum" -> EnumAfter(t, i + 1)
         [] k \in {"let", "const"} -> LetAfter(t, i + 1, k = "const")
         [] k = "match" -> MatchAfter(t, i + 1)
         [] k = "if" -> IfAfter(t, i + 1)
         [] k = "while" -> WhileAfter(t, i + 1)
         [] k = "for" -> ForAfter(t, i + 1)
         [] k = "with" -> WithAfter(t, i + 1)
         [] k = "try" -> TryAfter(t, i + 1)
         [] k = "return" -> At(Return(val.n), val.i)
         [] k = "raise" -> At(Raise(val.n), val.i)
         [] k = "yield" -> At(Yield(yields.n), yields.i)
         [] k = "break" -> At(Break, i + 1)
         [] k = "continue" -> At(Continue, i + 1)
         [] k = "pass" -> At(Pass, i + 1)
         [] k = "nonlocal" -> At(Nonlocal(ns.n), ns.i)
         [] k = "import" -> ImportAfter(t, i + 1)
         [] k = "from" -> FromAfter(t, i + 1)
         [] OTHER -> At(ExprStmt(e.n), e.i)

\* skip_orphan_block: an indented block where none is expected.
SkipOrphan(t, i, depth) ==
    CASE K(t, i) = "eof" -> i
      [] K(t, i) = "indent" -> SkipOrphan(t, i + 1, depth + 1)
      [] K(t, i) = "dedent" ->
           IF depth = 1 THEN i + 1 ELSE SkipOrphan(t, i + 1, depth - 1)
      [] OTHER -> SkipOrphan(t, i + 1, depth)

\* The statements of a block.
StatementsRule(t, i, ss) ==
    LET j == SkipNewlines(t, i)
        s == Statement(t, j)
    IN CASE K(t, j) \in {"dedent", "eof", "fail"} -> At(ss, j)
         [] K(t, j) = "indent" -> Statements(t, SkipOrphan(t, j + 1, 1), ss)
         [] OTHER -> IF s.i = 0 THEN Fail
                     ELSE Statements(t, Opt(t, s.i, "newline"), Append(ss, s.n))

Rule(what, t, i, x) ==
    CASE what = "expr" -> ExprRule(t, i)
      [] what = "ternary" -> TernaryRule(t, i)
      [] what = "level" -> LevelRule(t, i, x)
      [] what = "unary" -> UnaryRule(t, i)
      [] what = "power" -> PowerRule(t, i)
      [] what = "primary" -> PrimaryRule(t, i)
      [] what = "pattern base" -> PatternBaseRule(t, i)
      [] what = "pattern" -> PatternRule(t, i)
      [] what = "block" -> BlockRule(t, i)
      [] what = "statement" -> StatementRule(t, i)
      [] what = "statements" -> StatementsRule(t, i, x)
      [] what = "params" -> ParamsRule(t, i, x)
      [] what = "items" -> ItemsRule(t, i, x)
      [] what = "arms" -> ArmsRule(t, i)

\* parser_parse: the module so far is in p.n, the current token is p.i.  INDENT
\* and DEDENT are passed over between the statements of a module.
ParserInit == At(<<>>, 1)
AtEnd(t, p) == K(t, p.i) \in {"eof", "fail"}
ParseNext(t, p) ==
    LET s == Statement(t, p.i) IN
    CASE K(t, p.i) \in {"newline", "indent", "dedent"} -> At(p.n, p.i + 1)
      [] OTHER -> At(Append(p.n, s.n), s.i)

\* had_error is set.
Refused(t, p) == p.i = 0 \/ \E j \in DOMAIN t : t[j].k = "error"
=============================================================================
