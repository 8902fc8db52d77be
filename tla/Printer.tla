------------------------------ MODULE Printer ------------------------------
(* The text of a program: the lines of tokens that someone who knows the     *)
(* grammar and the precedences (docs/03-language-basics.md, the table of     *)
(* docs/35-internals-compiler.md, the tests) would write for a syntax tree,  *)
(* with no parentheses but the needed ones.  Where the documents disagree,   *)
(* as on the ternary, it writes what the tests write.  The lexer and the     *)
(* parser must read the same tree back.                                      *)
EXTENDS Ast, SequencesExt

\* A name, which may be self or super; and a lambda's block, which follows
\* the line it ends.
Name(x) == IF x \in Keywords THEN Word(x) ELSE NameTok(x)
BlockTok(b) == [Word("body") EXCEPT !.p = <<b>>]

Level(op) ==
    CASE op = "or" -> 3 [] op = "and" -> 4
      [] op \in {"==", "!=", "<", "<=", ">", ">=", "is"} -> 6
      [] op = "|" -> 7 [] op = "^" -> 8 [] op = "&" -> 9
      [] op \in {"<<", ">>"} -> 10 [] op \in {"+", "-"} -> 11
      [] op \in {"*", "/", "//", "%"} -> 12 [] op = "**" -> 14

\* How tightly an expression binds: 15 is a primary or a postfix, 0 an
\* assignment.
Binding(e) ==
    CASE e.k \in {"assign", "aug", "walrus", "lambda"} -> 0
      [] e.k = "ternary" -> 1
      [] e.k = "pipe" -> 2
      [] e.k = "binary" -> Level(e.op)
      [] e.k = "unary" -> IF e.op = "not" THEN 5 ELSE 13
      [] e.k \in {"await", "spawn"} -> 13
      [] OTHER -> 15

RECURSIVE Text(_, _), Lines(_, _)

Separated(parts, sep) ==
    FlattenSeq([i \in DOMAIN parts |-> IF i = 1 THEN parts[i] ELSE <<Word(sep)>> \o parts[i]])
Commas(es) == Separated([i \in DOMAIN es |-> Text(es[i], 0)], ",")
Names(xs) == Separated([i \in DOMAIN xs |-> <<Name(xs[i])>>], ",")
Optional(e, before) == IF e = None THEN <<>> ELSE before \o Text(e, 0)
ForIn(e) == <<Word("for"), Name(e.var), Word("in")>> \o Text(e.it, 0) \o Optional(e.cond, <<Word("if")>>)

\* The tokens of an expression without the parentheses around it.
Bare(e) ==
    CASE e.k = "int" -> <<IntTok(e.n)>>
      [] e.k = "str" -> <<StrTok(e.s)>>
      [] e.k = "bool" -> <<Word(IF e.b THEN "true" ELSE "false")>>
      [] e.k = "null" -> <<Word("null")>>
      [] e.k = "ident" -> <<Name(e.name)>>
      [] e.k = "binary" ->
           LET n == Level(e.op) IN
           Text(e.l, IF e.op = "**" THEN n + 1 ELSE n) \o <<Word(e.op)>>
             \o Text(e.r, IF e.op = "**" THEN n ELSE n + 1)
      [] e.k = "unary" -> <<Word(e.op)>> \o Text(e.e, Binding(e))
      [] e.k \in {"await", "spawn"} -> <<Word(e.k)>> \o Text(e.e, 13)
      [] e.k = "call" -> Text(e.f, 15) \o <<Word("(")>> \o Commas(e.args) \o <<Word(")")>>
      [] e.k = "index" -> Text(e.o, 15) \o <<Word("[")>> \o Text(e.i, 0) \o <<Word("]")>>
      [] e.k = "slice" ->
           Text(e.o, 15) \o <<Word("[")>> \o Optional(e.lo, <<>>) \o <<Word(":")>>
             \o Optional(e.hi, <<>>) \o Optional(e.step, <<Word(":")>>) \o <<Word("]")>>
      [] e.k = "attr" -> Text(e.o, 15) \o <<Word("."), Name(e.name)>>
      [] e.k = "list" -> <<Word("[")>> \o Commas(e.es) \o <<Word("]")>>
      [] e.k = "dict" ->
           <<Word("{")>>
             \o Separated([i \in DOMAIN e.ks |-> Text(e.ks[i], 0) \o <<Word(":")>> \o Text(e.vs[i], 0)],
                          ",") \o <<Word("}")>>
      [] e.k = "listcomp" -> <<Word("[")>> \o Text(e.e, 0) \o ForIn(e) \o <<Word("]")>>
      [] e.k = "dictcomp" ->
           <<Word("{")>> \o Text(e.key, 0) \o <<Word(":")>> \o Text(e.val, 0) \o ForIn(e) \o <<Word("}")>>
      [] e.k = "fstring" ->
           <<FstrTok([i \in DOMAIN e.parts |->
                        IF e.parts[i].k = "str" THEN [lit |-> e.parts[i].s, cols |-> 0, toks |-> <<>>]
                        ELSE [lit |-> "", cols |-> 0, toks |-> Text(e.parts[i], 0)]])>>
      [] e.k = "lambda" ->
           <<Word("|")>> \o Names(e.params) \o <<Word("|"), Word("=>")>>
             \o IF e.body.k = "block" THEN <<Word(":"), BlockTok(e.body)>> ELSE Text(e.body, 0)
      [] e.k = "pipe" -> Text(e.l, 2) \o <<Word("|>")>> \o Text(e.r, 3)
      [] e.k = "ternary" ->
           Text(e.c, 2) \o <<Word("?")>> \o Text(e.t, 1) \o <<Word(":")>> \o Text(e.e, 1)
      [] e.k = "walrus" -> <<Name(e.name), Word(":=")>> \o Text(e.e, 0)
      [] e.k = "assign" -> Text(e.t, 1) \o <<Word("=")>> \o Text(e.e, 0)
      [] e.k = "aug" -> Text(e.t, 1) \o <<Word(e.op)>> \o Text(e.e, 0)

\* An expression where only what binds at least as tightly as n may stand.
Text(e, n) == IF Binding(e) >= n THEN Bare(e) ELSE <<Word("(")>> \o Bare(e) \o <<Word(")")>>

RECURSIVE Pattern(_)
Pattern(p) ==
    CASE p.k = "pat_or" -> Separated([i \in DOMAIN p.ps |-> Pattern(p.ps[i])], "|")
      [] p.k = "pat_range" -> Text(p.lo, 8) \o <<Word("..")>> \o Text(p.hi, 8)
      [] p.k = "pat_type" -> <<Word("is"), Name(p.t)>>
      [] p.k = "pat_bind" -> <<Name(p.name), Word("as")>> \o Pattern(p.p)
      [] OTHER -> Text(p, 8)

\* A line at depth n; a block its last token stands for follows it.
Line(n, toks) ==
    LET line(ts) == <<[cols |-> 4 * n, toks |-> ts]>>
        b == Last(toks)
    IN IF b.k = "body" THEN line(Front(toks)) \o Lines(b.p[1], n + 1) ELSE line(toks)

BlankLine == <<[cols |-> 0, toks |-> <<>>]>>

\* A line that ends with ':' and its block, with a blank line after it.
Headed(n, head, block) == Line(n, head \o <<Word(":")>>) \o Lines(block, n + 1) \o BlankLine
OptHeaded(n, head, block) == IF block = None THEN <<>> ELSE Headed(n, head, block)

Simple(n, word, e) == Line(n, <<Word(word)>> \o Optional(e, <<>>))
Callable(n, e) ==
    FlattenSeq([i \in DOMAIN e.decorators |-> Line(n, <<Word("@>")>> \o Text(e.decorators[i], 0))])
      \o Headed(n, (IF e.isAsync THEN <<Word("async")>> ELSE <<>>)
                    \o <<Word("func"), Name(e.name), Word("(")>> \o Names(e.params) \o <<Word(")")>>,
                e.body)

ArmOf(n, a) == Headed(n, Pattern(a.pat) \o Optional(a.guard, <<Word("if")>>), a.body)

\* The lines of a statement or a block at depth n.
Lines(e, n) ==
    CASE e.k = "block" -> FlattenSeq([i \in DOMAIN e.ss |-> Lines(e.ss[i], n)])
      [] e.k = "expr" -> Line(n, Text(e.e, 0))
      [] e.k \in {"break", "continue", "pass"} -> Line(n, <<Word(e.k)>>)
      [] e.k \in {"return", "yield", "raise"} -> Simple(n, e.k, e.e)
      [] e.k = "let" ->
           Line(n, <<Word(IF e.isConst THEN "const" ELSE "let"), Name(e.name), Word("=")>> \o Text(e.e, 0))
      [] e.k = "nonlocal" -> Line(n, <<Word("nonlocal")>> \o Names(e.names))
      [] e.k = "if" ->
           Headed(n, <<Word("if")>> \o Text(e.c, 0), e.then)
             \o FlattenSeq([i \in DOMAIN e.elifs |->
                              Headed(n, <<Word("elif")>> \o Text(e.elifs[i].c, 0), e.elifs[i].body)])
             \o OptHeaded(n, <<Word("else")>>, e.else)
      [] e.k = "while" -> Headed(n, <<Word("while")>> \o Text(e.c, 0), e.body)
      [] e.k = "for" ->
           Headed(n, <<Word("for")>> \o Names(e.vars) \o <<Word("in")>> \o Text(e.it, 0), e.body)
      [] e.k = "with" ->
           Headed(n, <<Word("with")>> \o Text(e.mgr, 0)
                      \o (IF e.var = "" THEN <<>> ELSE <<Word("as"), Name(e.var)>>), e.body)
      [] e.k = "try" ->
           Headed(n, <<Word("try")>>, e.body)
             \o OptHeaded(n, <<Word("catch")>> \o (IF e.hasVar THEN <<Name(e.var)>> ELSE <<>>), e.handler)
             \o OptHeaded(n, <<Word("finally")>>, e.final)
      [] e.k = "func" -> Callable(n, e)
      [] e.k = "class" ->
           Headed(n, <<Word("class"), Name(e.name)>>
                      \o (IF e.super = "" THEN <<>> ELSE <<Word("("), Name(e.super), Word(")")>>), e.body)
      [] e.k = "struct" -> Headed(n, <<Word("struct"), Name(e.name)>>, e.body)
      [] e.k = "enum" ->
           Line(n, <<Word("enum"), Name(e.name), Word(":")>>)
             \o FlattenSeq([i \in DOMAIN e.members |->
                  Line(n + 1, <<Name(e.members[i])>> \o Optional(e.vals[i], <<Word("=")>>))])
      [] e.k = "match" ->
           Line(n, <<Word("match")>> \o Text(e.e, 0) \o <<Word(":")>>)
             \o FlattenSeq([i \in DOMAIN e.arms |-> ArmOf(n + 1, e.arms[i])])
             \o OptHeaded(n + 1, <<Name("_")>> \o Optional(e.wildGuard, <<Word("if")>>), e.wild)
      [] e.k = "import" ->
           Line(n, <<Word("import"), Name(e.mod)>>
                    \o (IF e.alias = "" THEN <<>> ELSE <<Word("as"), Name(e.alias)>>))
      [] e.k = "from" ->
           Line(n, <<Word("from"), Name(e.mod), Word("import")>>
                    \o (IF e.names = <<"*">> THEN <<Word("*")>>
                        ELSE Separated([i \in DOMAIN e.names |->
                               <<Name(e.names[i])>> \o (IF e.aliases[i] = "" THEN <<>>
                                                        ELSE <<Word("as"), Name(e.aliases[i])>>)], ",")))

\* The source text of a program.
SourceText(program) == [lines |-> Lines(program, 0), nl |-> TRUE]
=============================================================================
