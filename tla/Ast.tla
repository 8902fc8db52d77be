--------------------------------- MODULE Ast ---------------------------------
(* Nodes of the syntax tree (include/flux/ast.h, ast.c) and tokens           *)
(* (include/flux/lexer.h): the language the lexer, the parser and the        *)
(* compiler share.  A node is a record whose k is its AstKind.  Positions    *)
(* and the arena are left out; numbers are the integers, and a name or a     *)
(* string is an opaque string.                                               *)
EXTENDS Integers, Sequences

\* A token: its kind, and for the kinds that carry one a name, a number or
\* the parts of an f-string.
Word(k) == [k |-> k, v |-> "", n |-> 0, p |-> <<>>]
NameTok(s) == [Word("ident") EXCEPT !.v = s]
IntTok(n) == [Word("int") EXCEPT !.n = n]
StrTok(s) == [Word("string") EXCEPT !.v = s]
FstrTok(parts) == [Word("fstring") EXCEPT !.p = parts]

\* The words that the lexer does not take for identifiers.
Keywords == {"func", "async", "await", "yield", "return", "if", "elif", "else",
    "while", "for", "in", "break", "continue", "pass", "class", "self",
    "super", "import", "from", "as", "and", "or", "not", "is", "true",
    "false", "null", "let", "const", "match", "struct", "enum", "spawn",
    "nonlocal", "with", "try", "catch", "finally", "raise"}

\* The keywords that may also name a type, an attribute or a module:
\* token_is_keyword takes the kinds from TOK_FUNC to TOK_NONLOCAL, and the
\* ones left out here lie before or after them.
NameKeywords ==
    Keywords \ {"true", "false", "null", "with", "try", "catch", "finally", "raise"}

\* A NULL child.
None == [k |-> "none"]

\* Expressions.
Num(n) == [k |-> "int", n |-> n]
Str(s) == [k |-> "str", s |-> s]
Bool(b) == [k |-> "bool", b |-> b]
Null == [k |-> "null"]
Ident(x) == [k |-> "ident", name |-> x]
Binary(op, l, r) == [k |-> "binary", op |-> op, l |-> l, r |-> r]
Unary(op, e) == [k |-> "unary", op |-> op, e |-> e]
Await(e) == [k |-> "await", e |-> e]
Spawn(e) == [k |-> "spawn", e |-> e]
Call(f, args) == [k |-> "call", f |-> f, args |-> args]
Index(o, i) == [k |-> "index", o |-> o, i |-> i]
Slice(o, lo, hi, step) ==
    [k |-> "slice", o |-> o, lo |-> lo, hi |-> hi, step |-> step]
Attr(o, x) == [k |-> "attr", o |-> o, name |-> x]
List(es) == [k |-> "list", es |-> es]
Dict(ks, vs) == [k |-> "dict", ks |-> ks, vs |-> vs]
ListComp(e, var, it, cond) ==
    [k |-> "listcomp", e |-> e, var |-> var, it |-> it, cond |-> cond]
DictComp(key, val, var, it, cond) ==
    [k |-> "dictcomp", key |-> key, val |-> val, var |-> var, it |-> it,
     cond |-> cond]
Fstring(parts) == [k |-> "fstring", parts |-> parts]
Lambda(params, body) == [k |-> "lambda", params |-> params, body |-> body]
Pipe(l, r) == [k |-> "pipe", l |-> l, r |-> r]
Ternary(c, t, e) == [k |-> "ternary", c |-> c, t |-> t, e |-> e]
Walrus(x, e) == [k |-> "walrus", name |-> x, e |-> e]
Assign(t, e) == [k |-> "assign", t |-> t, e |-> e]
Aug(op, t, e) == [k |-> "aug", op |-> op, t |-> t, e |-> e]

\* Statements.
ExprStmt(e) == [k |-> "expr", e |-> e]
Block(ss) == [k |-> "block", ss |-> ss]
Return(e) == [k |-> "return", e |-> e]
Yield(e) == [k |-> "yield", e |-> e]
Raise(e) == [k |-> "raise", e |-> e]
Break == [k |-> "break"]
Continue == [k |-> "continue"]
Pass == [k |-> "pass"]
If(c, then, elifs, else) ==
    [k |-> "if", c |-> c, then |-> then, elifs |-> elifs, else |-> else]
While(c, body) == [k |-> "while", c |-> c, body |-> body]
For(vars, it, body) == [k |-> "for", vars |-> vars, it |-> it, body |-> body]
With(mgr, var, body) ==
    [k |-> "with", mgr |-> mgr, var |-> var, body |-> body]
Try(body, hasVar, var, handler, final) ==
    [k |-> "try", body |-> body, hasVar |-> hasVar, var |-> var,
     handler |-> handler, final |-> final]
FuncDef(name, params, body, isAsync, decorators) ==
    [k |-> "func", name |-> name, params |-> params, body |-> body,
     isAsync |-> isAsync, decorators |-> decorators]
ClassDef(name, super, body) ==
    [k |-> "class", name |-> name, super |-> super, body |-> body]
StructDef(name, body) == [k |-> "struct", name |-> name, body |-> body]
EnumDef(name, members, vals) ==
    [k |-> "enum", name |-> name, members |-> members, vals |-> vals]
Let(name, e, isConst) ==
    [k |-> "let", name |-> name, e |-> e, isConst |-> isConst]
Nonlocal(names) == [k |-> "nonlocal", names |-> names]
Import(mod, alias) == [k |-> "import", mod |-> mod, alias |-> alias]
FromImport(mod, names, aliases) ==
    [k |-> "from", mod |-> mod, names |-> names, aliases |-> aliases]

\* A match statement, its arms in order, and the patterns that are no
\* expressions.
Match(e, arms, wild, wildGuard) ==
    [k |-> "match", e |-> e, arms |-> arms, wild |-> wild,
     wildGuard |-> wildGuard]
Arm(pat, guard, body) == [pat |-> pat, guard |-> guard, body |-> body]
PatOr(ps) == [k |-> "pat_or", ps |-> ps]
PatRange(lo, hi) == [k |-> "pat_range", lo |-> lo, hi |-> hi]
PatType(t) == [k |-> "pat_type", t |-> t]
PatBind(x, p) == [k |-> "pat_bind", name |-> x, p |-> p]
=============================================================================
