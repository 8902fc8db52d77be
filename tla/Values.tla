------------------------------- MODULE Values -------------------------------
(* Values (value.h, object.c) and the operations on them that the opcodes of *)
(* vm.c and a few natives of stdlib_core.c and runtime.c perform.  A value   *)
(* is a tag with its payload; an object is a reference into a heap, which is *)
(* a sequence of records.  Floats, bit operations and the text of strings    *)
(* beyond joining them are left out.                                         *)
EXTENDS Integers, SequencesExt, TLC

VNull == <<"null", 0>>
VBool(b) == <<"bool", b>>
VInt(n) == <<"int", n>>
VStr(s) == <<"str", s>>
VRef(id) == <<"obj", id>>
VNative(name) == <<"native", name>>

\* An operation that has no result raises an exception; the messages of the
\* interpreter are one string.
Failed == <<"failed", 0>>
ErrorText == VStr("error")

IsObj(heap, v, kind) == v[1] = "obj" /\ v[2] \in DOMAIN heap /\ heap[v[2]].k = kind
ObjOf(heap, v) == heap[v[2]]

\* value_is_truthy and object_is_truthy.
Truthy(heap, v) ==
    CASE v[1] = "null" -> FALSE
      [] v[1] = "bool" -> v[2]
      [] v[1] = "int" -> v[2] # 0
      [] v[1] = "str" -> v[2] # ""
      [] IsObj(heap, v, "list") -> ObjOf(heap, v).es # <<>>
      [] OTHER -> TRUE

\* value_equal: lists and dicts by their contents, other objects by identity.
\* The depth limit is left out.
SameValue(heap, a, b) ==
    LET same[x, y \in DOMAIN heap] ==
            LET equal(v, w) == v = w \/ (v[1] = "obj" /\ w[1] = "obj" /\ same[v[2], w[2]])
                alike(f, g) == DOMAIN f = DOMAIN g /\ \A i \in DOMAIN f : equal(f[i], g[i])
            IN \/ x = y
               \/ heap[x].k = "list" /\ heap[y].k = "list" /\ alike(heap[x].es, heap[y].es)
               \/ heap[x].k = "dict" /\ heap[y].k = "dict" /\ alike(heap[x].map, heap[y].map)
    IN a = b \/ (a[1] = "obj" /\ b[1] = "obj" /\ same[a[2], b[2]])

\* What is no number counts as 0.
AsInt(v) ==
    CASE v[1] = "bool" -> IF v[2] THEN 1 ELSE 0
      [] v[1] = "int" /\ v[2] \in Int -> v[2]
      [] OTHER -> 0
IsNum(v) == v[1] \in {"int", "bool"}

\* // rounds towards minus infinity, % has the sign of its left operand.
FloorDiv(a, b) == IF b > 0 THEN a \div b ELSE (-a) \div (-b)
Remainder(a, b) ==
    LET abs(n) == IF n < 0 THEN -n ELSE n
        r == abs(a) % abs(b)
    IN IF a < 0 THEN -r ELSE r
PowerOf[b \in Int, e \in Nat] == IF e = 0 THEN 1 ELSE b * PowerOf[b, e - 1]

Ordered(op, x, y) ==
    CASE op = "<" -> x < y [] op = "<=" -> x <= y [] op = ">" -> x > y [] op = ">=" -> x >= y

\* NUMERIC_BINOP, value_add, COMPARE_OP and the opcodes between them: a bool
\* counts as a number for + - * and comparisons only.
Arithmetic(op, a, b) ==
    LET ints == a[1] = "int" /\ b[1] = "int"
        nums == IsNum(a) /\ IsNum(b)
        x == AsInt(a)
        y == AsInt(b)
    IN CASE op = "+" /\ nums -> VInt(x + y)
         [] op = "+" /\ a[1] = "str" /\ b[1] = "str" -> VStr(a[2] \o b[2])
         [] op = "-" /\ nums -> VInt(x - y)
         [] op = "*" /\ nums -> VInt(x * y)
         [] op = "//" /\ ints /\ y # 0 -> VInt(FloorDiv(x, y))
         [] op = "%" /\ ints /\ y # 0 -> VInt(Remainder(x, y))
         [] op = "**" /\ ints /\ y >= 0 -> VInt(PowerOf[x, y])
         [] op \in {"<", "<=", ">", ">="} /\ nums -> VBool(Ordered(op, x, y))
         [] OTHER -> Failed

Negated(heap, op, v) ==
    CASE op = "not" -> VBool(~Truthy(heap, v))
      [] op = "-" /\ v[1] = "int" -> VInt(-v[2])
      [] OTHER -> Failed

\* The position a list index stands for: from the end when it is negative.
ListPos(es, n) == IF n < 0 THEN n + Len(es) + 1 ELSE n + 1

\* OP_GET_INDEX on a list or a dict.
Element(heap, o, i) ==
    CASE IsObj(heap, o, "list") /\ i[1] = "int" ->
           LET es == ObjOf(heap, o).es
               p == ListPos(es, i[2])
           IN IF p \in DOMAIN es THEN es[p] ELSE Failed
      [] IsObj(heap, o, "dict") /\ i[1] = "str" ->
           LET map == ObjOf(heap, o).map
           IN IF i[2] \in DOMAIN map THEN map[i[2]] ELSE Failed
      [] OTHER -> Failed

\* OP_SET_INDEX on a list or a dict: the new heap, <<>> when it fails.
WithElement(heap, o, i, v) ==
    CASE IsObj(heap, o, "list") /\ i[1] = "int" ->
           LET p == ListPos(ObjOf(heap, o).es, i[2])
           IN IF p \in DOMAIN ObjOf(heap, o).es THEN [heap EXCEPT ![o[2]].es[p] = v] ELSE <<>>
      [] IsObj(heap, o, "dict") /\ i[1] = "str" ->
           [heap EXCEPT ![o[2]].map = (i[2] :> v) @@ @]
      [] OTHER -> <<>>

\* OP_SLICE on a list: the indices from lo to hi, hi excluded, by step.
Sliced(es, lo, hi, by) ==
    LET n == Len(es)
        from(v) == IF AsInt(v) < 0 THEN AsInt(v) + n ELSE AsInt(v)
        start == CASE lo # VNull -> from(lo)
                   [] lo = VNull /\ by > 0 -> 0
                   [] OTHER -> n - 1
        end == CASE hi # VNull -> from(hi)
                 [] hi = VNull /\ by > 0 -> n
                 [] OTHER -> -1
        first == IF by > 0 THEN Max({start, 0}) ELSE Min({start, n - 1})
        last == IF by > 0 THEN Min({end, n}) ELSE Max({end, -1})
        count == IF by > 0 THEN (last - first + by - 1) \div by
                 ELSE (first - last - by - 1) \div (-by)
    IN [i \in 1 .. count |-> es[first + (i - 1) * by + 1]]

\* value_to_string of the values whose text is compared.
TextOf(v) ==
    CASE v[1] = "str" -> v
      [] v[1] = "int" -> VStr(ToString(v[2]))
      [] v[1] = "bool" -> VStr(IF v[2] THEN "true" ELSE "false")
      [] v[1] = "null" -> VStr("null")
      [] OTHER -> VStr("object")

\* What print shows: values, lists and dicts of them, the kind of other objects.
Shown(heap, v) ==
    LET shown[x \in DOMAIN heap] ==
            LET shows(w) == IF w[1] = "obj" THEN shown[w[2]] ELSE w
                each(f) == [i \in DOMAIN f |-> shows(f[i])]
            IN CASE heap[x].k = "list" -> <<"list", each(heap[x].es)>>
                 [] heap[x].k = "dict" -> <<"dict", each(heap[x].map)>>
                 [] OTHER -> <<"object", heap[x].k>>
    IN IF v[1] = "obj" THEN shown[v[2]] ELSE v
=============================================================================
