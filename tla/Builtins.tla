------------------------------ MODULE Builtins ------------------------------
(* The native functions of stdlib_core.c and the methods of lists and dicts  *)
(* of runtime.c that call no function of the program.  Each gives the heap   *)
(* afterwards and its result, Failed when it reports an error.  What depends *)
(* on the order of a dict's entries, on its tombstones (see Heap; so do pop,  *)
(* clear and len after them), on floats or on the text of a string is left   *)
(* out.                                                                      *)
EXTENDS Values

Gives(heap, v) == [heap |-> heap, v |-> v]
Refuses(heap) == Gives(heap, Failed)
Fresh(heap, obj) == Gives(Append(heap, obj), VRef(Len(heap) + 1))
ListObj(es) == [k |-> "list", es |-> es]
DictObj(map) == [k |-> "dict", map |-> map]

\* A new list of new two-element lists.
FreshPairs(heap, pairs) ==
    LET n == Len(heap)
        lists == [i \in DOMAIN pairs |-> ListObj(pairs[i])]
    IN Fresh(heap \o lists, ListObj([i \in DOMAIN pairs |-> VRef(n + i)]))

\* native_range; an argument that is no number counts as 0.
Range3(heap, args) ==
    LET lo == IF Len(args) = 1 THEN 0 ELSE AsInt(args[1])
        hi == AsInt(args[IF Len(args) = 1 THEN 1 ELSE 2])
        by == IF Len(args) >= 3 THEN AsInt(args[3]) ELSE 1
        count == IF by > 0 THEN (hi - lo + by - 1) \div by ELSE (lo - hi - by - 1) \div (-by)
    IN IF by = 0 THEN Refuses(heap)
       ELSE Fresh(heap, ListObj([i \in 1 .. count |-> VInt(lo + (i - 1) * by)]))

LengthOf(heap, v) ==
    CASE v[1] = "str" -> VInt(Len(v[2]))
      [] IsObj(heap, v, "list") -> VInt(Len(ObjOf(heap, v).es))
      [] IsObj(heap, v, "dict") -> VInt(Cardinality(DOMAIN ObjOf(heap, v).map))
      [] OTHER -> Failed

\* native_min and native_max over integers: the arguments, or the elements of
\* the only one.
Best(vs, least) ==
    LET better(v, m) == IF least THEN AsInt(v) < AsInt(m) ELSE AsInt(v) > AsInt(m)
    IN FoldLeft(LAMBDA m, v : IF better(v, m) THEN v ELSE m, Head(vs), Tail(vs))
Extreme(heap, args, least) ==
    LET vs == IF Len(args) = 1 /\ IsObj(heap, args[1], "list")
              THEN ObjOf(heap, args[1]).es ELSE args
    IN IF vs = <<>> THEN Refuses(heap) ELSE Gives(heap, Best(vs, least))

\* native_any and native_all: of a list its elements, else the value itself.
Quantified(heap, v, all) ==
    LET vs == IF IsObj(heap, v, "list") THEN ObjOf(heap, v).es ELSE <<v>>
        truths == {Truthy(heap, vs[i]) : i \in DOMAIN vs}
    IN Gives(heap, VBool(IF all THEN FALSE \notin truths ELSE TRUE \in truths))

\* native_sorted without a function: a stable sort of integers.
SortedInts(es) ==
    LET before(j, i) == AsInt(es[j]) < AsInt(es[i]) \/ (AsInt(es[j]) = AsInt(es[i]) /\ j < i)
        rank(i) == 1 + Cardinality({j \in DOMAIN es : before(j, i)})
    IN [r \in DOMAIN es |-> es[CHOOSE i \in DOMAIN es : rank(i) = r]]
SumOfInts(es) == FoldLeft(LAMBDA n, v : n + AsInt(v), 0, es)

\* native_is_instance walks the superclasses.
Inherits(heap, class, target) ==
    LET inherits[c \in DOMAIN heap] ==
            c = target \/ (heap[c].super # 0 /\ inherits[heap[c].super])
    IN inherits[class]

\* native_get_attr and native_has_attr: a field, then a bound method.
InstanceAttr(heap, v, name) ==
    LET o == ObjOf(heap, v)
        methods == heap[o.class].methods
    IN CASE name \in DOMAIN o.fields -> Gives(heap, o.fields[name])
         [] name \notin DOMAIN o.fields /\ name \in DOMAIN methods ->
              Fresh(heap, [k |-> "bound", recv |-> v, method |-> methods[name]])
         [] OTHER -> Refuses(heap)

Natives == {"print", "len", "range", "str", "bool", "assert", "zip", "enumerate", "any",
            "all", "min", "max", "sum", "sorted", "reversed", "abs", "map", "filter",
            "reduce", "has_attr", "get_attr", "set_attr", "is_instance", "is_callable"}

\* The number of arguments a native is registered with, -1 for any.
NativeArity(name) ==
    CASE name \in {"len", "str", "bool", "any", "all", "sum", "reversed", "abs",
                   "is_callable"} -> 1
      [] name \in {"map", "filter", "has_attr", "is_instance"} -> 2
      [] name = "set_attr" -> 3
      [] OTHER -> -1

Native(heap, name, args) ==
    LET a == args[1]
        list == args # <<>> /\ IsObj(heap, a, "list")
        es == ObjOf(heap, a).es
        named == IsObj(heap, a, "instance") /\ args[2][1] = "str"
        attr == InstanceAttr(heap, a, args[2][2])
    IN CASE name = "range" -> Range3(heap, args)
         [] name = "len" -> Gives(heap, LengthOf(heap, a))
         [] name = "str" -> Gives(heap, TextOf(a))
         [] name = "bool" -> Gives(heap, VBool(Truthy(heap, a)))
         [] name = "assert" -> IF Truthy(heap, a) THEN Gives(heap, VNull) ELSE Refuses(heap)
         [] name = "zip" /\ Len(args) >= 2 /\ list /\ IsObj(heap, args[2], "list") ->
              LET b == ObjOf(heap, args[2]).es
                  n == IF Len(es) < Len(b) THEN Len(es) ELSE Len(b)
              IN FreshPairs(heap, [i \in 1 .. n |-> <<es[i], b[i]>>])
         [] name = "enumerate" /\ list ->
              LET start == IF Len(args) >= 2 /\ args[2][1] = "int" THEN args[2][2] ELSE 0
              IN FreshPairs(heap, [i \in DOMAIN es |-> <<VInt(start + i - 1), es[i]>>])
         [] name = "any" -> Quantified(heap, a, FALSE)
         [] name = "all" -> Quantified(heap, a, TRUE)
         [] name = "min" -> Extreme(heap, args, TRUE)
         [] name = "max" -> Extreme(heap, args, FALSE)
         [] name = "sum" /\ list -> Gives(heap, VInt(SumOfInts(es)))
         [] name = "abs" -> Gives(heap, VInt(IF a[2] < 0 THEN -a[2] ELSE a[2]))
         [] name = "reversed" /\ list -> Fresh(heap, ListObj(Reverse(es)))
         [] name = "sorted" /\ list -> Fresh(heap, ListObj(SortedInts(es)))
         [] name = "has_attr" -> Gives(heap, VBool(named /\ attr.v # Failed))
         [] name = "get_attr" /\ named ->
              IF attr.v = Failed /\ Len(args) >= 3 THEN Gives(heap, args[3]) ELSE attr
         [] name = "get_attr" /\ ~named /\ Len(args) >= 3 -> Gives(heap, args[3])
         [] name = "set_attr" /\ named ->
              Gives([heap EXCEPT ![a[2]].fields = (args[2][2] :> args[3]) @@ @], VNull)
         [] name = "is_instance" ->
              Gives(heap, VBool(/\ IsObj(heap, a, "instance")
                                /\ IsObj(heap, args[2], "class")
                                /\ Inherits(heap, ObjOf(heap, a).class, args[2][2])))
         [] name = "is_callable" ->
              Gives(heap, VBool(\/ a[1] = "native"
                                \/ a[1] = "obj" /\ heap[a[2]].k \in {"closure", "bound", "class"}))
         [] OTHER -> Refuses(heap)

\* The methods of a list; extend with the list itself, which never ends, is
\* left out.
ListMethod(heap, v, name, args) ==
    LET es == ObjOf(heap, v).es
        becomes(list, x) == Gives([heap EXCEPT ![v[2]].es = list], x)
        at == {i \in DOMAIN es : SameValue(heap, es[i], args[1])}
        pos == LET n == AsInt(args[1])
               IN IF n < 0 THEN 0 ELSE IF n > Len(es) THEN Len(es) ELSE n
    IN CASE name = "append" -> becomes(Append(es, args[1]), VNull)
         [] name = "pop" -> IF es = <<>> THEN Gives(heap, VNull) ELSE becomes(Front(es), Last(es))
         [] name = "len" -> Gives(heap, VInt(Len(es)))
         [] name = "insert" ->
              becomes(SubSeq(es, 1, pos) \o <<args[2]>> \o SubSeq(es, pos + 1, Len(es)), VNull)
         [] name = "remove" -> IF at = {} THEN Gives(heap, VBool(FALSE))
                               ELSE becomes(RemoveAt(es, Min(at)), VBool(TRUE))
         [] name = "contains" -> Gives(heap, VBool(at # {}))
         [] name = "reverse" -> becomes(Reverse(es), VNull)
         [] name = "extend" -> IF IsObj(heap, args[1], "list")
                               THEN becomes(es \o ObjOf(heap, args[1]).es, VNull)
                               ELSE Gives(heap, VNull)
         [] name = "find" -> Gives(heap, VInt(IF at = {} THEN -1 ELSE Min(at) - 1))
         [] name = "index" -> IF at = {} THEN Refuses(heap) ELSE Gives(heap, VInt(Min(at) - 1))
         [] name = "count" -> Gives(heap, VInt(Cardinality(at)))
         [] name = "clear" -> becomes(<<>>, VNull)
         [] name = "copy" -> Fresh(heap, ListObj(es))
         [] OTHER -> Refuses(heap)

\* The methods of a dict.  A key that is no string is in no dict and has no
\* default either.
DictMethod(heap, v, name, args) ==
    LET map == ObjOf(heap, v).map
        key == args[1][2]
        named == args # <<>> /\ args[1][1] = "str"
        has == named /\ key \in DOMAIN map
        default == IF named /\ Len(args) > 1 THEN args[2] ELSE VNull
        becomes(m, x) == Gives([heap EXCEPT ![v[2]].map = m], x)
        other == IF args # <<>> /\ IsObj(heap, args[1], "dict") THEN ObjOf(heap, args[1]).map
                 ELSE [x \in {} |-> VNull]
    IN CASE name = "has_key" -> Gives(heap, VBool(has))
         [] name = "get" -> Gives(heap, IF has THEN map[key] ELSE default)
         [] name = "update" -> becomes(other @@ map, VNull)
         [] name = "pop" -> IF has THEN becomes([x \in DOMAIN map \ {key} |-> map[x]], map[key])
                            ELSE Gives(heap, default)
         [] name = "clear" -> becomes([x \in {} |-> VNull], VNull)
         [] name = "copy" -> Fresh(heap, DictObj(map))
         [] name = "setdefault" -> IF has THEN Gives(heap, map[key])
                                   ELSE IF named THEN becomes((key :> default) @@ map, default)
                                   ELSE Gives(heap, VNull)
         [] name = "merge" -> Fresh(heap, DictObj(other @@ map))
         [] OTHER -> Refuses(heap)
=============================================================================
