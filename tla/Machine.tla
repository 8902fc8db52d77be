------------------------------ MODULE Machine ------------------------------
(* The bytecode interpreter (vm.c): one action per group of opcodes, and one *)
(* for an exception.  vm_run calls itself where C code calls a function of   *)
(* the program (a generator, the hooks on_set, equals and on_len, the        *)
(* functions given to map, filter and reduce): vm.runs is the C stack of     *)
(* those calls.  Coroutines are modelled in Scheduler; modules, the debugger *)
(* and the limit on the value stack are left out.  Where a program goes on   *)
(* with something left out, the machine says so and stops.                   *)
EXTENDS Builtins

CONSTANTS FramesMax,      \* FLUX_FRAMES_MAX
          HandlerMax      \* FLUX_EXCEPTION_HANDLER_MAX

ASSUME MachineAssumption == FramesMax \in Nat \ {0} /\ HandlerMax \in Nat

VARIABLES code,     \* the functions Compile returned, the script last
          vm        \* the FluxVM struct

machineVars == <<code, vm>>

\* A call of vm_run: base_frame_count, who called it, and what the caller
\* keeps in C variables meanwhile: the number of its arguments, the list to
\* fill or the value so far (acc), the source list, the function, the next
\* index and the element at hand.
Run(kind, argc, acc, src, fn, i) ==
    [base |-> 0, kind |-> kind, argc |-> argc, acc |-> acc, src |-> src, fn |-> fn,
     i |-> i, item |-> VNull]
Plain(kind) == Run(kind, 0, VNull, VNull, VNull, 0)

\* vm_execute of the script f: its closure, its frame, its run.
Execute(f) ==
    [stack |-> <<VRef(1)>>, top |-> 1,
     frames |-> <<[closure |-> 1, ip |-> 1, slots |-> 1]>>,
     handlers |-> <<>>, runs |-> <<Plain("script")>>,
     heap |-> <<[k |-> "closure", fn |-> f, ups |-> <<>>]>>,
     globals |-> [n \in Natives |-> VNative(n)],
     open |-> {}, collector |-> 0, out |-> <<>>, exc |-> VNull, status |-> "running"]

Frame(m) == Last(m.frames)
Closure(m) == m.heap[Frame(m).closure]
Function(m) == code[Closure(m).fn]
Instr == Function(vm).code[Frame(vm).ip]
RunOf(m) == Last(m.runs)

(* --------------------------- the value stack ---------------------------- *)

\* What a pop leaves above the top stays readable until it is overwritten.
Push(m, v) ==
    [m EXCEPT !.stack = IF m.top < Len(@) THEN [@ EXCEPT ![m.top + 1] = v] ELSE Append(@, v),
              !.top = @ + 1]
Drop(m, n) == [m EXCEPT !.top = @ - n]
At(m, p) == IF p \in DOMAIN m.stack THEN m.stack[p] ELSE VNull
Peek(m, n) == At(m, m.top - n)
PushAll(m, vs) ==
    [m EXCEPT !.stack = SubSeq(@, 1, m.top) \o vs \o SubSeq(@, m.top + Len(vs) + 1, Len(@)),
              !.top = @ + Len(vs)]
Replace(m, n, v) == Push(Drop(m, n), v)
Args(m, n) == [i \in 1 .. n |-> At(m, m.top - n + i)]
Put(m, p, v) ==
    IF p \in DOMAIN m.stack THEN [m EXCEPT !.stack[p] = v]
    ELSE [m EXCEPT !.stack = @ \o [i \in 1 .. p - Len(@) |-> v]]
Local(m, slot) == Frame(m).slots + slot
Goto(m, a) == [m EXCEPT !.frames[Len(m.frames)].ip = a]

Alloc(m, obj) == [m EXCEPT !.heap = Append(@, obj)]
PushNew(m, obj) == Push(Alloc(m, obj), VRef(Len(m.heap) + 1))
Method(m, v, name) == m.heap[ObjOf(m.heap, v).class].methods[name]
HasMethod(m, v, name) ==
    IsObj(m.heap, v, "instance") /\ name \in DOMAIN m.heap[ObjOf(m.heap, v).class].methods

\* flux_handle_exception is about to run.
Throw(m, v) == [m EXCEPT !.exc = v, !.status = "raised"]
RuntimeError(m) == Throw(m, ErrorText)
LeftOut(m) == [m EXCEPT !.status = "left out"]

(* ------------------------------- upvalues ------------------------------- *)

UpvaluesAt(m, p) == {u \in m.open : m.heap[u].slot = p}

\* As CaptureUpvalue, but always a new one.
CaptureUpvalueAnew(m, p) ==
    LET u == Len(m.heap) + 1
    IN [m |-> [Alloc(m, [k |-> "upvalue", open |-> TRUE, slot |-> p, val |-> VNull])
                 EXCEPT !.open = @ \union {u}],
        up |-> u]

\* capture_upvalue: the open one of the slot, or a new one.
CaptureUpvalue(m, p) ==
    IF UpvaluesAt(m, p) # {} THEN [m |-> m, up |-> CHOOSE u \in UpvaluesAt(m, p) : TRUE]
    ELSE LET u == Len(m.heap) + 1
         IN [m |-> [Alloc(m, [k |-> "upvalue", open |-> TRUE, slot |-> p, val |-> VNull])
                      EXCEPT !.open = @ \union {u}],
             up |-> u]

\* close_upvalues: those at and above p keep the value they point to.
CloseUpvalues(m, p) ==
    LET shut == {u \in m.open : m.heap[u].slot >= p}
    IN [m EXCEPT !.open = @ \ shut,
                 !.heap = [i \in DOMAIN @ |-> IF i \in shut
                             THEN [@[i] EXCEPT !.open = FALSE, !.val = At(m, m.heap[i].slot)]
                             ELSE @[i]]]

UpvalueGet(m, u) == IF m.heap[u].open THEN At(m, m.heap[u].slot) ELSE m.heap[u].val
UpvalueSet(m, u, v) ==
    IF m.heap[u].open THEN Put(m, m.heap[u].slot, v) ELSE [m EXCEPT !.heap[u].val = v]

(* --------------------------------- calls -------------------------------- *)

\* call_closure: the frame of the closure f over its argc arguments.  The code
\* casts the value of a method without looking; what a cast of something else
\* does is left out.
CallClosure(m, f, argc) ==
    CASE ~IsObj(m.heap, f, "closure") -> LeftOut(m)
      [] IsObj(m.heap, f, "closure") /\ argc = code[ObjOf(m.heap, f).fn].arity
         /\ Len(m.frames) < FramesMax ->
           [m EXCEPT !.frames = Append(@, [closure |-> f[2], ip |-> 1, slots |-> m.top - argc])]
      [] OTHER -> RuntimeError(m)

\* A call of vm_run for the frame just pushed over n others.
Nested(called, r, n) ==
    IF called.status # "running" THEN called
    ELSE [called EXCEPT !.runs = Append(@, [r EXCEPT !.base = n])]

\* vm_invoke of a closure from C code that continues with r when it returns;
\* slot 0 of the frame is self.
Invoke(m, r, f, self, args) ==
    Nested(CallClosure(PushAll(Push(m, self), args), f, Len(args)), r, Len(m.frames))

\* A generator runs in a vm_run of its own with a new list as the collector;
\* the run keeps the collector it replaces.
CallGenerator(m, f, argc) ==
    LET called == CallClosure(Alloc(m, ListObj(<<>>)), f, argc)
        run == [Plain("gen") EXCEPT !.i = m.collector]
    IN IF called.status # "running" THEN called
       ELSE Nested([called EXCEPT !.collector = Len(m.heap) + 1], run, Len(m.frames))

\* map, filter and reduce: the next call of their function, or their end.  The
\* length of the source is read each time, and the result list of map and
\* filter lies on the stack above the arguments.  Functions that are no
\* closures, generators and async closures are left out.
IsPlain(m, f) ==
    IsObj(m.heap, f, "closure") /\ ~code[ObjOf(m.heap, f).fn].isGen
    /\ ~code[ObjOf(m.heap, f).fn].isAsync
FoldStep(m, r) ==
    LET es == ObjOf(m.heap, r.src).es
        item == es[r.i]
        args == IF r.kind = "reduce" THEN <<r.acc, item>> ELSE <<item>>
    IN CASE r.i > Len(es) -> Replace(m, r.argc + (IF r.kind = "reduce" THEN 1 ELSE 2), r.acc)
         [] r.i <= Len(es) /\ IsPlain(m, r.fn) ->
              Invoke(m, [r EXCEPT !.i = @ + 1, !.item = item], r.fn, r.fn, args)
         [] OTHER -> LeftOut(m)

CallFold(m, name, argc) ==
    LET args == Args(m, argc)
        src == args[1]
        r == Run(name, argc, VNull, src, args[2], 1)
        withList == PushNew(m, ListObj(<<>>))
    IN IF ~IsObj(m.heap, src, "list") THEN RuntimeError(m)
       ELSE CASE name # "reduce" -> FoldStep(withList, [r EXCEPT !.acc = Peek(withList, 0)])
              [] name = "reduce" /\ argc >= 3 -> FoldStep(m, [r EXCEPT !.acc = args[3]])
              [] name = "reduce" /\ argc < 3 /\ ObjOf(m.heap, src).es = <<>> -> RuntimeError(m)
              [] OTHER -> FoldStep(m, [r EXCEPT !.acc = ObjOf(m.heap, src).es[1], !.i = 2])

\* call_native; on_len is called for the length of an instance.
CallNative(m, name, argc) ==
    LET args == Args(m, argc)
        r == Native(m.heap, name, args)
    IN IF NativeArity(name) \notin {-1, argc} THEN RuntimeError(m)
       ELSE CASE name = "print" ->
                   Replace([m EXCEPT !.out = Append(@, [i \in 1 .. argc |-> Shown(m.heap, args[i])])],
                           argc + 1, VNull)
              [] name \in {"map", "filter", "reduce"} -> CallFold(m, name, argc)
              [] name = "len" /\ HasMethod(m, args[1], "on_len") ->
                   Invoke(m, Plain("len"), Method(m, args[1], "on_len"), args[1], <<>>)
              [] OTHER -> IF r.v = Failed THEN RuntimeError(m)
                          ELSE Replace([m EXCEPT !.heap = r.heap], argc + 1, r.v)

\* An instance takes the place of its class and is the self of init.
Construct(m, argc) ==
    LET class == Peek(m, argc)[2]
        c == m.heap[class]
        made == Put(Alloc(m, [k |-> "instance", class |-> class, fields |-> [x \in {} |-> VNull]]),
                    m.top - argc, VRef(Len(m.heap) + 1))
    IN CASE c.isEnum -> RuntimeError(m)
         [] ~c.isEnum /\ "init" \in DOMAIN c.methods ->
              IF IsObj(m.heap, c.methods["init"], "closure")
              THEN CallClosure(made, c.methods["init"], argc) ELSE RuntimeError(made)
         [] OTHER -> IF argc = 0 THEN made ELSE RuntimeError(made)

\* vm_call_value of the value below the arguments; async closures are left
\* out.
CallValue(m, argc) ==
    LET callee == Peek(m, argc)
        o == ObjOf(m.heap, callee)
    IN CASE callee[1] = "native" -> CallNative(m, callee[2], argc)
         [] IsObj(m.heap, callee, "closure") ->
              CASE code[o.fn].isAsync -> LeftOut(m)
                [] ~code[o.fn].isAsync /\ code[o.fn].isGen -> CallGenerator(m, callee, argc)
                [] OTHER -> CallClosure(m, callee, argc)
         [] IsObj(m.heap, callee, "class") -> Construct(m, argc)
         [] IsObj(m.heap, callee, "bound") ->
              CallClosure(Put(m, m.top - argc, o.recv), o.method, argc)
         [] HasMethod(m, callee, "on_call") ->
              CallClosure(m, Method(m, callee, "on_call"), argc)
         [] OTHER -> RuntimeError(m)

\* OP_INVOKE: a field or an entry is called as a value, a method at once, even
\* when it is a generator.  Methods of strings are left out.
CallMethod(m, name, argc) ==
    LET v == Peek(m, argc)
        o == ObjOf(m.heap, v)
        r == IF o.k = "list" THEN ListMethod(m.heap, v, name, Args(m, argc))
             ELSE DictMethod(m.heap, v, name, Args(m, argc))
        callAt(f) == CallValue(Put(m, m.top - argc, f), argc)
    IN CASE IsObj(m.heap, v, "instance") /\ name \in DOMAIN o.fields -> callAt(o.fields[name])
         [] IsObj(m.heap, v, "instance") /\ name \notin DOMAIN o.fields ->
              IF HasMethod(m, v, name) THEN CallClosure(m, Method(m, v, name), argc)
              ELSE RuntimeError(m)
         [] IsObj(m.heap, v, "dict") /\ name \in DOMAIN o.map -> callAt(o.map[name])
         [] IsObj(m.heap, v, "list") \/ (IsObj(m.heap, v, "dict") /\ name \notin DOMAIN o.map) ->
              IF r.v = Failed THEN RuntimeError(m)
              ELSE Replace([m EXCEPT !.heap = r.heap], argc + 1, r.v)
         [] OTHER -> RuntimeError(m)

(* ------------------------- the end of a function ------------------------ *)

\* What the C caller of a nested vm_run does with its result.
Resumed(m, r, result) ==
    LET keep == r.kind = "map" \/ Truthy(m.heap, result)
        add == IF r.kind = "map" THEN result ELSE r.item
    IN CASE r.kind = "gen" -> Push([m EXCEPT !.collector = r.i], VRef(m.collector))
         [] r.kind = "==" -> Push(m, VBool(Truthy(m.heap, result)))
         [] r.kind = "!=" -> Push(m, VBool(~Truthy(m.heap, result)))
         [] r.kind = "set" -> m
         [] r.kind = "len" -> Replace(m, 2, result)
         [] r.kind = "reduce" -> FoldStep(m, [r EXCEPT !.acc = result])
         [] OTHER -> FoldStep(IF keep THEN [m EXCEPT !.heap[r.acc[2]].es = Append(@, add)] ELSE m, r)

\* OP_RETURN: the frame goes with its slots; when it is the last one of this
\* vm_run, the C caller continues, and the script is done.
Returned(m, result) ==
    LET f == Frame(m)
        left == [CloseUpvalues(m, f.slots) EXCEPT !.frames = Front(@)]
        r == RunOf(m)
        popped == [left EXCEPT !.top = f.slots - 1]
    IN CASE Len(left.frames) > r.base -> Push(popped, result)
         [] Len(left.frames) <= r.base /\ r.kind = "script" ->
              [Drop(left, 1) EXCEPT !.runs = <<>>, !.status = "done"]
         [] OTHER -> Resumed([popped EXCEPT !.runs = Front(@)], r, result)

(* -------------------------------- actions ------------------------------- *)

Executing(ops) == vm.status = "running" /\ Instr.op \in ops
Becomes(m) == vm' = m /\ UNCHANGED code

\* The machine with ip past the instruction, and that machine with a value in
\* place of the n values on top.
Ahead == Goto(vm, Frame(vm).ip + 1)
Yields(n, v) == Becomes(IF v = Failed THEN RuntimeError(Ahead) ELSE Replace(Ahead, n, v))

Literal ==
    /\ Executing({"PUSH_NULL", "PUSH_BOOL", "PUSH_INT", "PUSH_STRING"})
    /\ Yields(0, CASE Instr.op = "PUSH_NULL" -> VNull
                   [] Instr.op = "PUSH_BOOL" -> VBool(Instr.a = 1)
                   [] Instr.op = "PUSH_INT" -> VInt(Instr.a)
                   [] Instr.op = "PUSH_STRING" -> VStr(Instr.s))

LocalVariable ==
    /\ Executing({"LOAD_LOCAL", "STORE_LOCAL"})
    /\ Becomes(IF Instr.op = "LOAD_LOCAL" THEN Push(Ahead, At(vm, Local(vm, Instr.a)))
               ELSE Put(Ahead, Local(vm, Instr.a), Peek(vm, 0)))

GlobalVariable ==
    /\ Executing({"LOAD_GLOBAL", "STORE_GLOBAL", "DEFINE_GLOBAL"})
    /\ LET set == [Ahead EXCEPT !.globals = (Instr.s :> Peek(vm, 0)) @@ @]
       IN IF Instr.op = "LOAD_GLOBAL"
          THEN Yields(0, IF Instr.s \in DOMAIN vm.globals THEN vm.globals[Instr.s] ELSE Failed)
          ELSE Becomes(IF Instr.op = "STORE_GLOBAL" THEN set ELSE Drop(set, 1))

UpvalueVariable ==
    /\ Executing({"GET_UPVALUE", "SET_UPVALUE"})
    /\ LET u == Closure(vm).ups[Instr.a + 1]
       IN Becomes(IF Instr.op = "GET_UPVALUE" THEN Push(Ahead, UpvalueGet(vm, u))
                  ELSE UpvalueSet(Ahead, u, Peek(vm, 0)))

CloseUpvalue ==
    /\ Executing({"CLOSE_UPVALUE"})
    /\ Becomes(Drop(CloseUpvalues(Ahead, vm.top), 1))

\* The attributes of lists and strings are left out.
GetAttr ==
    /\ Executing({"GET_ATTR"})
    /\ LET v == Peek(vm, 0)
           o == ObjOf(vm.heap, v)
           r == InstanceAttr(vm.heap, v, Instr.s)
       IN IF IsObj(vm.heap, v, "instance") /\ r.v # Failed
          THEN Becomes(Replace([Ahead EXCEPT !.heap = r.heap], 1, r.v))
          ELSE Yields(1, CASE IsObj(vm.heap, v, "class") /\ Instr.s \in DOMAIN o.methods ->
                                o.methods[Instr.s]
                           [] IsObj(vm.heap, v, "dict") /\ Instr.s \in DOMAIN o.map ->
                                o.map[Instr.s]
                           [] OTHER -> Failed)

SetAttr ==
    /\ Executing({"SET_ATTR"})
    /\ LET v == Peek(vm, 1)
       IN Becomes(IF IsObj(vm.heap, v, "instance")
                  THEN [Drop(Ahead, 2) EXCEPT !.heap[v[2]].fields = (Instr.s :> Peek(vm, 0)) @@ @]
                  ELSE RuntimeError(Ahead))

\* on_get runs in this vm_run, on_set in one of its own.
GetIndex ==
    /\ Executing({"GET_INDEX"})
    /\ LET v == Peek(vm, 1)
       IN IF HasMethod(vm, v, "on_get")
          THEN Becomes(CallClosure(Ahead, Method(vm, v, "on_get"), 1))
          ELSE Yields(2, Element(vm.heap, v, Peek(vm, 0)))

SetIndex ==
    /\ Executing({"SET_INDEX"})
    /\ LET v == Peek(vm, 2)
           m == Drop(Ahead, 3)
           args == <<Peek(vm, 1), Peek(vm, 0)>>
           heap == WithElement(vm.heap, v, args[1], args[2])
       IN Becomes(CASE HasMethod(vm, v, "on_set") ->
                         Invoke(m, Plain("set"), Method(vm, v, "on_set"), v, args)
                    [] ~HasMethod(vm, v, "on_set") /\ heap # <<>> -> [m EXCEPT !.heap = heap]
                    [] OTHER -> RuntimeError(m))

\* Slices of strings are left out.
SliceOp ==
    /\ Executing({"SLICE"})
    /\ LET v == Peek(vm, 3)
           m == Drop(Ahead, 4)
           by == IF Peek(vm, 0) = VNull THEN 1 ELSE AsInt(Peek(vm, 0))
       IN Becomes(IF by # 0 /\ IsObj(vm.heap, v, "list")
                  THEN PushNew(m, ListObj(Sliced(ObjOf(vm.heap, v).es, Peek(vm, 2), Peek(vm, 1), by)))
                  ELSE RuntimeError(m))

GetIter ==
    /\ Executing({"GET_ITER"})
    /\ LET v == Peek(vm, 0)
       IN Becomes(IF HasMethod(vm, v, "on_iter")
                  THEN CallClosure(Ahead, Method(vm, v, "on_iter"), 0) ELSE Ahead)

PopOrDup ==
    /\ Executing({"POP", "DUP"})
    /\ Becomes(IF Instr.op = "POP" THEN Drop(Ahead, 1) ELSE Push(Ahead, Peek(vm, 0)))

\* Lists are joined; == and != ask the equals of the left operand, and
\* whatever goes wrong before it runs ends this vm_run.
Operator ==
    /\ Executing({"BINARY", "UNARY"})
    /\ LET a == Peek(vm, 1)
           b == Peek(vm, 0)
           m == Drop(Ahead, 2)
           both == IsObj(vm.heap, a, "list") /\ IsObj(vm.heap, b, "list")
           hook == Invoke(m, Plain(Instr.s), Method(vm, a, "equals"), a, <<b>>)
           same == SameValue(vm.heap, a, b)
       IN CASE Instr.op = "UNARY" -> Yields(1, Negated(vm.heap, Instr.s, b))
            [] Instr.op = "BINARY" /\ Instr.s \in {"==", "!="} ->
                 IF HasMethod(vm, a, "equals")
                 THEN Becomes(IF hook.status = "raised" THEN [hook EXCEPT !.status = "failed"]
                              ELSE hook)
                 ELSE Yields(2, VBool(same = (Instr.s = "==")))
            [] Instr.op = "BINARY" /\ Instr.s = "+" /\ both ->
                 Becomes(PushNew(m, ListObj(ObjOf(vm.heap, a).es \o ObjOf(vm.heap, b).es)))
            [] OTHER -> Yields(2, Arithmetic(Instr.s, a, b))

\* The conditional jumps leave the condition on the stack.
JumpOp ==
    /\ Executing({"JUMP", "LOOP", "JUMP_IF_FALSE", "AND", "OR"})
    /\ LET true == Truthy(vm.heap, Peek(vm, 0))
           taken == CASE Instr.op \in {"JUMP_IF_FALSE", "AND"} -> ~true
                      [] Instr.op = "OR" -> true
                      [] OTHER -> TRUE
       IN Becomes(IF taken THEN Goto(vm, Instr.a) ELSE Ahead)

\* The keys of a dict must be strings; a later entry replaces an earlier one.
DictOf(vs, n) ==
    FoldLeft(LAMBDA map, i : (vs[2 * i - 1][2] :> vs[2 * i]) @@ map,
             [x \in {} |-> VNull], [i \in 1 .. n |-> i])
Collection ==
    /\ Executing({"CREATE_LIST", "CREATE_DICT"})
    /\ LET n == IF Instr.op = "CREATE_LIST" THEN Instr.a ELSE 2 * Instr.a
           vs == Args(vm, n)
           keys == {vs[2 * i - 1] : i \in 1 .. Instr.a}
       IN Becomes(CASE Instr.op = "CREATE_LIST" -> PushNew(Drop(Ahead, n), ListObj(vs))
                    [] Instr.op = "CREATE_DICT" /\ \A v \in keys : v[1] = "str" ->
                         PushNew(Drop(Ahead, n), DictObj(DictOf(vs, Instr.a)))
                    [] OTHER -> RuntimeError(Ahead))

CallOp ==
    /\ Executing({"CALL", "INVOKE"})
    /\ Becomes(IF Instr.op = "CALL" THEN CallValue(Ahead, Instr.a)
               ELSE CallMethod(Ahead, Instr.s, Instr.a))

ReturnOp ==
    /\ Executing({"RETURN"})
    /\ Becomes(Returned(Drop(Ahead, 1), Peek(vm, 0)))

\* The upvalues of the closure id, one after the other: slots of this frame,
\* or upvalues of this closure.
Capture(m, id, u) ==
    LET r == IF u.isLocal THEN CaptureUpvalue(m, Local(m, u.index))
             ELSE [m |-> m, up |-> Closure(m).ups[u.index + 1]]
    IN [r.m EXCEPT !.heap[id].ups = Append(@, r.up)]
Captures(m, id, ups) ==
    LET after[i \in 0 .. Len(ups)] == IF i = 0 THEN m ELSE Capture(after[i - 1], id, ups[i])
    IN after[Len(ups)]

ClosureOp ==
    /\ Executing({"CLOSURE"})
    /\ Becomes(Captures(PushNew(Ahead, [k |-> "closure", fn |-> Instr.a, ups |-> <<>>]),
                        Len(vm.heap) + 1, code[Instr.a].ups))

ClassOp ==
    /\ Executing({"CLASS", "METHOD", "MARK_STRUCT", "MARK_ENUM"})
    /\ LET class == Peek(vm, IF Instr.op = "METHOD" THEN 1 ELSE 0)[2]
       IN Becomes(CASE Instr.op = "CLASS" ->
                         PushNew(Ahead, [k |-> "class", name |-> Instr.s, super |-> 0,
                                         methods |-> [x \in {} |-> VNull],
                                         isStruct |-> FALSE, isEnum |-> FALSE])
                    [] Instr.op = "METHOD" ->
                         [Drop(Ahead, 1) EXCEPT !.heap[class].methods =
                                                   (Instr.s :> Peek(vm, 0)) @@ @]
                    [] Instr.op = "MARK_STRUCT" -> [Ahead EXCEPT !.heap[class].isStruct = TRUE]
                    [] OTHER -> [Ahead EXCEPT !.heap[class].isEnum = TRUE])

\* The methods of the superclass are copied.
Inherit ==
    /\ Executing({"INHERIT"})
    /\ LET super == Peek(vm, 1)
           s == ObjOf(vm.heap, super)
       IN Becomes(IF IsObj(vm.heap, super, "class") /\ ~s.isStruct /\ ~s.isEnum
                  THEN [Drop(Ahead, 2) EXCEPT
                          !.heap[Peek(vm, 0)[2]].super = super[2],
                          !.heap[Peek(vm, 0)[2]].methods = s.methods @@ @]
                  ELSE RuntimeError(Ahead))

IsInstance ==
    /\ Executing({"ISINSTANCE"})
    /\ Yields(2, VBool(/\ IsObj(vm.heap, Peek(vm, 0), "class")
                       /\ IsObj(vm.heap, Peek(vm, 1), "instance")
                       /\ ObjOf(vm.heap, Peek(vm, 1)).class = Peek(vm, 0)[2]))

\* A method of the superclass bound to self, or a field of self.
GetSuperOp ==
    /\ Executing({"GET_SUPER"})
    /\ LET self == Peek(vm, 1)
           methods == ObjOf(vm.heap, Peek(vm, 0)).methods
           fields == ObjOf(vm.heap, self).fields
       IN IF Instr.s \in DOMAIN methods
          THEN Becomes(PushNew(Drop(Ahead, 2), [k |-> "bound", recv |-> self,
                                                method |-> methods[Instr.s]]))
          ELSE Yields(2, IF IsObj(vm.heap, self, "instance") /\ Instr.s \in DOMAIN fields
                         THEN fields[Instr.s] ELSE Failed)

\* In a generator that was called as a value the collector takes the value;
\* otherwise the frame ends as if it returned, but its handlers stay.  (That
\* end at the base of a nested vm_run is left out.)
YieldOp ==
    /\ Executing({"YIELD"})
    /\ LET v == Peek(vm, 0)
           m == CloseUpvalues(Drop(Ahead, 1), Frame(vm).slots)
       IN Becomes(CASE vm.collector # 0 /\ Function(vm).isGen ->
                         [Drop(Ahead, 1) EXCEPT !.heap[vm.collector].es = Append(@, v)]
                    [] (vm.collector = 0 \/ ~Function(vm).isGen)
                       /\ Len(vm.frames) > RunOf(vm).base + 1 ->
                         Push([m EXCEPT !.frames = Front(@), !.top = Frame(vm).slots - 1], v)
                    [] OTHER -> LeftOut(vm))

PushHandler ==
    /\ Executing({"PUSH_HANDLER"})
    /\ Becomes(IF Len(vm.handlers) >= HandlerMax THEN RuntimeError(Ahead)
               ELSE [Ahead EXCEPT !.handlers = Append(@,
                       [ip |-> Instr.a, frame |-> Len(vm.frames), base |-> RunOf(vm).base,
                        depth |-> vm.top])])

PopHandler ==
    /\ Executing({"POP_HANDLER"})
    /\ Becomes([Ahead EXCEPT !.handlers = IF @ = <<>> THEN @ ELSE Front(@)])

RaiseOp ==
    /\ Executing({"RAISE"})
    /\ Becomes(Throw(Drop(Ahead, 1), Peek(vm, 0)))

\* Handlers of vm_runs inside this one are stale and go; the handler on top
\* is taken when it is of this vm_run.
FreshHandlers ==
    LET is == {i \in 1 .. Len(vm.handlers) : vm.handlers[i].base <= RunOf(vm).base}
    IN SubSeq(vm.handlers, 1, IF is = {} THEN 0 ELSE Max(is))
Handled == FreshHandlers # <<>> /\ Last(FreshHandlers).base = RunOf(vm).base

\* flux_handle_exception with a handler: the frames above its own go.  After a
\* nested vm_run reset the stack there is no frame left, and the code reads
\* the one before the first: a crash.
Catch ==
    /\ vm.status = "raised"
    /\ Handled
    /\ LET h == Last(FreshHandlers)
           n == Min({h.frame, Len(vm.frames)})
           gone == {vm.frames[i].slots : i \in n + 1 .. Len(vm.frames)}
           m == [CloseUpvalues(vm, Min(gone \union {h.depth + 1}))
                   EXCEPT !.frames = SubSeq(@, 1, n), !.top = h.depth,
                          !.handlers = Front(FreshHandlers), !.status = "running"]
       IN Becomes(IF n = 0 THEN [vm EXCEPT !.status = "crashed"] ELSE Goto(Push(m, vm.exc), h.ip))

\* Without one, vm_reset_stack and a return from vm_run.
Unhandled ==
    /\ vm.status = "raised"
    /\ ~Handled
    /\ Becomes([vm EXCEPT !.handlers = FreshHandlers, !.top = 0, !.frames = <<>>, !.open = {},
                          !.status = "failed"])

\* The caller of a vm_run that failed: an exception again, but for equals,
\* which ends the next vm_run too.
Failure ==
    /\ vm.status = "failed"
    /\ LET r == RunOf(vm)
       IN Becomes([vm EXCEPT !.runs = Front(@),
                             !.collector = IF r.kind = "gen" THEN r.i ELSE @,
                             !.status = CASE r.kind = "script" -> "error"
                                          [] r.kind \in {"==", "!="} -> "failed"
                                          [] OTHER -> "raised"])

Next ==
    \/ Literal \/ LocalVariable \/ GlobalVariable \/ UpvalueVariable \/ CloseUpvalue
    \/ GetAttr \/ SetAttr \/ GetIndex \/ SetIndex \/ SliceOp \/ GetIter \/ PopOrDup
    \/ Operator \/ JumpOp \/ Collection \/ CallOp \/ ReturnOp \/ ClosureOp
    \/ ClassOp \/ Inherit \/ IsInstance \/ GetSuperOp \/ YieldOp
    \/ PushHandler \/ PopHandler \/ RaiseOp \/ Catch \/ Unhandled \/ Failure

\* The machine that runs the last of the functions fns.
MachineSpec(fns) == code = fns /\ vm = Execute(Len(fns)) /\ [][Next]_machineVars

(* ------------------------------- properties ----------------------------- *)

\* Open upvalues point to different slots of the stack, each into a live frame
\* (a frame or a block that ends closes its own first), and a closed one is
\* not in the list.
UpvaluesLive ==
    vm.status = "running" =>
        /\ \A u \in vm.open : vm.heap[u].open /\ vm.heap[u].slot <= vm.top
        /\ \A u, w \in vm.open : vm.heap[u].slot = vm.heap[w].slot => u = w

\* A handler on the stack of handlers belongs to a live frame of a live call of
\* vm_run, and the stack it restores is one this frame still has.
HandlersLive ==
    vm.status = "running" =>
        \A i \in DOMAIN vm.handlers :
            LET h == vm.handlers[i] IN
            /\ h.frame \in h.base + 1 .. Len(vm.frames)
            /\ h.depth \in vm.frames[h.frame].slots .. vm.top
            /\ \E r \in DOMAIN vm.runs : vm.runs[r].base = h.base
            /\ i > 1 => vm.handlers[i - 1].depth < h.depth
=============================================================================
