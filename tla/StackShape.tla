----------------------------- MODULE StackShape -----------------------------
(* When compiled code is sound without running it.  A point says how an      *)
(* instruction is reached: the height of the frame's part of the stack, the  *)
(* exception handlers the frame has pushed (where each goes on, and the      *)
(* height it restores), and the slots that open upvalues may point to.  The  *)
(* code of a function is sound when its instructions have points that agree  *)
(* along every jump and every exception.  MachineProofs shows what the       *)
(* machine promises for such code; StackWalk finds the points.               *)
EXTENDS Integers, SequencesExt

Point(height, handlers, open) == [height |-> height, handlers |-> handlers, open |-> open]

\* What an instruction adds to the stack.
Growth(in) ==
    CASE in.op \in {"PUSH_NULL", "PUSH_BOOL", "PUSH_INT", "PUSH_STRING", "LOAD_LOCAL", "LOAD_GLOBAL",
                    "GET_UPVALUE", "DUP", "CLOSURE", "CLASS", "IMPORT"} -> 1
      [] in.op \in {"POP", "CLOSE_UPVALUE", "DEFINE_GLOBAL", "GET_INDEX", "BINARY", "METHOD", "ISINSTANCE",
                    "GET_SUPER", "YIELD", "IMPORT_STAR", "RETURN", "RAISE"} -> -1
      [] in.op \in {"SET_ATTR", "INHERIT"} -> -2
      [] in.op \in {"SET_INDEX", "SLICE"} -> -3
      [] in.op = "CREATE_LIST" -> 1 - in.a
      [] in.op = "CREATE_DICT" -> 1 - 2 * in.a
      [] in.op \in {"CALL", "INVOKE", "SPAWN_CALL"} -> -in.a
      [] OTHER -> 0

\* The slots of the enclosing frame that a new closure of fn captures.
Captured(fn) == {fn.ups[i].index : i \in {j \in DOMAIN fn.ups : fn.ups[j].isLocal}}

\* The point after an instruction, and the one at the innermost handler when
\* there is an exception.
After(fns, in, p) ==
    Point(p.height + Growth(in),
          CASE in.op = "PUSH_HANDLER" -> Append(p.handlers, [ip |-> in.a, height |-> p.height])
            [] in.op = "POP_HANDLER" -> Front(p.handlers)
            [] OTHER -> p.handlers,
          CASE in.op = "CLOSURE" -> p.open \union Captured(fns[in.a])
            [] in.op = "CLOSE_UPVALUE" -> p.open \ {p.height - 1}
            [] OTHER -> p.open)
Caught(p) ==
    LET e == Last(p.handlers)
    IN Point(e.height + 1, Front(p.handlers), {q \in p.open : q < e.height})

\* Where an instruction goes on.
Targets(in, ip) ==
    CASE in.op \in {"RETURN", "RAISE"} -> {}
      [] in.op \in {"JUMP", "LOOP"} -> {in.a}
      [] in.op \in {"JUMP_IF_FALSE", "AND", "OR"} -> {in.a, ip + 1}
      [] OTHER -> {ip + 1}

\* An instruction reached at p is also reached at q: no upvalue is forgotten.
Agrees(p, q) == p.height = q.height /\ p.handlers = q.handlers /\ p.open \subseteq q.open

\* The points an instruction may be reached at.  The instructions that may
\* call a function leave a value above those the handlers of the frame keep.
MayCall == {"CALL", "INVOKE", "GET_INDEX", "GET_ITER", "BINARY"}
Counts == {"CALL", "INVOKE", "CREATE_LIST", "CREATE_DICT", "LOAD_LOCAL", "STORE_LOCAL",
           "GET_UPVALUE", "SET_UPVALUE"}
Points == [height : Nat \ {0}, handlers : Seq([ip : Nat, height : Nat \ {0}]), open : SUBSET Nat]
HandlersFit(p) ==
    \A i \in DOMAIN p.handlers :
        /\ p.handlers[i].height <= p.height
        /\ i > 1 => p.handlers[i - 1].height < p.handlers[i].height
CapturesFit(fns, fn, in, p) ==
    /\ in.a \in DOMAIN fns
    /\ \A i \in DOMAIN fns[in.a].ups :
          LET u == fns[in.a].ups[i]
          IN u.index \in 0 .. (IF u.isLocal THEN p.height ELSE Len(fn.ups)) - 1
Sound(fns, fn, in, p) ==
    /\ p \in Points
    /\ \A q \in p.open : q < p.height
    /\ HandlersFit(p)
    /\ in.op \in Counts => in.a \in Nat
    /\ in.op \in {"LOAD_LOCAL", "STORE_LOCAL"} => in.a < p.height
    /\ in.op \in {"GET_UPVALUE", "SET_UPVALUE"} => in.a < Len(fn.ups)
    /\ in.op = "RETURN" => p.height >= 2 /\ p.handlers = <<>>
    /\ in.op = "POP_HANDLER" => p.handlers # <<>>
    /\ in.op = "CLOSURE" => CapturesFit(fns, fn, in, p)
    /\ in.op \in MayCall /\ p.handlers # <<>> =>
          p.height + Growth(in) > Last(p.handlers).height

\* The points at of the function fn agree.
Entry(fn) == Point(1 + fn.arity, <<>>, {})
Shaped(fns, fn, at) ==
    /\ 1 \in DOMAIN at /\ Agrees(Entry(fn), at[1])
    /\ \A ip \in DOMAIN at :
          LET in == fn.code[ip]
              p == at[ip]
          IN /\ ip \in DOMAIN fn.code
             /\ Sound(fns, fn, in, p)
             /\ \A t \in Targets(in, ip) : t \in DOMAIN at /\ Agrees(After(fns, in, p), at[t])
             /\ p.handlers # <<>> =>
                   LET t == Last(p.handlers).ip
                   IN t \in DOMAIN at /\ Agrees(Caught(p), at[t])

\* So do those of all functions.  The script takes no arguments, and the
\* handlers of a generator are gone when it yields: OP_YIELD leaves them
\* when the frame ends.
Listed(s) == Len(s) \in Nat /\ s = [i \in 1 .. Len(s) |-> s[i]]
SoundProgram(fns, at) ==
    /\ Listed(fns) /\ fns # <<>> /\ fns[Len(fns)].arity = 0
    /\ \A f \in DOMAIN fns :
          /\ fns[f].arity \in Nat /\ Listed(fns[f].ups) /\ Listed(fns[f].code)
          /\ Shaped(fns, fns[f], at[f])
          /\ \A ip \in DOMAIN at[f] : fns[f].code[ip].op = "YIELD" => at[f][ip].handlers = <<>>
=============================================================================
