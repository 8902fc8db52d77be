---------------------------- MODULE MachineProofs ---------------------------
(***************************************************************************)
(* What the machine promises for code that is sound by StackShape: open    *)
(* upvalues and exception handlers are always of live frames.              *)
(***************************************************************************)
EXTENDS Machine, StackShape, QueueLemmas

CONSTANTS Fns,          \* the functions of a program, the script last
          PointAt       \* the points of their instructions

(* ------------------------------- sequences ------------------------------- *)

IsSeq(s) == \E S : s \in Seq(S)
Over(s, S) == IsSeq(s) /\ \A i \in DOMAIN s : s[i] \in S

\* The length and the positions of a sequence.
LEMMA SeqLen ==
    ASSUME NEW s, IsSeq(s)
    PROVE  Len(s) \in Nat /\ DOMAIN s = 1 .. Len(s) /\ (s # <<>> <=> Len(s) > 0)
BY DEF IsSeq

\* The elements of a sequence over S.
LEMMA SeqElements ==
    ASSUME NEW S, NEW s \in Seq(S)
    PROVE  \A i \in DOMAIN s : s[i] \in S
OBVIOUS

\* A function of the numbers up to n.
LEMMA SeqFunction ==
    ASSUME NEW n \in Nat, NEW f, NEW S, f \in [1 .. n -> S]
    PROVE  IsSeq(f) /\ Len(f) = n /\ DOMAIN f = 1 .. n
<1>1. f \in Seq(S)
  BY SeqDef
<1>2. Len(f) \in Nat /\ 1 .. Len(f) = 1 .. n
  BY <1>1
<1> QED BY <1>1, <1>2 DEF IsSeq

\* The same for a function that is given, and for pairs.
LEMMA SeqListed ==
    ASSUME NEW n \in Int, NEW f, f = [i \in 1 .. n |-> f[i]]
    PROVE  IsSeq(f) /\ DOMAIN f = 1 .. n
<1> DEFINE S == {f[i] : i \in 1 .. n}
<1>1. DOMAIN f = 1 .. n
  OBVIOUS
<1>2. f \in [1 .. n -> S]
  BY <1>1
<1>3. CASE n \in Nat
  BY <1>1, <1>2, <1>3, SeqFunction
<1>4. CASE n \notin Nat
  <2>1. 1 .. n = 1 .. 0 /\ 0 \in Nat
    BY <1>4
  <2>2. f \in [1 .. 0 -> S]
    BY <1>2, <2>1
  <2> QED BY <1>1, <2>1, <2>2, SeqFunction
<1> QED BY <1>3, <1>4

\* Pairs, and sequences of one element and of none.
LEMMA SeqPair ==
    ASSUME NEW x, NEW y
    PROVE  IsSeq(<<x, y>>) /\ IsSeq(<<x>>) /\ IsSeq(<<>>)
<1>1. <<x, y>> \in Seq({x, y}) /\ <<x>> \in Seq({x}) /\ <<>> \in Seq({x})
  OBVIOUS
<1> QED BY <1>1 DEF IsSeq

\* What Append does.
LEMMA SeqAppend ==
    ASSUME NEW s, NEW x, IsSeq(s)
    PROVE  /\ IsSeq(Append(s, x)) /\ Len(Append(s, x)) = Len(s) + 1
           /\ DOMAIN Append(s, x) = 1 .. Len(s) + 1
           /\ Append(s, x)[Len(s) + 1] = x
           /\ \A i \in 1 .. Len(s) : Append(s, x)[i] = s[i]
<1>1. PICK S : s \in Seq(S)
  BY DEF IsSeq
<1>2. s \in Seq(S \union {x}) /\ x \in S \union {x}
  BY <1>1
<1>3. Append(s, x) \in Seq(S \union {x})
  BY <1>2
<1> QED BY <1>1, <1>3 DEF IsSeq

\* Overwriting a position.
LEMMA SeqExcept ==
    ASSUME NEW s, NEW n, NEW x, IsSeq(s)
    PROVE  /\ IsSeq([s EXCEPT ![n] = x]) /\ Len([s EXCEPT ![n] = x]) = Len(s)
           /\ DOMAIN [s EXCEPT ![n] = x] = DOMAIN s
           /\ n \in DOMAIN s => [s EXCEPT ![n] = x][n] = x
           /\ \A i \in DOMAIN s : i # n => [s EXCEPT ![n] = x][i] = s[i]
<1>1. PICK S : s \in Seq(S)
  BY DEF IsSeq
<1>2. s \in Seq(S \union {x}) /\ x \in S \union {x}
  BY <1>1
<1>3. [s EXCEPT ![n] = x] \in Seq(S \union {x})
  BY <1>2, ExceptInSeq
<1>4. Len([s EXCEPT ![n] = x]) = Len(s)
  BY <1>1, <1>3
<1> QED BY <1>1, <1>3, <1>4 DEF IsSeq

\* The first n elements.
LEMMA SeqPrefix ==
    ASSUME NEW s, IsSeq(s), NEW n \in 0 .. Len(s)
    PROVE  /\ IsSeq(SubSeq(s, 1, n)) /\ Len(SubSeq(s, 1, n)) = n
           /\ DOMAIN SubSeq(s, 1, n) = 1 .. n
           /\ \A i \in 1 .. n : SubSeq(s, 1, n)[i] = s[i]
<1>1. PICK S : s \in Seq(S)
  BY DEF IsSeq
<1>2. /\ SubSeq(s, 1, n) \in Seq(S) /\ Len(SubSeq(s, 1, n)) = n
      /\ \A i \in 1 .. n : SubSeq(s, 1, n)[i] = s[i]
  <2>1. Len(s) \in Nat /\ n \in Nat
    BY <1>1
  <2>2. 1 \in 1 .. Len(s) + 1 /\ n \in 0 .. Len(s)
    BY <2>1
  <2> QED BY <1>1, <2>1, <2>2, SubSeqProperties
<1> QED BY <1>1, <1>2 DEF IsSeq

\* All but the last element, and the last one.
LEMMA SeqFront ==
    ASSUME NEW s, IsSeq(s), s # <<>>
    PROVE  /\ Front(s) = SubSeq(s, 1, Len(s) - 1) /\ Last(s) = s[Len(s)]
           /\ Len(s) \in DOMAIN s /\ Len(s) - 1 \in 0 .. Len(s)
BY SeqLen DEF Front, Last

\* One sequence after the other.
LEMMA SeqConcat ==
    ASSUME NEW s, NEW t, IsSeq(s), IsSeq(t)
    PROVE  /\ IsSeq(s \o t) /\ Len(s \o t) = Len(s) + Len(t)
           /\ \A i \in 1 .. Len(s) : (s \o t)[i] = s[i]
           /\ \A i \in 1 .. Len(t) : (s \o t)[Len(s) + i] = t[i]
<1>1. PICK S, T : s \in Seq(S) /\ t \in Seq(T)
  BY DEF IsSeq
<1>2. s \in Seq(S \union T) /\ t \in Seq(S \union T)
  BY <1>1
<1>3. s \o t \in Seq(S \union T)
  BY <1>2
<1> QED BY <1>2, <1>3 DEF IsSeq

\* The least and the greatest of a set that has one.
LEMMA MinIs ==
    ASSUME NEW T, \E i \in T : \A j \in T : i <= j
    PROVE  Min(T) \in T /\ \A j \in T : Min(T) <= j
BY DEF Min

\* The greatest of a set that has one.
LEMMA MaxIs ==
    ASSUME NEW T, \E i \in T : \A j \in T : i >= j
    PROVE  Max(T) \in T /\ \A j \in T : Max(T) >= j
BY DEF Max

\* Sequences over a set.
LEMMA OverAppend ==
    ASSUME NEW S, NEW s, NEW x \in S, Over(s, S)
    PROVE  Over(Append(s, x), S)
<1>1. IsSeq(s)
  BY DEF Over
<1>2. /\ IsSeq(Append(s, x)) /\ DOMAIN Append(s, x) = 1 .. Len(s) + 1
      /\ Append(s, x)[Len(s) + 1] = x
      /\ \A i \in 1 .. Len(s) : Append(s, x)[i] = s[i]
  BY <1>1, SeqAppend
<1>3. Len(s) \in Nat /\ DOMAIN s = 1 .. Len(s)
  BY <1>1, SeqLen
<1>4. ASSUME NEW i \in 1 .. Len(s) + 1
      PROVE  Append(s, x)[i] \in S
  <2>1. i = Len(s) + 1 \/ i \in 1 .. Len(s)
    BY <1>3
  <2> QED BY <1>2, <1>3, <2>1 DEF Over
<1> QED BY <1>2, <1>4 DEF Over

\* Overwriting an element with one of S.
LEMMA OverExcept ==
    ASSUME NEW S, NEW s, NEW n, NEW x \in S, Over(s, S)
    PROVE  Over([s EXCEPT ![n] = x], S)
<1>1. IsSeq(s)
  BY DEF Over
<1>2. /\ IsSeq([s EXCEPT ![n] = x]) /\ DOMAIN [s EXCEPT ![n] = x] = DOMAIN s
      /\ n \in DOMAIN s => [s EXCEPT ![n] = x][n] = x
      /\ \A i \in DOMAIN s : i # n => [s EXCEPT ![n] = x][i] = s[i]
  BY <1>1, SeqExcept
<1> HIDE DEF IsSeq
<1> QED BY <1>2 DEF Over

\* The first n elements of a sequence over S.
LEMMA OverPrefix ==
    ASSUME NEW S, NEW s, Over(s, S), NEW n \in 0 .. Len(s)
    PROVE  Over(SubSeq(s, 1, n), S)
<1>1. IsSeq(s)
  BY DEF Over
<1>2. /\ IsSeq(SubSeq(s, 1, n)) /\ DOMAIN SubSeq(s, 1, n) = 1 .. n
      /\ \A i \in 1 .. n : SubSeq(s, 1, n)[i] = s[i]
  BY <1>1, SeqPrefix
<1>3. Len(s) \in Nat /\ DOMAIN s = 1 .. Len(s) /\ 1 .. n \subseteq DOMAIN s
  BY <1>1, SeqLen
<1> QED BY <1>2, <1>3 DEF Over

(* ----------------------- the machine and its objects --------------------- *)

FrameType == [closure : Nat, ip : Nat, slots : Int]
HandlerType == [ip : Nat, frame : Nat \ {0}, base : Nat, depth : Int]
Kinds == {"script", "gen", "==", "!=", "set", "len", "map", "filter", "reduce"}
Fields(m) ==
    DOMAIN m = {"stack", "top", "frames", "handlers", "runs", "heap", "globals", "open",
                "collector", "out", "exc", "status"}

\* An object of the heap, as far as frames and upvalues depend on it.
Object(o) ==
    /\ "k" \in DOMAIN o
    /\ o.k = "closure" => "fn" \in DOMAIN o /\ o.fn \in DOMAIN Fns
    /\ o.k = "upvalue" => "open" \in DOMAIN o /\ "slot" \in DOMAIN o /\ o.slot \in Int
    /\ o.k = "list" => "es" \in DOMAIN o /\ IsSeq(o.es)
HeapOK(h) == IsSeq(h) /\ \A a \in DOMAIN h : Object(h[a])

\* The object o has become p, and the heap h has become g.
Same(o, p) ==
    /\ "k" \in DOMAIN p /\ p.k = o.k
    /\ o.k = "closure" => "fn" \in DOMAIN p /\ p.fn = o.fn
    /\ o.k = "upvalue" => /\ "open" \in DOMAIN p /\ p.open = o.open
                          /\ "slot" \in DOMAIN p /\ p.slot = o.slot
    /\ o.k = "list" => "es" \in DOMAIN p /\ IsSeq(p.es)
HeapGrows(h, g) ==
    /\ IsSeq(g) /\ Len(h) <= Len(g)
    /\ \A a \in DOMAIN h : Same(h[a], g[a])
    /\ \A a \in DOMAIN g : a \notin DOMAIN h => Object(g[a])

\* m has become n without a change of frames, handlers, runs and upvalues.
Calm(m, n) ==
    /\ Fields(n) /\ n.frames = m.frames /\ n.handlers = m.handlers /\ n.runs = m.runs
    /\ n.open = m.open /\ HeapGrows(m.heap, n.heap)

\* What Same keeps is still an object.
LEMMA SameKeeps ==
    ASSUME NEW o, NEW p, Object(o), Same(o, p)
    PROVE  Object(p)
BY DEF Object, Same

\* A heap that stays as it is.
LEMMA GrowsRefl ==
    ASSUME NEW h, HeapOK(h)
    PROVE  HeapGrows(h, h)
<1>1. IsSeq(h) /\ Len(h) \in Nat
  BY SeqLen DEF HeapOK
<1> HIDE DEF IsSeq
<1> QED BY <1>1 DEF HeapOK, HeapGrows, Same, Object

\* A heap that grew is a heap with the old addresses.
LEMMA GrowsKeeps ==
    ASSUME NEW h, NEW g, HeapOK(h), HeapGrows(h, g)
    PROVE  HeapOK(g) /\ DOMAIN h \subseteq DOMAIN g
<1>1. IsSeq(h) /\ IsSeq(g) /\ Len(h) <= Len(g)
  BY DEF HeapOK, HeapGrows
<1>2. Len(h) \in Nat /\ DOMAIN h = 1 .. Len(h) /\ Len(g) \in Nat /\ DOMAIN g = 1 .. Len(g)
  BY <1>1, SeqLen
<1>3. ASSUME NEW a \in DOMAIN g
      PROVE  Object(g[a])
  <2>1. CASE a \in DOMAIN h
    <3>1. Object(h[a]) /\ Same(h[a], g[a])
      BY <2>1 DEF HeapOK, HeapGrows
    <3> QED BY <3>1, SameKeeps
  <2> QED BY <2>1 DEF HeapGrows
<1> QED BY <1>1, <1>2, <1>3 DEF HeapOK

\* Growing twice.
LEMMA GrowsTrans ==
    ASSUME NEW h, NEW g, NEW f, HeapOK(h), HeapGrows(h, g), HeapGrows(g, f)
    PROVE  HeapGrows(h, f)
<1>1. HeapOK(g) /\ DOMAIN h \subseteq DOMAIN g /\ HeapOK(f) /\ DOMAIN g \subseteq DOMAIN f
  BY GrowsKeeps
<1>2. IsSeq(f) /\ Len(h) \in Nat /\ Len(g) \in Nat /\ Len(f) \in Nat
      /\ Len(h) <= Len(g) /\ Len(g) <= Len(f)
  BY <1>1, SeqLen DEF HeapOK, HeapGrows
<1>3. ASSUME NEW a \in DOMAIN h
      PROVE  Same(h[a], f[a])
  <2>1. Same(h[a], g[a]) /\ Same(g[a], f[a])
    BY <1>1 DEF HeapGrows
  <2> QED BY <2>1 DEF Same
<1>4. ASSUME NEW a \in DOMAIN f
      PROVE  Object(f[a])
  BY <1>1 DEF HeapOK
<1> QED BY <1>2, <1>3, <1>4 DEF HeapGrows

\* Growing by an object (gc_alloc).
LEMMA GrowsAppend ==
    ASSUME NEW h, HeapOK(h), NEW o, Object(o)
    PROVE  /\ HeapGrows(h, Append(h, o))
           /\ Len(h) \in Nat /\ Append(h, o)[Len(h) + 1] = o
           /\ Len(h) + 1 \in DOMAIN Append(h, o)
<1>1. IsSeq(h) /\ Len(h) \in Nat /\ DOMAIN h = 1 .. Len(h)
  BY SeqLen DEF HeapOK
<1>2. /\ IsSeq(Append(h, o)) /\ Len(Append(h, o)) = Len(h) + 1
      /\ DOMAIN Append(h, o) = 1 .. Len(h) + 1
      /\ Append(h, o)[Len(h) + 1] = o
      /\ \A i \in 1 .. Len(h) : Append(h, o)[i] = h[i]
  BY <1>1, SeqAppend
<1>3. ASSUME NEW a \in DOMAIN h
      PROVE  Same(h[a], Append(h, o)[a])
  <2>1. Object(h[a]) /\ Append(h, o)[a] = h[a]
    BY <1>1, <1>2 DEF HeapOK
  <2> QED BY <2>1 DEF Same, Object
<1>4. ASSUME NEW a \in DOMAIN Append(h, o), a \notin DOMAIN h
      PROVE  Object(Append(h, o)[a])
  <2>1. a = Len(h) + 1
    BY <1>1, <1>2, <1>4
  <2> QED BY <1>2, <2>1
<1>5. Len(h) <= Len(Append(h, o)) /\ Len(h) + 1 \in DOMAIN Append(h, o)
  BY <1>1, <1>2
<1> HIDE DEF IsSeq
<1> QED BY <1>1, <1>2, <1>3, <1>4, <1>5 DEF HeapGrows

\* An object that changes in another field.
LEMMA GrowsExcept ==
    ASSUME NEW h, HeapOK(h), NEW a, NEW o, a \in DOMAIN h => Same(h[a], o)
    PROVE  HeapGrows(h, [h EXCEPT ![a] = o])
<1>1. IsSeq(h) /\ Len(h) \in Nat
  BY SeqLen DEF HeapOK
<1> DEFINE g == [h EXCEPT ![a] = o]
<1>2. /\ IsSeq(g) /\ Len(g) = Len(h) /\ DOMAIN g = DOMAIN h
      /\ a \in DOMAIN h => g[a] = o
      /\ \A i \in DOMAIN h : i # a => g[i] = h[i]
  BY <1>1, SeqExcept
<1> HIDE DEF g, IsSeq
<1>3. ASSUME NEW i \in DOMAIN h
      PROVE  Same(h[i], g[i])
  <2>1. CASE i = a
    BY <1>2, <2>1
  <2>2. CASE i # a
    <3>1. g[i] = h[i] /\ Object(h[i])
      BY <1>2, <2>2 DEF HeapOK
    <3> QED BY <3>1 DEF Same, Object
  <2> QED BY <2>1, <2>2
<1>4. HeapGrows(h, g)
  BY <1>1, <1>2, <1>3 DEF HeapGrows
<1> QED BY <1>4 DEF g

\* The fields frames and upvalues do not depend on.
LEMMA SameExcept ==
    ASSUME NEW o, Object(o), NEW x
    PROVE  /\ (o.k = "list" => IsSeq(x)) => Same(o, [o EXCEPT !.es = x])
           /\ Same(o, [o EXCEPT !.map = x])
           /\ Same(o, [o EXCEPT !.fields = x]) /\ Same(o, [o EXCEPT !.methods = x])
           /\ Same(o, [o EXCEPT !.super = x]) /\ Same(o, [o EXCEPT !.isStruct = x])
           /\ Same(o, [o EXCEPT !.isEnum = x]) /\ Same(o, [o EXCEPT !.val = x])
           /\ Same(o, [o EXCEPT !.ups = x])
BY DEF Object, Same

\* The fields of an object that may change.
LEMMA GrowsField ==
    ASSUME NEW h, HeapOK(h), NEW a, NEW x
    PROVE  /\ (a \in DOMAIN h /\ h[a].k = "list" => IsSeq(x)) => HeapGrows(h, [h EXCEPT ![a].es = x])
           /\ HeapGrows(h, [h EXCEPT ![a].map = x])
           /\ HeapGrows(h, [h EXCEPT ![a].fields = x]) /\ HeapGrows(h, [h EXCEPT ![a].methods = x])
           /\ HeapGrows(h, [h EXCEPT ![a].super = x]) /\ HeapGrows(h, [h EXCEPT ![a].isStruct = x])
           /\ HeapGrows(h, [h EXCEPT ![a].isEnum = x]) /\ HeapGrows(h, [h EXCEPT ![a].val = x])
           /\ HeapGrows(h, [h EXCEPT ![a].ups = x])
<1>1. a \in DOMAIN h => Object(h[a])
  BY DEF HeapOK
<1>2. (a \in DOMAIN h /\ h[a].k = "list" => IsSeq(x)) => HeapGrows(h, [h EXCEPT ![a].es = x])
  BY <1>1, SameExcept, GrowsExcept
<1>3. HeapGrows(h, [h EXCEPT ![a].map = x])
  BY <1>1, SameExcept, GrowsExcept
<1>4. HeapGrows(h, [h EXCEPT ![a].fields = x])
  BY <1>1, SameExcept, GrowsExcept
<1>5. HeapGrows(h, [h EXCEPT ![a].methods = x])
  BY <1>1, SameExcept, GrowsExcept
<1>6. HeapGrows(h, [h EXCEPT ![a].super = x])
  BY <1>1, SameExcept, GrowsExcept
<1>7. HeapGrows(h, [h EXCEPT ![a].isStruct = x])
  BY <1>1, SameExcept, GrowsExcept
<1>8. HeapGrows(h, [h EXCEPT ![a].isEnum = x])
  BY <1>1, SameExcept, GrowsExcept
<1>9. HeapGrows(h, [h EXCEPT ![a].val = x])
  BY <1>1, SameExcept, GrowsExcept
<1>10. HeapGrows(h, [h EXCEPT ![a].ups = x])
  BY <1>1, SameExcept, GrowsExcept
<1> QED BY <1>2, <1>3, <1>4, <1>5, <1>6, <1>7, <1>8, <1>9, <1>10

(* ------------------- operators that keep frames and upvalues ------------- *)

Ready(m) == Fields(m) /\ HeapOK(m.heap)

\* Calm, with the same status and t values on the stack.
Quiet(m, n, t) == Calm(m, n) /\ n.status = m.status /\ n.top = t

\* A calm step leads to a machine that is ready for the next.
LEMMA CalmReady ==
    ASSUME NEW m, NEW n, Ready(m), Calm(m, n)
    PROVE  Ready(n) /\ DOMAIN m.heap \subseteq DOMAIN n.heap
BY GrowsKeeps DEF Ready, Calm

\* Two calm steps.
LEMMA CalmTrans ==
    ASSUME NEW m, NEW n, NEW p, Ready(m), Calm(m, n), Calm(n, p)
    PROVE  Calm(m, p)
BY GrowsTrans DEF Ready, Calm

\* No step at all.
LEMMA CalmRefl ==
    ASSUME NEW m, Ready(m)
    PROVE  Calm(m, m)
BY GrowsRefl DEF Ready, Calm

\* Two quiet steps.
LEMMA QuietTrans ==
    ASSUME NEW m, NEW n, NEW p, NEW s, NEW t, Ready(m), Quiet(m, n, s), Quiet(n, p, t)
    PROVE  Quiet(m, p, t)
BY CalmTrans DEF Quiet

\* The value stack is no concern of the frames.
LEMMA PushQuiet ==
    ASSUME NEW m, Ready(m), NEW v
    PROVE  Quiet(m, Push(m, v), m.top + 1)
BY GrowsRefl DEF Ready, Fields, Quiet, Calm, Push

\* Pushing several values.
LEMMA PushAllQuiet ==
    ASSUME NEW m, Ready(m), NEW vs
    PROVE  Quiet(m, PushAll(m, vs), m.top + Len(vs))
BY GrowsRefl DEF Ready, Fields, Quiet, Calm, PushAll

\* Popping.
LEMMA DropQuiet ==
    ASSUME NEW m, Ready(m), NEW k
    PROVE  Quiet(m, Drop(m, k), m.top - k)
BY GrowsRefl DEF Ready, Fields, Quiet, Calm, Drop

\* Overwriting a value of the stack.
LEMMA PutQuiet ==
    ASSUME NEW m, Ready(m), NEW p, NEW v
    PROVE  Quiet(m, Put(m, p, v), m.top)
BY GrowsRefl DEF Ready, Fields, Quiet, Calm, Put

\* A value in place of those on top.
LEMMA ReplaceQuiet ==
    ASSUME NEW m, Ready(m), NEW k, NEW v
    PROVE  Quiet(m, Replace(m, k, v), m.top - k + 1)
<1> DEFINE d == Drop(m, k)
<1>1. Quiet(m, d, m.top - k)
  BY DropQuiet
<1>2. Ready(d) /\ d.top = m.top - k
  BY <1>1, CalmReady DEF Quiet
<1> HIDE DEF d
<1>3. Quiet(d, Push(d, v), d.top + 1)
  BY <1>2, PushQuiet
<1>4. Quiet(m, Push(d, v), m.top - k + 1)
  BY <1>1, <1>2, <1>3, QuietTrans
<1> QED BY <1>4 DEF Replace, d

\* A heap that grew, and globals.
LEMMA HeapQuiet ==
    ASSUME NEW m, Ready(m), NEW h, HeapGrows(m.heap, h)
    PROVE  Quiet(m, [m EXCEPT !.heap = h], m.top) /\ [m EXCEPT !.heap = h].heap = h
BY DEF Ready, Fields, Quiet, Calm

\* The globals, the output and the collector are no concern of the frames.
LEMMA OtherQuiet ==
    ASSUME NEW m, Ready(m), NEW x
    PROVE  /\ Quiet(m, [m EXCEPT !.globals = x], m.top)
           /\ Quiet(m, [m EXCEPT !.out = x], m.top)
           /\ Quiet(m, [m EXCEPT !.collector = x], m.top)
BY GrowsRefl DEF Ready, Fields, Quiet, Calm

\* Nor is a new object.
LEMMA AllocQuiet ==
    ASSUME NEW m, Ready(m), NEW o, Object(o)
    PROVE  Quiet(m, Alloc(m, o), m.top)
<1> DEFINE h == Append(m.heap, o)
<1>1. HeapGrows(m.heap, h)
  BY GrowsAppend DEF Ready
<1> HIDE DEF h
<1>2. Quiet(m, [m EXCEPT !.heap = h], m.top)
  BY <1>1, HeapQuiet
<1> QED BY <1>2 DEF Alloc, h

\* A new object on top of the stack.
LEMMA PushNewQuiet ==
    ASSUME NEW m, Ready(m), NEW o, Object(o)
    PROVE  Quiet(m, PushNew(m, o), m.top + 1)
<1> DEFINE a == Alloc(m, o)
           v == VRef(Len(m.heap) + 1)
<1>1. Quiet(m, a, m.top)
  BY AllocQuiet
<1>2. Ready(a) /\ a.top = m.top
  BY <1>1, CalmReady DEF Quiet
<1> HIDE DEF a, v
<1>3. Quiet(a, Push(a, v), a.top + 1)
  BY <1>2, PushQuiet
<1>4. Quiet(m, Push(a, v), m.top + 1)
  BY <1>1, <1>2, <1>3, QuietTrans
<1> QED BY <1>4 DEF PushNew, a, v

\* An exception, and an operation that is left out.
LEMMA ThrowCalm ==
    ASSUME NEW m, Ready(m), NEW v
    PROVE  /\ Calm(m, Throw(m, v)) /\ Throw(m, v).status = "raised"
           /\ Calm(m, RuntimeError(m)) /\ RuntimeError(m).status = "raised"
           /\ Calm(m, LeftOut(m)) /\ LeftOut(m).status = "left out"
BY GrowsRefl DEF Ready, Fields, Calm, Throw, RuntimeError, LeftOut

\* Objects that are neither closures nor upvalues.
LEMMA NewObjects ==
    ASSUME NEW x, NEW y, NEW z
    PROVE  /\ IsSeq(x) => Object(ListObj(x))
           /\ Object(DictObj(x))
           /\ Object([k |-> "bound", recv |-> x, method |-> y])
           /\ Object([k |-> "instance", class |-> x, fields |-> y])
           /\ Object([k |-> "class", name |-> x, super |-> y, methods |-> z,
                      isStruct |-> FALSE, isEnum |-> FALSE])
BY DEF Object, ListObj, DictObj

(* ------------------------ operators on the heap -------------------------- *)

\* A built-in that returns a new object.
LEMMA FreshGrows ==
    ASSUME NEW h, HeapOK(h), NEW o, Object(o)
    PROVE  HeapGrows(h, Fresh(h, o).heap)
BY GrowsAppend DEF Fresh, Gives

\* A built-in that returns a value, and one that fails.
LEMMA GivesGrows ==
    ASSUME NEW h, HeapOK(h), NEW v
    PROVE  HeapGrows(h, Gives(h, v).heap) /\ HeapGrows(h, Refuses(h).heap)
BY GrowsRefl DEF Gives, Refuses

\* A built-in that returns a list of new lists.
LEMMA FreshPairsGrows ==
    ASSUME NEW h, HeapOK(h), NEW ps, IsSeq(ps), \A i \in DOMAIN ps : IsSeq(ps[i])
    PROVE  HeapGrows(h, FreshPairs(h, ps).heap)
<1> DEFINE lists == [i \in DOMAIN ps |-> ListObj(ps[i])]
           g == h \o lists
           o == ListObj([i \in DOMAIN ps |-> VRef(Len(h) + i)])
<1>1. IsSeq(h) /\ Len(h) \in Nat /\ DOMAIN h = 1 .. Len(h) /\ Len(ps) \in Nat /\ DOMAIN ps = 1 .. Len(ps)
  BY SeqLen DEF HeapOK
<1>2. IsSeq(lists) /\ DOMAIN lists = 1 .. Len(ps) /\ Len(lists) = Len(ps)
  <2>1. lists \in [1 .. Len(ps) -> {ListObj(ps[i]) : i \in DOMAIN ps}]
    BY <1>1
  <2> HIDE DEF lists, IsSeq
  <2> QED BY <1>1, <2>1, SeqFunction
<1>3. \A i \in 1 .. Len(ps) : Object(lists[i])
  BY <1>1, NewObjects
<1> HIDE DEF lists
<1>4. /\ IsSeq(g) /\ Len(g) = Len(h) + Len(ps)
      /\ \A i \in 1 .. Len(h) : g[i] = h[i]
      /\ \A i \in 1 .. Len(ps) : g[Len(h) + i] = lists[i]
  BY <1>1, <1>2, SeqConcat
<1>5. DOMAIN g = 1 .. Len(h) + Len(ps)
  BY <1>1, <1>4, SeqLen
<1> HIDE DEF g, IsSeq
<1>6. ASSUME NEW a \in DOMAIN h
      PROVE  Same(h[a], g[a])
  BY <1>1, <1>4 DEF HeapOK, Same, Object
<1>7. ASSUME NEW a \in DOMAIN g, a \notin DOMAIN h
      PROVE  Object(g[a])
  <2>1. a - Len(h) \in 1 .. Len(ps) /\ a = Len(h) + (a - Len(h))
    BY <1>1, <1>5, <1>7
  <2> QED BY <1>3, <1>4, <2>1
<1>8. HeapGrows(h, g)
  BY <1>1, <1>4, <1>6, <1>7 DEF HeapGrows
<1>9. HeapOK(g) /\ Object(o)
  <2> DEFINE refs == [i \in DOMAIN ps |-> VRef(Len(h) + i)]
  <2>1. refs = [i \in 1 .. Len(ps) |-> refs[i]]
    BY <1>1
  <2> HIDE DEF refs
  <2>2. IsSeq(refs)
    BY <1>1, <2>1, SeqListed
  <2>3. Object(ListObj(refs))
    BY <2>2, NewObjects
  <2> QED BY <1>8, <2>3, GrowsKeeps DEF refs
<1> HIDE DEF o
<1>10. HeapGrows(g, Append(g, o))
  BY <1>9, GrowsAppend
<1>11. HeapGrows(h, Append(g, o))
  BY <1>8, <1>10, GrowsTrans
<1>12. FreshPairs(h, ps).heap = Append(g, o)
  BY DEF FreshPairs, Fresh, Gives, g, o, lists
<1> QED BY <1>11, <1>12

\* The attribute of an instance: its value or a bound method.
LEMMA InstanceAttrGrows ==
    ASSUME NEW h, HeapOK(h), NEW v, NEW name
    PROVE  HeapGrows(h, InstanceAttr(h, v, name).heap)
BY FreshGrows, GivesGrows, NewObjects DEF InstanceAttr

\* Integer division.
LEMMA DivInt ==
    ASSUME NEW a \in Int, NEW b \in Int, b > 0
    PROVE  a \div b \in Int
OBVIOUS

\* What AsInt makes of a value is an integer.
LEMMA AsIntInt ==
    ASSUME NEW v
    PROVE  AsInt(v) \in Int
BY DEF AsInt

\* range returns a new list.
LEMMA RangeGrows ==
    ASSUME NEW h, HeapOK(h), NEW args
    PROVE  HeapGrows(h, Range3(h, args).heap)
<1> DEFINE lo == IF Len(args) = 1 THEN 0 ELSE AsInt(args[1])
           hi == AsInt(args[IF Len(args) = 1 THEN 1 ELSE 2])
           by == IF Len(args) >= 3 THEN AsInt(args[3]) ELSE 1
           count == IF by > 0 THEN (hi - lo + by - 1) \div by ELSE (lo - hi - by - 1) \div (-by)
           es == [i \in 1 .. count |-> VInt(lo + (i - 1) * by)]
<1>1. lo \in Int /\ hi \in Int /\ by \in Int
  BY AsIntInt
<1>2. CASE by = 0
  BY <1>2, GivesGrows DEF Range3
<1>3. CASE by # 0
  <2> HIDE DEF lo, hi, by
  <2>1. count \in Int
    <3>1. CASE by > 0
      <4>1. hi - lo + by - 1 \in Int
        BY <1>1
      <4> QED BY <1>1, <3>1, <4>1, DivInt
    <3>2. CASE ~(by > 0)
      <4>1. lo - hi - by - 1 \in Int /\ -by \in Int /\ -by > 0
        BY <1>1, <1>3, <3>2
      <4> QED BY <3>2, <4>1, DivInt
    <3> QED BY <3>1, <3>2
  <2> HIDE DEF count
  <2>2. es = [i \in 1 .. count |-> es[i]]
    OBVIOUS
  <2> HIDE DEF es
  <2>3. Object(ListObj(es))
    BY <2>1, <2>2, SeqListed, NewObjects
  <2>4. Range3(h, args).heap = Fresh(h, ListObj(es)).heap
    BY <1>3 DEF Range3, es, count, lo, hi, by
  <2> QED BY <2>3, <2>4, FreshGrows
<1> QED BY <1>2, <1>3

\* min and max change nothing.
LEMMA ExtremeGrows ==
    ASSUME NEW h, HeapOK(h), NEW args, NEW least
    PROVE  HeapGrows(h, Extreme(h, args, least).heap)
BY GivesGrows DEF Extreme

\* any and all change nothing.
LEMMA QuantifiedGrows ==
    ASSUME NEW h, HeapOK(h), NEW v, NEW all
    PROVE  HeapGrows(h, Quantified(h, v, all).heap)
BY GivesGrows DEF Quantified

\* Lists made of other lists.
LEMMA SeqPart ==
    ASSUME NEW s, NEW m \in Int, NEW n \in Int
    PROVE  IsSeq(SubSeq(s, m, n))
<1> DEFINE S == {s[i] : i \in m .. n}
<1>1. \A i \in m .. n : s[i] \in S
  OBVIOUS
<1> HIDE DEF S
<1>2. SubSeq(s, m, n) \in Seq(S)
  BY <1>1, SubSeqProperties
<1> QED BY <1>2 DEF IsSeq

\* What the methods of a list store in it is a sequence.
LEMMA ListsOfLists ==
    ASSUME NEW s, IsSeq(s)
    PROVE  /\ IsSeq(Front(s)) /\ IsSeq(Reverse(s)) /\ IsSeq(SortedInts(s))
           /\ \A n \in Int : IsSeq(RemoveAt(s, n))
           /\ \A x : \A n \in Int : IsSeq(SubSeq(s, 1, n) \o <<x>> \o SubSeq(s, n + 1, Len(s)))
<1>1. Len(s) \in Nat /\ DOMAIN s = 1 .. Len(s)
  BY SeqLen
<1>2. IsSeq(Front(s))
  BY <1>1, SeqPart DEF Front
<1>3. IsSeq(Reverse(s))
  <2> DEFINE r == [i \in 1 .. Len(s) |-> s[(Len(s) - i) + 1]]
  <2>1. r = [i \in 1 .. Len(s) |-> r[i]]
    OBVIOUS
  <2> HIDE DEF r
  <2>2. IsSeq(r)
    BY <1>1, <2>1, SeqListed
  <2> QED BY <2>2 DEF Reverse, r
<1>4. IsSeq(SortedInts(s))
  <2> DEFINE r == SortedInts(s)
  <2>1. r = [i \in DOMAIN s |-> r[i]]
    BY DEF SortedInts
  <2>2. r = [i \in 1 .. Len(s) |-> r[i]]
    BY <1>1, <2>1
  <2> HIDE DEF r
  <2>3. IsSeq(r)
    BY <1>1, <2>2, SeqListed
  <2> QED BY <2>3 DEF r
<1>5. ASSUME NEW n \in Int
      PROVE  IsSeq(RemoveAt(s, n))
  <2>1. IsSeq(SubSeq(s, 1, n - 1)) /\ IsSeq(SubSeq(s, n + 1, Len(s)))
    <3>1. n - 1 \in Int /\ n + 1 \in Int
      OBVIOUS
    <3> QED BY <1>1, <3>1, SeqPart
  <2> QED BY <2>1, SeqConcat DEF RemoveAt
<1>6. ASSUME NEW x, NEW n \in Int
      PROVE  IsSeq(SubSeq(s, 1, n) \o <<x>> \o SubSeq(s, n + 1, Len(s)))
  <2> DEFINE a == SubSeq(s, 1, n)
             b == SubSeq(s, n + 1, Len(s))
  <2>1. IsSeq(a) /\ IsSeq(b)
    <3>1. n + 1 \in Int
      OBVIOUS
    <3> QED BY <1>1, <3>1, SeqPart
  <2>2. IsSeq(<<x>>)
    BY SeqPair
  <2> HIDE DEF a, b
  <2>3. IsSeq(a \o <<x>>)
    BY <2>1, <2>2, SeqConcat
  <2>4. IsSeq((a \o <<x>>) \o b)
    BY <2>1, <2>3, SeqConcat
  <2> QED BY <2>4 DEF a, b
<1> QED BY <1>2, <1>3, <1>4, <1>5, <1>6

\* A slice of a sequence is a sequence.
LEMMA SlicedSeq ==
    ASSUME NEW es, IsSeq(es), NEW lo, NEW hi, NEW by \in Int, by # 0
    PROVE  IsSeq(Sliced(es, lo, hi, by))
<1> DEFINE n == Len(es)
           from(v) == IF AsInt(v) < 0 THEN AsInt(v) + n ELSE AsInt(v)
           start == CASE lo # VNull -> from(lo)
                      [] lo = VNull /\ by > 0 -> 0
                      [] OTHER -> n - 1
           end == CASE hi # VNull -> from(hi)
                    [] hi = VNull /\ by > 0 -> n
                    [] OTHER -> -1
           first == IF by > 0 THEN Max({start, 0}) ELSE Min({start, n - 1})
           last == IF by > 0 THEN Min({end, n}) ELSE Max({end, -1})
           count == IF by > 0 THEN (last - first + by - 1) \div by
                    ELSE (first - last - by - 1) \div (-by)
           s == [i \in 1 .. count |-> es[first + (i - 1) * by + 1]]
<1>1. n \in Int /\ AsInt(lo) \in Int /\ AsInt(hi) \in Int
  BY SeqLen, AsIntInt
<1>2. start \in Int /\ end \in Int
  BY <1>1
<1> HIDE DEF n, start, end
<1>3. ASSUME NEW a \in Int, NEW b \in Int
      PROVE  Max({a, b}) \in Int /\ Min({a, b}) \in Int
  <2>1. \E x \in {a, b} : \A y \in {a, b} : x >= y
    OBVIOUS
  <2>2. \E x \in {a, b} : \A y \in {a, b} : x <= y
    OBVIOUS
  <2> QED BY <2>1, <2>2 DEF Max, Min
<1>4. first \in Int /\ last \in Int
  <2>1. n - 1 \in Int /\ -1 \in Int /\ 0 \in Int
    BY <1>1
  <2> QED BY <1>1, <1>2, <1>3, <2>1
<1> HIDE DEF first, last
<1>5. count \in Int
  <2>1. CASE by > 0
    <3>1. last - first + by - 1 \in Int
      BY <1>4
    <3> QED BY <2>1, <3>1, DivInt
  <2>2. CASE ~(by > 0)
    <3>1. first - last - by - 1 \in Int /\ -by \in Int /\ -by > 0
      BY <1>4, <2>2
    <3> QED BY <2>2, <3>1, DivInt
  <2> QED BY <2>1, <2>2
<1> HIDE DEF count
<1>6. s = [i \in 1 .. count |-> s[i]]
  OBVIOUS
<1> HIDE DEF s
<1>7. IsSeq(s)
  BY <1>5, <1>6, SeqListed
<1> QED BY <1>7 DEF s, count, first, last, start, end, n, Sliced

\* An element that is stored leaves a list a list.
LEMMA ElementGrows ==
    ASSUME NEW h, HeapOK(h), NEW o, NEW i, NEW v
    PROVE  LET g == WithElement(h, o, i, v) IN g = <<>> \/ HeapGrows(h, g)
<1>1. CASE IsObj(h, o, "list") /\ i[1] = "int"
  <2> DEFINE es == ObjOf(h, o).es
             p == ListPos(es, i[2])
  <2>1. h[o[2]].k = "list" /\ Object(h[o[2]]) /\ es = h[o[2]].es
    BY <1>1 DEF IsObj, HeapOK, ObjOf
  <2>2. IsSeq(es)
    BY <2>1 DEF Object
  <2> HIDE DEF p
  <2>3. IsSeq([es EXCEPT ![p] = v])
    BY <2>2, SeqExcept
  <2>4. HeapGrows(h, [h EXCEPT ![o[2]].es = [es EXCEPT ![p] = v]])
    BY <2>3, GrowsField
  <2>5. [h EXCEPT ![o[2]].es = [es EXCEPT ![p] = v]] = [h EXCEPT ![o[2]].es[p] = v]
    BY <1>1 DEF IsObj, ObjOf
  <2> HIDE DEF es
  <2>6. WithElement(h, o, i, v) = IF p \in DOMAIN es THEN [h EXCEPT ![o[2]].es[p] = v] ELSE <<>>
    BY <1>1 DEF WithElement, es, p
  <2> QED BY <2>4, <2>5, <2>6
<1>2. CASE IsObj(h, o, "dict") /\ i[1] = "str"
  <2>1. ~IsObj(h, o, "list")
    BY <1>2 DEF IsObj
  <2>2. WithElement(h, o, i, v) = [h EXCEPT ![o[2]].map = (i[2] :> v) @@ @]
    BY <1>2, <2>1 DEF WithElement
  <2> DEFINE map == (i[2] :> v) @@ h[o[2]].map
  <2>3. WithElement(h, o, i, v) = [h EXCEPT ![o[2]].map = map]
    BY <2>2
  <2> HIDE DEF map
  <2>4. HeapGrows(h, [h EXCEPT ![o[2]].map = map])
    BY GrowsField
  <2> QED BY <2>3, <2>4
<1>3. CASE ~(IsObj(h, o, "list") /\ i[1] = "int") /\ ~(IsObj(h, o, "dict") /\ i[1] = "str")
  BY <1>3 DEF WithElement
<1> QED BY <1>1, <1>2, <1>3

\* The methods of a list.
LEMMA ListMethodGrows ==
    ASSUME NEW h, HeapOK(h), NEW v, IsObj(h, v, "list"), NEW name, NEW args
    PROVE  HeapGrows(h, ListMethod(h, v, name, args).heap)
<1> DEFINE es == ObjOf(h, v).es
           at == {i \in DOMAIN es : SameValue(h, es[i], args[1])}
           n == AsInt(args[1])
           pos == IF n < 0 THEN 0 ELSE IF n > Len(es) THEN Len(es) ELSE n
           other == ObjOf(h, args[1]).es
           M == ListMethod(h, v, name, args).heap
           Set(x) == [h EXCEPT ![v[2]].es = x]
<1>1. Object(h[v[2]]) /\ h[v[2]].k = "list" /\ es = h[v[2]].es
  BY DEF IsObj, HeapOK, ObjOf
<1>2. IsSeq(es)
  BY <1>1 DEF Object
<1>3. Len(es) \in Nat /\ DOMAIN es = 1 .. Len(es) /\ n \in Int
  BY <1>2, SeqLen, AsIntInt
<1>4. pos \in Int
  BY <1>3
<1>5. ASSUME NEW x, IsSeq(x)
      PROVE  HeapGrows(h, Set(x))
  BY <1>5, GrowsField
<1>6. HeapGrows(h, h)
  BY GrowsRefl
<1> HIDE DEF es, pos, n
<1>7. CASE name = "append"
  <2>1. M = Set(Append(es, args[1]))
    BY <1>7 DEF ListMethod, Gives, es
  <2> QED BY <1>2, <1>5, <2>1, SeqAppend
<1>8. CASE name = "pop"
  <2>1. M = h \/ M = Set(Front(es))
    BY <1>8 DEF ListMethod, Gives, es
  <2>2. IsSeq(Front(es))
    BY <1>2, <1>3, ListsOfLists
  <2> QED BY <1>5, <1>6, <2>1, <2>2
<1>9. CASE name = "insert"
  <2>1. M = Set(SubSeq(es, 1, pos) \o <<args[2]>> \o SubSeq(es, pos + 1, Len(es)))
    BY <1>9 DEF ListMethod, Gives, es, pos, n
  <2>2. IsSeq(SubSeq(es, 1, pos) \o <<args[2]>> \o SubSeq(es, pos + 1, Len(es)))
    BY <1>2, <1>4, ListsOfLists
  <2> QED BY <1>5, <2>1, <2>2
<1>10. CASE name = "remove"
  <2>1. M = IF at = {} THEN h ELSE Set(RemoveAt(es, Min(at)))
    BY <1>10 DEF ListMethod, Gives, es
  <2>2. ASSUME at # {}
        PROVE  IsSeq(RemoveAt(es, Min(at)))
    <3>1. at \in SUBSET Nat /\ \A i \in at : i \in Int
      BY <1>3
    <3> HIDE DEF at
    <3>2. \E i \in at : \A j \in at : i <= j
      BY <2>2, <3>1, SmallestExists
    <3>3. Min(at) \in at
      BY <3>2, MinIs
    <3>4. Min(at) \in Int
      BY <3>1, <3>3
    <3> QED BY <1>2, <3>4, ListsOfLists
  <2> HIDE DEF at
  <2> QED BY <1>5, <1>6, <2>1, <2>2
<1>11. CASE name = "reverse"
  <2>1. M = Set(Reverse(es))
    BY <1>11 DEF ListMethod, Gives, es
  <2>2. IsSeq(Reverse(es))
    BY <1>2, <1>3, ListsOfLists
  <2> QED BY <1>5, <2>1, <2>2
<1>12. CASE name = "extend"
  <2>1. M = IF IsObj(h, args[1], "list") THEN Set(es \o other) ELSE h
    BY <1>12 DEF ListMethod, Gives, es
  <2>2. ASSUME IsObj(h, args[1], "list")
        PROVE  IsSeq(es \o other)
    <3>1. IsSeq(other)
      BY <2>2 DEF IsObj, HeapOK, ObjOf, Object
    <3> HIDE DEF other
    <3> QED BY <1>2, <3>1, SeqConcat
  <2> QED BY <1>5, <1>6, <2>1, <2>2
<1>13. CASE name = "clear"
  <2>1. M = Set(<<>>)
    BY <1>13 DEF ListMethod, Gives
  <2> QED BY <1>5, <2>1, SeqPair
<1>14. CASE name = "copy"
  <2>1. M = Fresh(h, ListObj(es)).heap
    BY <1>14 DEF ListMethod, es
  <2> QED BY <1>2, <2>1, NewObjects, FreshGrows
<1>15. CASE name \notin {"append", "pop", "insert", "remove", "reverse", "extend", "clear", "copy"}
  <2>1. M = h
    BY <1>15 DEF ListMethod, Gives, Refuses
  <2> QED BY <1>6, <2>1
<1> QED BY <1>7, <1>8, <1>9, <1>10, <1>11, <1>12, <1>13, <1>14, <1>15

\* The methods of a dict.
LEMMA DictMethodGrows ==
    ASSUME NEW h, HeapOK(h), NEW v, NEW name, NEW args
    PROVE  HeapGrows(h, DictMethod(h, v, name, args).heap)
<1> DEFINE M == DictMethod(h, v, name, args).heap
<1>1. HeapGrows(h, h)
  BY GrowsRefl
<1>2. \A x : HeapGrows(h, [h EXCEPT ![v[2]].map = x])
  BY GrowsField
<1>3. \A x : HeapGrows(h, Fresh(h, DictObj(x)).heap)
  BY NewObjects, FreshGrows
<1>4. CASE name \in {"update", "pop", "clear", "setdefault"}
  <2>1. M = h \/ \E x : M = [h EXCEPT ![v[2]].map = x]
    BY <1>4 DEF DictMethod, Gives
  <2> QED BY <1>1, <1>2, <2>1
<1>5. CASE name \in {"copy", "merge"}
  <2>1. \E x : M = Fresh(h, DictObj(x)).heap
    BY <1>5 DEF DictMethod
  <2> QED BY <1>3, <2>1
<1>6. CASE name \notin {"update", "pop", "clear", "setdefault", "copy", "merge"}
  <2>1. M = h
    BY <1>6 DEF DictMethod, Gives, Refuses
  <2> QED BY <1>1, <2>1
<1> QED BY <1>4, <1>5, <1>6

\* The built-in functions.
LEMMA NativeGrows ==
    ASSUME NEW h, HeapOK(h), NEW name, NEW args
    PROVE  HeapGrows(h, Native(h, name, args).heap)
<1> DEFINE M == Native(h, name, args).heap
           a == args[1]
           list == args # <<>> /\ IsObj(h, a, "list")
           es == ObjOf(h, a).es
           b == ObjOf(h, args[2]).es
<1>1. HeapGrows(h, h)
  BY GrowsRefl
<1>2. ASSUME NEW v, IsObj(h, v, "list")
      PROVE  IsSeq(ObjOf(h, v).es)
  BY <1>2 DEF IsObj, HeapOK, ObjOf, Object
<1>3. CASE name = "range"
  BY <1>3, RangeGrows DEF Native
<1>4. CASE name \in {"any", "all"}
  BY <1>4, QuantifiedGrows DEF Native
<1>5. CASE name \in {"min", "max"}
  BY <1>5, ExtremeGrows DEF Native
<1>6. CASE name = "zip" /\ Len(args) >= 2 /\ list /\ IsObj(h, args[2], "list")
  <2> DEFINE n == IF Len(es) < Len(b) THEN Len(es) ELSE Len(b)
             ps == [i \in 1 .. n |-> <<es[i], b[i]>>]
  <2>1. n \in Int
    BY <1>2, <1>6, SeqLen
  <2>2. M = FreshPairs(h, ps).heap
    BY <1>6 DEF Native
  <2> HIDE DEF n
  <2>3. ps = [i \in 1 .. n |-> ps[i]] /\ \A i \in 1 .. n : ps[i] = <<es[i], b[i]>>
    OBVIOUS
  <2> HIDE DEF ps
  <2>4. IsSeq(ps) /\ DOMAIN ps = 1 .. n
    BY <2>1, <2>3, SeqListed
  <2>5. ASSUME NEW i \in DOMAIN ps
        PROVE  IsSeq(ps[i])
    <3> DEFINE x == ps[i][1]
               y == ps[i][2]
    <3>1. ps[i] = <<x, y>>
      BY <2>3, <2>4
    <3> HIDE DEF x, y
    <3> QED BY <3>1, SeqPair
  <2> QED BY <2>2, <2>4, <2>5, FreshPairsGrows
<1>7. CASE name = "enumerate" /\ list
  <2> DEFINE start == IF Len(args) >= 2 /\ args[2][1] = "int" THEN args[2][2] ELSE 0
             ps == [i \in DOMAIN es |-> <<VInt(start + i - 1), es[i]>>]
  <2>1. Len(es) \in Int /\ DOMAIN es = 1 .. Len(es)
    BY <1>2, <1>7, SeqLen
  <2>2. M = FreshPairs(h, ps).heap
    BY <1>7 DEF Native
  <2> HIDE DEF start, es
  <2>3. ps = [i \in 1 .. Len(es) |-> ps[i]]
        /\ \A i \in 1 .. Len(es) : ps[i] = <<VInt(start + i - 1), es[i]>>
    BY <2>1
  <2> HIDE DEF ps
  <2>4. IsSeq(ps) /\ DOMAIN ps = 1 .. Len(es)
    BY <2>1, <2>3, SeqListed
  <2>5. ASSUME NEW i \in DOMAIN ps
        PROVE  IsSeq(ps[i])
    <3> DEFINE x == ps[i][1]
               y == ps[i][2]
    <3>1. ps[i] = <<x, y>>
      BY <2>3, <2>4
    <3> HIDE DEF x, y
    <3> QED BY <3>1, SeqPair
  <2> QED BY <2>2, <2>4, <2>5, FreshPairsGrows
<1>8. CASE name \in {"reversed", "sorted"} /\ list
  <2>1. IsSeq(es)
    BY <1>2, <1>8
  <2>2. IsSeq(Reverse(es)) /\ IsSeq(SortedInts(es))
    BY <2>1, ListsOfLists
  <2>3. M = Fresh(h, ListObj(Reverse(es))).heap \/ M = Fresh(h, ListObj(SortedInts(es))).heap
    BY <1>8 DEF Native
  <2> HIDE DEF es
  <2> QED BY <2>2, <2>3, NewObjects, FreshGrows
<1>9. CASE name = "get_attr"
  <2>1. M = h \/ M = InstanceAttr(h, a, args[2][2]).heap
    BY <1>9 DEF Native, Gives, Refuses
  <2> QED BY <1>1, <2>1, InstanceAttrGrows
<1>10. CASE name = "set_attr"
  <2>1. M = h \/ M = [h EXCEPT ![a[2]].fields = (args[2][2] :> args[3]) @@ @]
    BY <1>10 DEF Native, Gives, Refuses
  <2> DEFINE x == (args[2][2] :> args[3]) @@ h[a[2]].fields
  <2>2. M = h \/ M = [h EXCEPT ![a[2]].fields = x]
    BY <2>1
  <2> HIDE DEF x
  <2>3. HeapGrows(h, [h EXCEPT ![a[2]].fields = x])
    BY GrowsField
  <2> QED BY <1>1, <2>2, <2>3
<1>11. CASE /\ name \notin {"range", "any", "all", "min", "max", "get_attr", "set_attr"}
            /\ ~(name = "zip" /\ Len(args) >= 2 /\ list /\ IsObj(h, args[2], "list"))
            /\ ~(name = "enumerate" /\ list) /\ ~(name \in {"reversed", "sorted"} /\ list)
  <2>1. M = h
    BY <1>11 DEF Native, Gives, Refuses
  <2> QED BY <1>1, <2>1
<1> QED BY <1>3, <1>4, <1>5, <1>6, <1>7, <1>8, <1>9, <1>10, <1>11

(* ------------------- frames, runs, handlers and upvalues ----------------- *)

\* The functions are sound at the points PointAt, the script needs nothing
\* from outside, and a generator does not yield inside try.
SoundCode ==
    /\ IsSeq(Fns) /\ Fns # <<>>
    /\ Fns[Len(Fns)].arity = 0
    /\ \A f \in DOMAIN Fns :
          /\ Fns[f].arity \in Nat /\ IsSeq(Fns[f].ups) /\ IsSeq(Fns[f].code)
          /\ Shaped(Fns, Fns[f], PointAt[f])
          /\ \A ip \in DOMAIN PointAt[f] : Fns[f].code[ip].op = "YIELD" => PointAt[f][ip].handlers = <<>>

\* What a frame is doing: its function, where it goes on, its part of the
\* stack, the call of vm_run it belongs to and the handlers below its own.
\* G lists the frames that are still counted on: after a failure there may be
\* more on the stack of frames.
View == [fn : Nat, ip : Nat, slots : Int, run : Nat \ {0}, below : Nat]
Pt(G, i) == PointAt[G[i].fn][G[i].ip]
HandlersOf(G, i) == Pt(G, i).handlers
Upto(G, i) == G[i].below + Len(HandlersOf(G, i))
Rest(G, i) == G[i].slots + Pt(G, i).height - 1

\* How far below the slots of its first frame a run leaves the stack.
Offset(r) ==
    CASE r.kind = "set" -> 1
      [] r.kind = "len" -> 2
      [] r.kind = "reduce" -> r.argc + 1
      [] r.kind \in {"map", "filter"} -> r.argc + 2
      [] OTHER -> 0
RunOK(r) ==
    /\ DOMAIN r = {"base", "kind", "argc", "acc", "src", "fn", "i", "item"}
    /\ r.base \in Nat /\ r.kind \in Kinds /\ r.argc \in Nat

Views(G) ==
    /\ IsSeq(G) /\ G # <<>>
    /\ \A i \in DOMAIN G : G[i] \in View /\ G[i].fn \in DOMAIN Fns /\ G[i].ip \in DOMAIN PointAt[G[i].fn]

\* The frames are those of G, and the others lie above them.
Framed(frames, heap, G) ==
    /\ Over(frames, FrameType)
    /\ Len(G) <= Len(frames)
    /\ \A i \in DOMAIN G :
          /\ frames[i].slots = G[i].slots
          /\ frames[i].closure \in DOMAIN heap
          /\ heap[frames[i].closure].k = "closure" /\ heap[frames[i].closure].fn = G[i].fn
          /\ i < Len(G) => frames[i].ip = G[i].ip
    /\ Len(G) < Len(frames) => G[Len(G)].slots <= frames[Len(G) + 1].slots

\* A run has the frames above its base, up to the base of the next.
RunsFit(runs, G) ==
    /\ IsSeq(runs) /\ runs # <<>> /\ runs[1].kind = "script" /\ runs[1].base = 0
    /\ \A j \in DOMAIN runs : RunOK(runs[j]) /\ runs[j].base < Len(G) /\ (j > 1 => runs[j].kind # "script")
    /\ \A j, k \in DOMAIN runs : j < k => runs[j].base < runs[k].base
    /\ \A i \in DOMAIN G : G[i].run \in DOMAIN runs
    /\ \A i \in DOMAIN G, j \in DOMAIN runs : runs[j].base < i <=> j <= G[i].run

\* A frame's part of the stack ends where the next one's begins, and the
\* heights its handlers restore are its own.
Linked(runs, G) ==
    /\ \A i, j \in DOMAIN G : i < j => G[i].slots <= G[j].slots
    /\ \A i \in DOMAIN G : i < Len(G) =>
          /\ Rest(G, i) = G[i + 1].slots - (IF G[i + 1].run = G[i].run THEN 0
                                            ELSE Offset(runs[G[i + 1].run]))
          /\ HandlersOf(G, i) # <<>> => G[i].slots + Last(HandlersOf(G, i)).height - 1 < G[i + 1].slots

\* The handlers are those of the points of the frames, frame after frame; what
\* is above them belongs to runs that have failed.
Handler(runs, G, i, k) ==
    [ip |-> HandlersOf(G, i)[k].ip, frame |-> i, base |-> runs[G[i].run].base,
     depth |-> G[i].slots + HandlersOf(G, i)[k].height - 1]
HandlersKept(handlers, runs, G) ==
    /\ Over(handlers, HandlerType)
    /\ Upto(G, Len(G)) <= Len(handlers)
    /\ G[1].below = 0
    /\ \A i \in DOMAIN G : i < Len(G) => G[i + 1].below = Upto(G, i)
    /\ \A i, j \in DOMAIN G : i < j => Upto(G, i) <= G[j].below
    /\ \A i \in DOMAIN G : \A k \in DOMAIN HandlersOf(G, i) :
          handlers[G[i].below + k] = Handler(runs, G, i, k)
    /\ \A k \in 1 .. Upto(G, Len(G)) : \E i \in DOMAIN G : k - G[i].below \in DOMAIN HandlersOf(G, i)
    /\ \A k \in Upto(G, Len(G)) + 1 .. Len(handlers) : handlers[k].base > Last(runs).base

\* Open upvalues point to slots that the points of the frames know.
Owned(slot, frames, G) ==
    \/ \E i \in DOMAIN G : slot - G[i].slots \in Pt(G, i).open
    \/ Len(G) < Len(frames) /\ slot >= frames[Len(G) + 1].slots
OpenKept(open, heap, frames, G) ==
    /\ \A u \in open : /\ u \in DOMAIN heap /\ heap[u].k = "upvalue" /\ heap[u].open
                       /\ Owned(heap[u].slot, frames, G)
    /\ \A u, w \in open : heap[u].slot = heap[w].slot => u = w

Body(frames, handlers, runs, heap, G) ==
    /\ HeapOK(heap) /\ Views(G) /\ Framed(frames, heap, G) /\ RunsFit(runs, G) /\ Linked(runs, G)
    /\ HandlersKept(handlers, runs, G)
Struct(m, G) ==
    /\ Fields(m) /\ Body(m.frames, m.handlers, m.runs, m.heap, G)
    /\ OpenKept(m.open, m.heap, m.frames, G)
Poised(m, G) ==
    /\ Struct(m, G) /\ Len(G) = Len(m.frames) /\ Last(m.frames).ip = Last(G).ip
    /\ Len(m.handlers) = Upto(G, Len(G))
Running(m, G) == Poised(m, G) /\ m.top = Rest(G, Len(G))

\* The point of a frame.
LEMMA ViewFacts ==
    ASSUME SoundCode, NEW G, Views(G), NEW i \in DOMAIN G
    PROVE  /\ Len(G) \in Nat \ {0} /\ DOMAIN G = 1 .. Len(G) /\ Len(G) \in DOMAIN G
           /\ G[i].slots \in Int /\ G[i].below \in Nat /\ G[i].run \in Nat \ {0}
           /\ G[i].fn \in DOMAIN Fns /\ G[i].ip \in DOMAIN PointAt[G[i].fn]
           /\ Pt(G, i) \in Points /\ Rest(G, i) \in Int
           /\ IsSeq(HandlersOf(G, i)) /\ Len(HandlersOf(G, i)) \in Nat
           /\ DOMAIN HandlersOf(G, i) = 1 .. Len(HandlersOf(G, i))
           /\ \A k \in DOMAIN HandlersOf(G, i) : /\ HandlersOf(G, i)[k].ip \in Nat
                                                 /\ HandlersOf(G, i)[k].height \in Nat \ {0}
           /\ Upto(G, i) \in Nat
<1>1. IsSeq(G) /\ G # <<>> /\ G[i] \in View /\ G[i].fn \in DOMAIN Fns /\ G[i].ip \in DOMAIN PointAt[G[i].fn]
  BY DEF Views
<1>2. Len(G) \in Nat \ {0} /\ DOMAIN G = 1 .. Len(G) /\ Len(G) \in DOMAIN G
  BY <1>1, SeqLen
<1>3. Shaped(Fns, Fns[G[i].fn], PointAt[G[i].fn])
  BY <1>1 DEF SoundCode
<1>4. Pt(G, i) \in Points
  BY <1>1, <1>3 DEF Shaped, Sound, Pt
<1>5. /\ Pt(G, i).height \in Nat \ {0} /\ HandlersOf(G, i) \in Seq([ip : Nat, height : Nat \ {0}])
  BY <1>4 DEF Points, HandlersOf
<1>6. IsSeq(HandlersOf(G, i))
  BY <1>5 DEF IsSeq
<1>7. /\ Len(HandlersOf(G, i)) \in Nat /\ DOMAIN HandlersOf(G, i) = 1 .. Len(HandlersOf(G, i))
      /\ \A k \in DOMAIN HandlersOf(G, i) : /\ HandlersOf(G, i)[k].ip \in Nat
                                            /\ HandlersOf(G, i)[k].height \in Nat \ {0}
  <2> DEFINE S == [ip : Nat, height : Nat \ {0}]
  <2>1. Len(HandlersOf(G, i)) \in Nat /\ DOMAIN HandlersOf(G, i) = 1 .. Len(HandlersOf(G, i))
    BY <1>6, SeqLen
  <2>2. HandlersOf(G, i) \in Seq(S)
    BY <1>5
  <2> HIDE DEF S
  <2>3. \A k \in DOMAIN HandlersOf(G, i) : HandlersOf(G, i)[k] \in S
    BY <2>2, SeqElements
  <2> QED BY <2>1, <2>3 DEF S
<1>8. G[i].slots \in Int /\ G[i].below \in Nat /\ G[i].run \in Nat \ {0}
  BY <1>1 DEF View
<1>9. Upto(G, i) \in Nat /\ Rest(G, i) \in Int
  BY <1>5, <1>7, <1>8 DEF Upto, Rest
<1> QED BY <1>1, <1>2, <1>4, <1>6, <1>7, <1>8, <1>9

\* What only depends on one view.
LEMMA SameView ==
    ASSUME NEW G, NEW i, NEW H, NEW j, G[i] = H[j]
    PROVE  /\ Pt(G, i) = Pt(H, j) /\ HandlersOf(G, i) = HandlersOf(H, j)
           /\ Upto(G, i) = Upto(H, j) /\ Rest(G, i) = Rest(H, j)
BY DEF Pt, HandlersOf, Upto, Rest

\* The heap may grow.
LEMMA GrownStruct ==
    ASSUME NEW frames, NEW handlers, NEW runs, NEW h, NEW g, NEW open, NEW G,
           Body(frames, handlers, runs, h, G), OpenKept(open, h, frames, G), HeapGrows(h, g)
    PROVE  Body(frames, handlers, runs, g, G) /\ OpenKept(open, g, frames, G)
<1>1. HeapOK(h) /\ HeapOK(g) /\ DOMAIN h \subseteq DOMAIN g
  BY GrowsKeeps DEF Body
<1>2. \A a \in DOMAIN h : Object(h[a]) /\ Same(h[a], g[a])
  BY <1>1 DEF HeapOK, HeapGrows
<1>3. Framed(frames, g, G)
  <2>1. \A i \in DOMAIN G : /\ frames[i].closure \in DOMAIN h
                            /\ h[frames[i].closure].k = "closure" /\ h[frames[i].closure].fn = G[i].fn
    BY DEF Body, Framed
  <2>2. \A i \in DOMAIN G : /\ frames[i].closure \in DOMAIN g
                            /\ g[frames[i].closure].k = "closure" /\ g[frames[i].closure].fn = G[i].fn
    BY <1>1, <1>2, <2>1 DEF Same
  <2> QED BY <2>2 DEF Body, Framed
<1>4. \A u \in open : u \in DOMAIN h /\ h[u].k = "upvalue" /\ h[u].open /\ Owned(h[u].slot, frames, G)
  BY DEF OpenKept
<1>5. \A u \in open : /\ u \in DOMAIN g /\ g[u].k = "upvalue" /\ g[u].open /\ g[u].slot = h[u].slot
                      /\ Owned(g[u].slot, frames, G)
  BY <1>1, <1>2, <1>4 DEF Same
<1>6. OpenKept(open, g, frames, G)
  BY <1>5 DEF OpenKept
<1> QED BY <1>1, <1>3, <1>6 DEF Body

\* A calm step keeps the frames, handlers and upvalues as they are.
LEMMA CalmStruct ==
    ASSUME NEW m, NEW n, NEW G, Struct(m, G), Calm(m, n)
    PROVE  Struct(n, G) /\ Ready(m) /\ Ready(n)
<1>1. Body(m.frames, m.handlers, m.runs, n.heap, G) /\ OpenKept(m.open, n.heap, m.frames, G)
  BY GrownStruct DEF Struct, Calm
<1> QED BY <1>1 DEF Struct, Calm, Body, Ready
(* ------------- the last frame goes on at another instruction ------------- *)

Turn(G, t) == [G EXCEPT ![Len(G)].ip = t]

\* The views when the last frame goes on at t.
LEMMA TurnViews ==
    ASSUME SoundCode, NEW G, Views(G), NEW t \in DOMAIN PointAt[G[Len(G)].fn]
    PROVE  /\ Views(Turn(G, t)) /\ Len(Turn(G, t)) = Len(G) /\ DOMAIN Turn(G, t) = DOMAIN G
           /\ \A i \in DOMAIN G : /\ i # Len(G) => Turn(G, t)[i] = G[i]
                                  /\ Turn(G, t)[i].fn = G[i].fn /\ Turn(G, t)[i].slots = G[i].slots
                                  /\ Turn(G, t)[i].run = G[i].run /\ Turn(G, t)[i].below = G[i].below
           /\ Turn(G, t)[Len(G)].ip = t
           /\ Pt(Turn(G, t), Len(G)) = PointAt[G[Len(G)].fn][t]
<1> DEFINE N == Len(G)
           v == [G[N] EXCEPT !.ip = t]
           H == [G EXCEPT ![N] = v]
<1>1. IsSeq(G) /\ G # <<>>
  BY DEF Views
<1>2. N \in DOMAIN G
  BY <1>1, SeqLen
<1>3. G[N] \in View /\ G[N].fn \in DOMAIN Fns
  BY <1>2 DEF Views
<1>4. t \in Nat
  <2>1. Shaped(Fns, Fns[G[N].fn], PointAt[G[N].fn]) /\ IsSeq(Fns[G[N].fn].code)
    BY <1>3 DEF SoundCode
  <2>2. t \in DOMAIN Fns[G[N].fn].code
    BY <2>1 DEF Shaped
  <2> QED BY <2>1, <2>2, SeqLen
<1>5. /\ v \in View /\ v.fn = G[N].fn /\ v.slots = G[N].slots /\ v.run = G[N].run
      /\ v.below = G[N].below /\ v.ip = t
  BY <1>3, <1>4 DEF View
<1>6. /\ IsSeq(H) /\ Len(H) = Len(G) /\ DOMAIN H = DOMAIN G /\ H[N] = v
      /\ \A i \in DOMAIN G : i # N => H[i] = G[i]
  <2> HIDE DEF v, N
  <2> QED BY <1>1, <1>2, SeqExcept
<1>7. H # <<>>
  BY <1>1, <1>6, SeqLen
<1>8. Turn(G, t) = H
  BY DEF Turn
<1> HIDE DEF H, v
<1>9. Views(H)
  <2>1. ASSUME NEW i \in DOMAIN H
        PROVE  H[i] \in View /\ H[i].fn \in DOMAIN Fns /\ H[i].ip \in DOMAIN PointAt[H[i].fn]
    <3>1. CASE i = N
      BY <1>3, <1>5, <1>6, <3>1
    <3>2. CASE i # N
      BY <1>6, <3>2 DEF Views
    <3> QED BY <3>1, <3>2
  <2> QED BY <1>6, <1>7, <2>1 DEF Views
<1>10. Pt(H, N) = PointAt[G[N].fn][t]
  BY <1>5, <1>6 DEF Pt
<1> QED BY <1>5, <1>6, <1>8, <1>9, <1>10

\* Handlers that agree with the new point.
Handed(news, handlers, runs, G, t, below, e) ==
    /\ t \in DOMAIN PointAt[G[Len(G)].fn]
    /\ below = G[Len(G)].below /\ e = Len(HandlersOf(Turn(G, t), Len(G)))
    /\ Over(news, HandlerType) /\ below + e <= Len(news)
    /\ \A k \in 1 .. below : news[k] = handlers[k]
    /\ \A k \in 1 .. e : news[below + k] = Handler(runs, Turn(G, t), Len(G), k)
    /\ \A k \in below + e + 1 .. Len(news) : news[k].base > Last(runs).base

\* The handlers when the last frame has pushed or popped one.
LEMMA TurnHandlers ==
    ASSUME SoundCode, NEW G, Views(G), NEW handlers, NEW runs, HandlersKept(handlers, runs, G),
           NEW t, NEW news, NEW below, NEW e, Handed(news, handlers, runs, G, t, below, e)
    PROVE  HandlersKept(news, runs, Turn(G, t))
<1> DEFINE N == Len(G)
           H == Turn(G, t)
<1>1. /\ Views(H) /\ Len(H) = N /\ DOMAIN H = DOMAIN G
      /\ \A i \in DOMAIN G : i # N => H[i] = G[i]
      /\ \A i \in DOMAIN G : H[i].slots = G[i].slots /\ H[i].run = G[i].run /\ H[i].below = G[i].below
  BY TurnViews DEF Handed
<1>2. N \in Nat \ {0} /\ DOMAIN G = 1 .. N /\ 1 \in DOMAIN G /\ N \in DOMAIN G
  <2>1. IsSeq(G) /\ G # <<>>
    BY DEF Views
  <2> QED BY <2>1, SeqLen
<1>0. e = Len(HandlersOf(H, N)) /\ below = G[N].below
  BY DEF Handed
<1> HIDE DEF H
<1>3. \A i \in DOMAIN G : i # N => HandlersOf(H, i) = HandlersOf(G, i) /\ Upto(H, i) = Upto(G, i)
  BY <1>1, SameView
<1>4. Upto(H, N) = below + e
  BY <1>0, <1>1, <1>2 DEF Upto
<1>5. below \in Nat /\ e \in Nat /\ DOMAIN HandlersOf(H, N) = 1 .. e
  BY <1>0, <1>1, <1>2, ViewFacts
<1>6. /\ Over(news, HandlerType) /\ below + e <= Len(news)
      /\ \A k \in 1 .. below : news[k] = handlers[k]
      /\ \A k \in 1 .. e : news[below + k] = Handler(runs, H, N, k)
      /\ \A k \in below + e + 1 .. Len(news) : news[k].base > Last(runs).base
  BY DEF H, Handed
<1>7. /\ G[1].below = 0
      /\ \A i \in DOMAIN G : i < N => G[i + 1].below = Upto(G, i)
      /\ \A i, j \in DOMAIN G : i < j => Upto(G, i) <= G[j].below
      /\ \A i \in DOMAIN G : \A k \in DOMAIN HandlersOf(G, i) :
            handlers[G[i].below + k] = Handler(runs, G, i, k)
      /\ \A k \in 1 .. Upto(G, N) : \E i \in DOMAIN G : k - G[i].below \in DOMAIN HandlersOf(G, i)
  BY DEF HandlersKept
<1>8. H[1].below = 0
  BY <1>1, <1>2, <1>7
<1>9. ASSUME NEW i \in DOMAIN H, i < N
      PROVE  H[i + 1].below = Upto(H, i)
  <2>1. i + 1 \in DOMAIN G /\ i # N
    BY <1>1, <1>2, <1>9
  <2> QED BY <1>1, <1>3, <1>7, <1>9, <2>1
<1>10. ASSUME NEW i \in DOMAIN H, NEW j \in DOMAIN H, i < j
       PROVE  Upto(H, i) <= H[j].below
  <2>1. i # N
    BY <1>1, <1>2, <1>10
  <2> QED BY <1>1, <1>3, <1>7, <1>10, <2>1
<1>11. ASSUME NEW i \in DOMAIN H, NEW k \in DOMAIN HandlersOf(H, i)
       PROVE  news[H[i].below + k] = Handler(runs, H, i, k)
  <2>1. CASE i = N
    BY <1>0, <1>1, <1>2, <1>5, <1>6, <1>11, <2>1
  <2>2. CASE i # N
    <3>1. i \in DOMAIN G /\ i < N /\ HandlersOf(H, i) = HandlersOf(G, i) /\ H[i] = G[i]
      BY <1>1, <1>2, <1>3, <2>2
    <3>2. handlers[G[i].below + k] = Handler(runs, G, i, k)
      BY <1>7, <1>11, <3>1
    <3>3. Handler(runs, H, i, k) = Handler(runs, G, i, k)
      BY <3>1 DEF Handler
    <3>4. G[i].below + k \in 1 .. below
      <4>1. /\ G[i].below \in Nat /\ DOMAIN HandlersOf(G, i) = 1 .. Len(HandlersOf(G, i))
            /\ Len(HandlersOf(G, i)) \in Nat
        BY <3>1, ViewFacts
      <4>2. Upto(G, i) <= below
        BY <1>0, <1>2, <1>7, <3>1
      <4>3. k \in 1 .. Len(HandlersOf(G, i))
        BY <1>11, <3>1, <4>1
      <4>4. Upto(G, i) = G[i].below + Len(HandlersOf(G, i))
        BY DEF Upto
      <4> QED BY <1>5, <4>1, <4>2, <4>3, <4>4
    <3> QED BY <1>6, <3>1, <3>2, <3>3, <3>4
  <2> QED BY <2>1, <2>2
<1>12. ASSUME NEW k \in 1 .. Upto(H, N)
       PROVE  \E i \in DOMAIN H : k - H[i].below \in DOMAIN HandlersOf(H, i)
  <2>1. CASE k > below
    <3>1. k - below \in 1 .. e
      BY <1>4, <1>5, <2>1
    <3> QED BY <1>0, <1>1, <1>2, <1>5, <3>1
  <2>2. CASE k <= below
    <3>1. Upto(G, N) \in Nat /\ below <= Upto(G, N)
      <4>1. Len(HandlersOf(G, N)) \in Nat
        BY <1>2, ViewFacts
      <4> QED BY <1>0, <1>5, <4>1 DEF Upto
    <3>2. k \in 1 .. Upto(G, N)
      BY <1>5, <2>2, <3>1
    <3>3. PICK i \in DOMAIN G : k - G[i].below \in DOMAIN HandlersOf(G, i)
      BY <1>7, <3>2
    <3>4. DOMAIN HandlersOf(G, i) = 1 .. Len(HandlersOf(G, i)) /\ Len(HandlersOf(G, i)) \in Nat
      BY <3>3, ViewFacts
    <3>5. k - G[i].below >= 1
      BY <3>3, <3>4
    <3>6. i # N
      BY <1>0, <1>5, <2>2, <3>5
    <3> QED BY <1>1, <1>3, <3>3, <3>6
  <2> QED BY <1>5, <2>1, <2>2
<1>13. HandlersKept(news, runs, H)
  BY <1>1, <1>4, <1>6, <1>8, <1>9, <1>10, <1>11, <1>12 DEF HandlersKept
<1> QED BY <1>13 DEF H

\* Everything but the upvalues when the last frame goes on at t.
LEMMA TurnBody ==
    ASSUME SoundCode, NEW frames, NEW handlers, NEW runs, NEW heap, NEW G,
           Body(frames, handlers, runs, heap, G), NEW t \in DOMAIN PointAt[G[Len(G)].fn],
           NEW news, HandlersKept(news, runs, Turn(G, t))
    PROVE  Body(frames, news, runs, heap, Turn(G, t))
<1> DEFINE N == Len(G)
           H == Turn(G, t)
<1>1. Views(G) /\ Framed(frames, heap, G) /\ RunsFit(runs, G) /\ Linked(runs, G) /\ HeapOK(heap)
  BY DEF Body
<1>2. /\ Views(H) /\ Len(H) = N /\ DOMAIN H = DOMAIN G
      /\ \A i \in DOMAIN G : i # N => H[i] = G[i]
      /\ \A i \in DOMAIN G : H[i].slots = G[i].slots /\ H[i].run = G[i].run /\ H[i].fn = G[i].fn
  BY <1>1, TurnViews
<1>3. N \in Nat \ {0} /\ DOMAIN G = 1 .. N /\ N \in DOMAIN G
  <2>1. IsSeq(G) /\ G # <<>>
    BY <1>1 DEF Views
  <2> QED BY <2>1, SeqLen
<1> HIDE DEF H
<1>4. \A i \in DOMAIN G : i < N => HandlersOf(H, i) = HandlersOf(G, i) /\ Rest(H, i) = Rest(G, i)
                                   /\ H[i].ip = G[i].ip
  <2>1. \A i \in DOMAIN G : i < N => i # N
    BY <1>3
  <2> QED BY <1>2, <2>1, SameView
<1>5. Framed(frames, heap, H)
  BY <1>1, <1>2, <1>3, <1>4 DEF Framed
<1>6. RunsFit(runs, H)
  BY <1>1, <1>2 DEF RunsFit
<1>7. Linked(runs, H)
  <2>1. \A i, j \in DOMAIN H : i < j => H[i].slots <= H[j].slots
    BY <1>1, <1>2 DEF Linked
  <2>2. ASSUME NEW i \in DOMAIN H, i < N
        PROVE  /\ Rest(H, i) = H[i + 1].slots - (IF H[i + 1].run = H[i].run THEN 0
                                                 ELSE Offset(runs[H[i + 1].run]))
               /\ HandlersOf(H, i) # <<>> => H[i].slots + Last(HandlersOf(H, i)).height - 1 < H[i + 1].slots
    <3>1. i \in DOMAIN G /\ i + 1 \in DOMAIN G
      BY <1>2, <1>3, <2>2
    <3>2. H[i + 1].slots = G[i + 1].slots /\ H[i + 1].run = G[i + 1].run
          /\ H[i].slots = G[i].slots /\ H[i].run = G[i].run
      BY <1>2, <3>1
    <3>3. /\ Rest(G, i) = G[i + 1].slots - (IF G[i + 1].run = G[i].run THEN 0
                                            ELSE Offset(runs[G[i + 1].run]))
          /\ HandlersOf(G, i) # <<>> => G[i].slots + Last(HandlersOf(G, i)).height - 1 < G[i + 1].slots
      BY <1>1, <2>2, <3>1 DEF Linked
    <3>4. HandlersOf(H, i) = HandlersOf(G, i) /\ Rest(H, i) = Rest(G, i)
      BY <1>4, <2>2, <3>1
    <3> QED BY <3>2, <3>3, <3>4
  <2> QED BY <1>2, <2>1, <2>2 DEF Linked
<1>8. HandlersKept(news, runs, H)
  BY DEF H
<1>9. Body(frames, news, runs, heap, H)
  BY <1>1, <1>2, <1>5, <1>6, <1>7, <1>8 DEF Body
<1> QED BY <1>9 DEF H

\* Upvalues whose owner still knows their slot.
LEMMA TurnOwned ==
    ASSUME SoundCode, NEW G, Views(G), NEW t \in DOMAIN PointAt[G[Len(G)].fn], NEW frames,
           NEW slot, Owned(slot, frames, G),
           slot - G[Len(G)].slots \in Pt(G, Len(G)).open
               => slot - G[Len(G)].slots \in PointAt[G[Len(G)].fn][t].open
    PROVE  Owned(slot, frames, Turn(G, t))
<1> DEFINE N == Len(G)
           H == Turn(G, t)
<1>1. /\ Len(H) = N /\ DOMAIN H = DOMAIN G
      /\ \A i \in DOMAIN G : i # N => H[i] = G[i]
      /\ \A i \in DOMAIN G : H[i].slots = G[i].slots
      /\ Pt(H, N) = PointAt[G[N].fn][t]
  BY TurnViews
<1> HIDE DEF H
<1>2. CASE Len(G) < Len(frames) /\ slot >= frames[Len(G) + 1].slots
  BY <1>1, <1>2 DEF Owned, H
<1>3. CASE \E i \in DOMAIN G : slot - G[i].slots \in Pt(G, i).open
  <2>1. PICK i \in DOMAIN G : slot - G[i].slots \in Pt(G, i).open
    BY <1>3
  <2>2. slot - H[i].slots \in Pt(H, i).open
    <3>1. CASE i = N
      BY <1>1, <2>1, <3>1
    <3>2. CASE i # N
      BY <1>1, <2>1, <3>2, SameView
    <3> QED BY <3>1, <3>2
  <2> QED BY <1>1, <2>1, <2>2 DEF Owned, H
<1> QED BY <1>2, <1>3 DEF Owned

\* The same handlers.
LEMMA TurnKept ==
    ASSUME SoundCode, NEW G, Views(G), NEW handlers, NEW runs, HandlersKept(handlers, runs, G),
           Len(handlers) = Upto(G, Len(G)), NEW t \in DOMAIN PointAt[G[Len(G)].fn],
           PointAt[G[Len(G)].fn][t].handlers = HandlersOf(G, Len(G))
    PROVE  HandlersKept(handlers, runs, Turn(G, t)) /\ Upto(Turn(G, t), Len(G)) = Upto(G, Len(G))
<1> DEFINE N == Len(G)
           H == Turn(G, t)
           below == G[N].below
           e == Len(HandlersOf(H, N))
<1>1. N \in DOMAIN G
  BY SeqLen DEF Views
<1>2. H[N].slots = G[N].slots /\ H[N].run = G[N].run /\ H[N].below = G[N].below /\ Pt(H, N) = PointAt[G[N].fn][t]
  BY <1>1, TurnViews
<1>3. HandlersOf(H, N) = HandlersOf(G, N) /\ Upto(H, N) = Upto(G, N)
  BY <1>2 DEF HandlersOf, Upto
<1>4. below + e = Len(handlers) /\ below \in Nat /\ e \in Nat /\ DOMAIN HandlersOf(G, N) = 1 .. e
  BY <1>1, <1>3, ViewFacts DEF Upto
<1>5. \A k \in 1 .. e : handlers[below + k] = Handler(runs, H, N, k)
  <2>1. \A k \in 1 .. e : handlers[below + k] = Handler(runs, G, N, k)
    BY <1>1, <1>4 DEF HandlersKept
  <2>2. \A k : Handler(runs, G, N, k) = Handler(runs, H, N, k)
    BY <1>2, <1>3 DEF Handler
  <2> QED BY <2>1, <2>2
<1>6. \A k \in below + e + 1 .. Len(handlers) : handlers[k].base > Last(runs).base
  BY <1>4
<1>7. below + e <= Len(handlers) /\ \A k \in 1 .. below : handlers[k] = handlers[k]
  BY <1>4
<1>8. PICK b, c : b = below /\ c = e
  OBVIOUS
<1>9. Over(handlers, HandlerType)
  BY DEF HandlersKept
<1>10. Handed(handlers, handlers, runs, G, t, b, c)
  BY <1>5, <1>6, <1>7, <1>8, <1>9 DEF Handed
<1>11. HandlersKept(handlers, runs, Turn(G, t))
  BY <1>10, TurnHandlers
<1> QED BY <1>3, <1>11

(* ------------------------- the current instruction ----------------------- *)

\* A machine that failed in the call before this one: no frame is left.
Fallen(m) == Fields(m) /\ HeapOK(m.heap) /\ m.frames = <<>> /\ Over(m.handlers, HandlerType)
Good(m) ==
    /\ m.status = "running" => \E G : Running(m, G)
    /\ m.status \in {"raised", "failed"} => Fallen(m) \/ \E G : Struct(m, G)

\* The parts of a machine that has the frames G, and their lengths.
LEMMA StructFacts ==
    ASSUME NEW m, NEW G, Struct(m, G)
    PROVE  /\ Views(G) /\ Ready(m) /\ Over(m.frames, FrameType) /\ Over(m.handlers, HandlerType)
           /\ IsSeq(m.runs) /\ m.runs # <<>>
           /\ Len(G) \in Nat \ {0} /\ DOMAIN G = 1 .. Len(G) /\ Len(G) \in DOMAIN G
           /\ Len(m.frames) \in Nat /\ DOMAIN m.frames = 1 .. Len(m.frames) /\ Len(G) <= Len(m.frames)
           /\ Len(m.handlers) \in Nat /\ DOMAIN m.handlers = 1 .. Len(m.handlers)
           /\ Len(m.runs) \in Nat \ {0} /\ DOMAIN m.runs = 1 .. Len(m.runs)
<1>1. /\ Views(G) /\ Ready(m) /\ Over(m.frames, FrameType) /\ Over(m.handlers, HandlerType)
      /\ IsSeq(m.runs) /\ m.runs # <<>> /\ IsSeq(G) /\ G # <<>> /\ Len(G) <= Len(m.frames)
      /\ IsSeq(m.frames) /\ IsSeq(m.handlers)
  BY DEF Struct, Body, Ready, Views, Framed, HandlersKept, RunsFit, Over
<1>2. Len(G) \in Nat \ {0} /\ DOMAIN G = 1 .. Len(G) /\ Len(G) \in DOMAIN G
  BY <1>1, SeqLen
<1>3. Len(m.frames) \in Nat /\ DOMAIN m.frames = 1 .. Len(m.frames)
  BY <1>1, SeqLen
<1>4. Len(m.handlers) \in Nat /\ DOMAIN m.handlers = 1 .. Len(m.handlers)
  BY <1>1, SeqLen
<1>5. Len(m.runs) \in Nat \ {0} /\ DOMAIN m.runs = 1 .. Len(m.runs)
  BY <1>1, SeqLen
<1> QED BY <1>1, <1>2, <1>3, <1>4, <1>5

\* Moving the instruction pointer of the last frame.
LEMMA GotoStruct ==
    ASSUME NEW m, NEW G, Struct(m, G), Len(G) = Len(m.frames), NEW a \in Nat
    PROVE  /\ Struct(Goto(m, a), G) /\ Len(Goto(m, a).frames) = Len(m.frames)
           /\ Last(Goto(m, a).frames).ip = a
           /\ Goto(m, a).top = m.top /\ Goto(m, a).status = m.status /\ Goto(m, a).stack = m.stack
           /\ Goto(m, a).heap = m.heap /\ Goto(m, a).handlers = m.handlers /\ Goto(m, a).open = m.open
           /\ Goto(m, a).runs = m.runs /\ Goto(m, a).globals = m.globals
           /\ Goto(m, a).collector = m.collector
<1> DEFINE N == Len(m.frames)
           f == [m.frames[N] EXCEPT !.ip = a]
           fs == [m.frames EXCEPT ![N] = f]
           n == Goto(m, a)
<1>1. /\ Over(m.frames, FrameType) /\ N \in Nat /\ DOMAIN m.frames = 1 .. N /\ Len(G) = N
      /\ DOMAIN G = 1 .. N /\ N \in DOMAIN G
  BY StructFacts
<1>2. m.frames[N] \in FrameType /\ N \in DOMAIN m.frames
  BY <1>1 DEF Over
<1>3. f \in FrameType /\ f.closure = m.frames[N].closure /\ f.slots = m.frames[N].slots /\ f.ip = a
  BY <1>2 DEF FrameType
<1>4. /\ n = [m EXCEPT !.frames = fs]
      /\ DOMAIN m = {"stack", "top", "frames", "handlers", "runs", "heap", "globals", "open",
                     "collector", "out", "exc", "status"}
  BY DEF Goto, Struct, Fields
<1>5. Over(fs, FrameType)
  <2> HIDE DEF f, N
  <2> QED BY <1>1, <1>3, OverExcept
<1>6. Len(fs) = N /\ DOMAIN fs = DOMAIN m.frames /\ fs[N] = f /\ \A i \in DOMAIN m.frames : i # N => fs[i] = m.frames[i]
  <2> HIDE DEF f, N
  <2> QED BY <1>1, <1>2, SeqExcept DEF Over
<1> HIDE DEF f, fs, N, n
<1>7. /\ n.frames = fs /\ n.handlers = m.handlers /\ n.runs = m.runs /\ n.heap = m.heap
      /\ n.open = m.open /\ n.top = m.top /\ n.status = m.status /\ n.stack = m.stack
      /\ n.globals = m.globals /\ n.collector = m.collector /\ Fields(n)
  BY <1>4 DEF Fields
<1>8. Framed(fs, m.heap, G)
  <2>1. Framed(m.frames, m.heap, G)
    BY DEF Struct, Body
  <2>2. \A i \in DOMAIN G : /\ fs[i].slots = m.frames[i].slots /\ fs[i].closure = m.frames[i].closure
                            /\ i < N => fs[i] = m.frames[i]
    BY <1>1, <1>3, <1>6
  <2> QED BY <1>1, <1>5, <1>6, <2>1, <2>2 DEF Framed
<1>9. OpenKept(m.open, m.heap, fs, G)
  <2>1. ~(Len(G) < Len(fs)) /\ ~(Len(G) < Len(m.frames))
    BY <1>1, <1>6
  <2>2. \A s : Owned(s, m.frames, G) => Owned(s, fs, G)
    BY <2>1 DEF Owned
  <2> QED BY <2>2 DEF Struct, OpenKept
<1>10. Struct(n, G)
  BY <1>7, <1>8, <1>9 DEF Struct, Body
<1>11. Last(n.frames).ip = a /\ Len(n.frames) = Len(m.frames)
  BY <1>3, <1>6, <1>7 DEF Last, N
<1> QED BY <1>7, <1>10, <1>11 DEF n

\* The last frame goes on at t with the handlers it has.
LEMMA TurnPoised ==
    ASSUME SoundCode, NEW m, NEW G, Struct(m, G), Len(G) = Len(m.frames),
           Len(m.handlers) = Upto(G, Len(G)),
           NEW t \in DOMAIN PointAt[G[Len(G)].fn], Last(m.frames).ip = t,
           PointAt[G[Len(G)].fn][t].handlers = HandlersOf(G, Len(G)),
           Pt(G, Len(G)).open \subseteq PointAt[G[Len(G)].fn][t].open
    PROVE  Poised(m, Turn(G, t))
<1> DEFINE N == Len(G)
           H == Turn(G, t)
<1>1. /\ Views(G) /\ N \in Nat \ {0} /\ N \in DOMAIN G
      /\ Over(m.handlers, HandlerType) /\ Len(m.handlers) \in Nat
  BY StructFacts
<1>2. /\ Len(H) = N /\ DOMAIN H = DOMAIN G /\ H[N].ip = t /\ H[N].slots = G[N].slots
      /\ H[N].run = G[N].run /\ H[N].below = G[N].below /\ Pt(H, N) = PointAt[G[N].fn][t]
  BY <1>1, TurnViews
<1>4. HandlersKept(m.handlers, m.runs, G)
  BY DEF Struct, Body
<1>5. HandlersKept(m.handlers, m.runs, H) /\ Upto(H, N) = Upto(G, N)
  <2>1. PICK rs, hs : rs = m.runs /\ hs = m.handlers
    OBVIOUS
  <2>2. HandlersKept(hs, rs, Turn(G, t)) /\ Upto(Turn(G, t), Len(G)) = Upto(G, Len(G))
    BY <1>1, <1>4, <2>1, TurnKept
  <2> QED BY <2>1, <2>2
<1>6. Body(m.frames, m.handlers, m.runs, m.heap, H)
  BY <1>5, TurnBody DEF Struct
<1>7. OpenKept(m.open, m.heap, m.frames, H)
  <2>1. \A s : Owned(s, m.frames, G) => Owned(s, m.frames, H)
    BY <1>1, TurnOwned
  <2> QED BY <2>1 DEF Struct, OpenKept
<1> HIDE DEF H
<1>8. Struct(m, H)
  BY <1>6, <1>7 DEF Struct
<1>9. Poised(m, H)
  BY <1>2, <1>5, <1>8 DEF Poised, Last
<1> QED BY <1>9 DEF H

\* The instruction of a running machine, and its point.
LEMMA Here ==
    ASSUME SoundCode, NEW G, code = Fns, Running(vm, G)
    PROVE  LET N == Len(G)
               fn == Fns[G[N].fn]
               at == PointAt[G[N].fn]
               p == Pt(G, N)
           IN /\ G[N].fn \in DOMAIN Fns /\ Function(vm) = fn
              /\ Instr = fn.code[G[N].ip] /\ Frame(vm).ip = G[N].ip /\ Frame(vm).slots = G[N].slots
              /\ Frame(vm).closure \in DOMAIN vm.heap
              /\ G[N].ip \in Nat /\ G[N].slots \in Int
              /\ p \in Points /\ vm.top = G[N].slots + p.height - 1 /\ vm.top \in Int
              /\ Sound(Fns, fn, Instr, p)
              /\ \A t \in Targets(Instr, G[N].ip) : t \in DOMAIN at /\ Agrees(After(Fns, Instr, p), at[t])
<1> DEFINE N == Len(G)
           fn == Fns[G[N].fn]
           at == PointAt[G[N].fn]
           p == Pt(G, N)
<1>1. Poised(vm, G) /\ Struct(vm, G) /\ vm.top = Rest(G, N)
  BY DEF Running, Poised
<1>2. /\ Views(G) /\ N \in DOMAIN G /\ N = Len(vm.frames)
  BY <1>1, StructFacts DEF Poised
<1>3. /\ G[N].fn \in DOMAIN Fns /\ G[N].ip \in DOMAIN at /\ p \in Points /\ Rest(G, N) \in Int
      /\ G[N].slots \in Int /\ G[N] \in View
  BY <1>2, ViewFacts DEF Views
<1>4. Frame(vm) = vm.frames[N] /\ Frame(vm).ip = G[N].ip
  BY <1>1, <1>2 DEF Frame, Last, Poised
<1>5. /\ Frame(vm).slots = G[N].slots /\ Frame(vm).closure \in DOMAIN vm.heap
      /\ vm.heap[Frame(vm).closure].fn = G[N].fn
  BY <1>1, <1>2, <1>4 DEF Struct, Body, Framed
<1>6. Function(vm) = fn
  BY <1>5 DEF Function, Closure
<1>7. Instr = fn.code[G[N].ip]
  BY <1>4, <1>6 DEF Instr
<1>8. Shaped(Fns, fn, at)
  BY <1>3 DEF SoundCode
<1>9. p = at[G[N].ip]
  BY DEF Pt
<1>10. /\ Sound(Fns, fn, Instr, p)
       /\ \A t \in Targets(Instr, G[N].ip) : t \in DOMAIN at /\ Agrees(After(Fns, Instr, p), at[t])
  BY <1>3, <1>7, <1>8, <1>9 DEF Shaped
<1>11. vm.top = G[N].slots + p.height - 1 /\ G[N].ip \in Nat /\ vm.top \in Int
  BY <1>1, <1>3 DEF Rest, View
<1> QED BY <1>3, <1>4, <1>5, <1>6, <1>7, <1>10, <1>11
\* m has become n with t values on the stack, unless it stopped or raised.
Settles(m, n, t) == Calm(m, n) /\ (n.status = "running" => n.top = t)

\* A quiet step settles at its height.
LEMMA QuietSettles ==
    ASSUME NEW m, NEW n, NEW t, Quiet(m, n, t)
    PROVE  Settles(m, n, t)
BY DEF Quiet, Settles

\* So does an exception, whatever the height.
LEMMA ErrorSettles ==
    ASSUME NEW m, Ready(m), NEW t
    PROVE  /\ Settles(m, RuntimeError(m), t) /\ Settles(m, LeftOut(m), t)
           /\ \A v : Settles(m, Throw(m, v), t)
<1>1. ASSUME NEW v
      PROVE  Settles(m, Throw(m, v), t)
  BY ThrowCalm DEF Settles
<1> QED BY <1>1, ThrowCalm DEF Settles

\* After something quiet.
LEMMA SettlesTrans ==
    ASSUME NEW m, NEW n, NEW p, NEW s, NEW t, Ready(m), Quiet(m, n, s), Settles(n, p, t)
    PROVE  Settles(m, p, t)
BY CalmTrans DEF Quiet, Settles

\* A value in place of those on top, or an exception.
LEMMA YieldsSettles ==
    ASSUME NEW m, Ready(m), m.top \in Int, NEW k \in Int, NEW v
    PROVE  Settles(m, IF v = Failed THEN RuntimeError(m) ELSE Replace(m, k, v), m.top - k + 1)
BY ReplaceQuiet, QuietSettles, ErrorSettles

\* A machine that settles at the height of its point is good.
LEMMA SettlesGood ==
    ASSUME NEW m, NEW n, NEW G, Poised(m, G), Settles(m, n, Rest(G, Len(G)))
    PROVE  Good(n)
<1>1. Struct(n, G) /\ n.frames = m.frames /\ n.handlers = m.handlers
  BY CalmStruct DEF Poised, Settles, Calm
<1>2. Poised(n, G)
  BY <1>1 DEF Poised
<1> QED BY <1>1, <1>2 DEF Good, Running, Settles

\* The machine at the next instruction.
Special == {"PUSH_HANDLER", "POP_HANDLER", "CLOSURE", "CLOSE_UPVALUE"}
\* The machine at a target of the instruction, but for the height.
LEMMA Onward ==
    ASSUME SoundCode, NEW G, code = Fns, Running(vm, G), Instr.op \notin Special,
           Growth(Instr) \in Int, NEW t \in Targets(Instr, G[Len(G)].ip)
    PROVE  /\ Poised(Goto(vm, t), Turn(G, t)) /\ Ready(Goto(vm, t))
           /\ Goto(vm, t).top = vm.top /\ Goto(vm, t).status = vm.status /\ Goto(vm, t).heap = vm.heap
           /\ Rest(Turn(G, t), Len(Turn(G, t))) = vm.top + Growth(Instr)
<1> DEFINE N == Len(G)
           n == Goto(vm, t)
           at == PointAt[G[N].fn]
           p == Pt(G, N)
           H == Turn(G, t)
<1>1. /\ Struct(vm, G) /\ N = Len(vm.frames) /\ Len(vm.handlers) = Upto(G, N)
  BY DEF Running, Poised
<1>2. /\ t \in DOMAIN at /\ Agrees(After(Fns, Instr, p), at[t])
      /\ p \in Points /\ vm.top = G[N].slots + p.height - 1 /\ G[N].slots \in Int
      /\ G[N].fn \in DOMAIN Fns
  BY Here
<1>3. Views(G) /\ N \in DOMAIN G
  BY <1>1, StructFacts
<1>4. t \in Nat
  <2>1. Shaped(Fns, Fns[G[N].fn], at) /\ IsSeq(Fns[G[N].fn].code)
    BY <1>2 DEF SoundCode
  <2>2. t \in DOMAIN Fns[G[N].fn].code
    BY <1>2, <2>1 DEF Shaped
  <2> QED BY <2>1, <2>2, SeqLen
<1>5. /\ Struct(n, G) /\ Len(n.frames) = Len(vm.frames) /\ Last(n.frames).ip = t
      /\ n.top = vm.top /\ n.status = vm.status /\ n.heap = vm.heap /\ n.handlers = vm.handlers
  BY <1>1, <1>4, GotoStruct
<1>6. After(Fns, Instr, p) = Point(p.height + Growth(Instr), p.handlers, p.open)
  BY DEF After, Special
<1>7. at[t].height = p.height + Growth(Instr) /\ at[t].handlers = p.handlers /\ p.open \subseteq at[t].open
  BY <1>2, <1>6 DEF Agrees, Point
<1>8. Poised(n, H)
  <2>1. Len(G) = Len(n.frames) /\ Len(n.handlers) = Upto(G, N) /\ at[t].handlers = HandlersOf(G, N)
    BY <1>1, <1>5, <1>7 DEF HandlersOf
  <2> HIDE DEF n
  <2> QED BY <1>2, <1>5, <1>7, <2>1, TurnPoised
<1>9. Rest(H, Len(H)) = vm.top + Growth(Instr)
  <2>1. Len(H) = N /\ H[N].slots = G[N].slots /\ Pt(H, N) = at[t]
    BY <1>2, <1>3, TurnViews
  <2>2. p.height \in Nat
    BY <1>2 DEF Points
  <2> HIDE DEF H
  <2>3. Rest(H, Len(H)) = G[N].slots + at[t].height - 1
    BY <2>1 DEF Rest
  <2> QED BY <1>2, <1>7, <2>2, <2>3
<1>10. Ready(n)
  BY <1>5, StructFacts
<1> QED BY <1>5, <1>8, <1>9, <1>10

\* Instructions that lead to the next one.
Straight(op) == op \notin Special \cup {"RETURN", "RAISE", "JUMP", "LOOP"}
\* The machine at the next instruction, but for the height.
LEMMA StraightOn ==
    ASSUME SoundCode, NEW G, code = Fns, Running(vm, G), Straight(Instr.op), Growth(Instr) \in Int
    PROVE  /\ Ready(Ahead) /\ Ahead.top = vm.top /\ vm.top \in Int /\ Ahead.status = vm.status
           /\ Ahead.heap = vm.heap
           /\ \E H : Poised(Ahead, H) /\ Rest(H, Len(H)) = vm.top + Growth(Instr)
<1> DEFINE t == G[Len(G)].ip + 1
<1>1. t \in Targets(Instr, G[Len(G)].ip)
  BY DEF Straight, Targets
<1>2. Frame(vm).ip = G[Len(G)].ip /\ vm.top \in Int
  BY Here
<1>3. Ahead = Goto(vm, t)
  BY <1>2 DEF Ahead
<1> HIDE DEF t
<1>4. Instr.op \notin Special
  BY DEF Straight
<1>5. /\ Poised(Goto(vm, t), Turn(G, t)) /\ Ready(Goto(vm, t))
      /\ Goto(vm, t).top = vm.top /\ Goto(vm, t).status = vm.status /\ Goto(vm, t).heap = vm.heap
      /\ Rest(Turn(G, t), Len(Turn(G, t))) = vm.top + Growth(Instr)
  BY <1>1, <1>4, Onward
<1> QED BY <1>2, <1>3, <1>5

\* An instruction that settles at its height at the next one.
LEMMA StraightGood ==
    ASSUME SoundCode, NEW G, code = Fns, Running(vm, G), Straight(Instr.op), Growth(Instr) \in Int,
           NEW n, Settles(Ahead, n, vm.top + Growth(Instr))
    PROVE  Good(n)
BY StraightOn, SettlesGood

\* Changes of one field of one object.
LEMMA FieldQuiet ==
    ASSUME NEW m, Ready(m), NEW a, NEW x
    PROVE  /\ Quiet(m, [m EXCEPT !.heap[a].fields = x], m.top)
           /\ Quiet(m, [m EXCEPT !.heap[a].methods = x], m.top)
           /\ Quiet(m, [m EXCEPT !.heap[a].isStruct = x], m.top)
           /\ Quiet(m, [m EXCEPT !.heap[a].isEnum = x], m.top)
           /\ Quiet(m, [m EXCEPT !.heap[a].super = x], m.top)
           /\ Quiet(m, [m EXCEPT !.heap[a].val = x], m.top)
<1>1. "heap" \in DOMAIN m /\ HeapOK(m.heap)
  BY DEF Ready, Fields
<1>2. Quiet(m, [m EXCEPT !.heap[a].fields = x], m.top)
  <2> DEFINE g == [m.heap EXCEPT ![a].fields = x]
  <2>1. HeapGrows(m.heap, g)
    BY <1>1, GrowsField
  <2>2. [m EXCEPT !.heap[a].fields = x] = [m EXCEPT !.heap = g]
    BY <1>1
  <2> HIDE DEF g
  <2> QED BY <2>1, <2>2, HeapQuiet
<1>3. Quiet(m, [m EXCEPT !.heap[a].methods = x], m.top)
  <2> DEFINE g == [m.heap EXCEPT ![a].methods = x]
  <2>1. HeapGrows(m.heap, g)
    BY <1>1, GrowsField
  <2>2. [m EXCEPT !.heap[a].methods = x] = [m EXCEPT !.heap = g]
    BY <1>1
  <2> HIDE DEF g
  <2> QED BY <2>1, <2>2, HeapQuiet
<1>4. Quiet(m, [m EXCEPT !.heap[a].isStruct = x], m.top)
  <2> DEFINE g == [m.heap EXCEPT ![a].isStruct = x]
  <2>1. HeapGrows(m.heap, g)
    BY <1>1, GrowsField
  <2>2. [m EXCEPT !.heap[a].isStruct = x] = [m EXCEPT !.heap = g]
    BY <1>1
  <2> HIDE DEF g
  <2> QED BY <2>1, <2>2, HeapQuiet
<1>5. Quiet(m, [m EXCEPT !.heap[a].isEnum = x], m.top)
  <2> DEFINE g == [m.heap EXCEPT ![a].isEnum = x]
  <2>1. HeapGrows(m.heap, g)
    BY <1>1, GrowsField
  <2>2. [m EXCEPT !.heap[a].isEnum = x] = [m EXCEPT !.heap = g]
    BY <1>1
  <2> HIDE DEF g
  <2> QED BY <2>1, <2>2, HeapQuiet
<1>6. Quiet(m, [m EXCEPT !.heap[a].super = x], m.top)
  <2> DEFINE g == [m.heap EXCEPT ![a].super = x]
  <2>1. HeapGrows(m.heap, g)
    BY <1>1, GrowsField
  <2>2. [m EXCEPT !.heap[a].super = x] = [m EXCEPT !.heap = g]
    BY <1>1
  <2> HIDE DEF g
  <2> QED BY <2>1, <2>2, HeapQuiet
<1>7. Quiet(m, [m EXCEPT !.heap[a].val = x], m.top)
  <2> DEFINE g == [m.heap EXCEPT ![a].val = x]
  <2>1. HeapGrows(m.heap, g)
    BY <1>1, GrowsField
  <2>2. [m EXCEPT !.heap[a].val = x] = [m EXCEPT !.heap = g]
    BY <1>1
  <2> HIDE DEF g
  <2> QED BY <2>1, <2>2, HeapQuiet
<1> QED BY <1>2, <1>3, <1>4, <1>5, <1>6, <1>7
(* ------------------------------ simple actions --------------------------- *)

\* A value, or an exception, in place of k values.
LEMMA YieldsGood ==
    ASSUME SoundCode, NEW G, code = Fns, Running(vm, G), Straight(Instr.op), NEW k \in Int,
           Growth(Instr) = 1 - k, NEW v, Yields(k, v)
    PROVE  Good(vm')
<1>1. vm' = IF v = Failed THEN RuntimeError(Ahead) ELSE Replace(Ahead, k, v)
  BY DEF Yields, Becomes
<1>2. Growth(Instr) \in Int
  OBVIOUS
<1>3. Ready(Ahead) /\ Ahead.top = vm.top /\ vm.top \in Int
  BY <1>2, StraightOn
<1>4. Settles(Ahead, vm', Ahead.top - k + 1)
  BY <1>1, <1>3, YieldsSettles
<1>5. Ahead.top - k + 1 = vm.top + Growth(Instr)
  BY <1>3
<1> QED BY <1>2, <1>4, <1>5, StraightGood

\* OP_PUSH_NULL and the other literals.
LEMMA LiteralGood ==
    ASSUME SoundCode, NEW G, code = Fns, Running(vm, G), Literal
    PROVE  Good(vm')
<1>1. Straight(Instr.op) /\ Growth(Instr) = 1 - 0
  BY DEF Literal, Executing, Straight, Special, Growth
<1>2. PICK v : Yields(0, v)
  BY DEF Literal
<1> QED BY <1>1, <1>2, YieldsGood

\* OP_LOAD_LOCAL and OP_STORE_LOCAL.
LEMMA LocalVariableGood ==
    ASSUME SoundCode, NEW G, code = Fns, Running(vm, G), LocalVariable
    PROVE  Good(vm')
<1>1. Straight(Instr.op) /\ Growth(Instr) = IF Instr.op = "LOAD_LOCAL" THEN 1 ELSE 0
  BY DEF LocalVariable, Executing, Straight, Special, Growth
<1>2. Growth(Instr) \in Int
  BY <1>1
<1>3. Ready(Ahead) /\ Ahead.top = vm.top /\ vm.top \in Int
  BY <1>1, <1>2, StraightOn
<1>4. CASE Instr.op = "LOAD_LOCAL"
  <2>1. PICK v : vm' = Push(Ahead, v)
    BY <1>4 DEF LocalVariable, Becomes
  <2>2. Settles(Ahead, vm', vm.top + Growth(Instr))
    BY <1>1, <1>3, <1>4, <2>1, PushQuiet, QuietSettles
  <2> QED BY <1>1, <1>2, <2>2, StraightGood
<1>5. CASE Instr.op # "LOAD_LOCAL"
  <2>1. PICK q, v : vm' = Put(Ahead, q, v)
    BY <1>5 DEF LocalVariable, Becomes
  <2>2. Settles(Ahead, vm', Ahead.top)
    BY <1>3, <2>1, PutQuiet, QuietSettles
  <2>3. Ahead.top = vm.top + Growth(Instr)
    BY <1>1, <1>3, <1>5
  <2> QED BY <1>1, <1>2, <2>2, <2>3, StraightGood
<1> QED BY <1>4, <1>5

\* OP_LOAD_GLOBAL, OP_STORE_GLOBAL and OP_DEFINE_GLOBAL.
LEMMA GlobalVariableGood ==
    ASSUME SoundCode, NEW G, code = Fns, Running(vm, G), GlobalVariable
    PROVE  Good(vm')
<1>1. /\ Straight(Instr.op)
      /\ Instr.op = "LOAD_GLOBAL" => Growth(Instr) = 1 - 0
      /\ Instr.op = "STORE_GLOBAL" => Growth(Instr) = 0
      /\ Instr.op = "DEFINE_GLOBAL" => Growth(Instr) = -1
      /\ Instr.op \in {"LOAD_GLOBAL", "STORE_GLOBAL", "DEFINE_GLOBAL"}
  BY DEF GlobalVariable, Executing, Straight, Special, Growth
<1>2. Growth(Instr) \in Int
  BY <1>1
<1>3. Ready(Ahead) /\ Ahead.top = vm.top /\ vm.top \in Int
  BY <1>1, <1>2, StraightOn
<1> DEFINE globals == (Instr.s :> Peek(vm, 0)) @@ Ahead.globals
           set == [Ahead EXCEPT !.globals = globals]
<1>4. CASE Instr.op = "LOAD_GLOBAL"
  <2>1. PICK v : Yields(0, v)
    BY <1>4 DEF GlobalVariable
  <2> QED BY <1>1, <1>4, <2>1, YieldsGood
<1>5. CASE Instr.op # "LOAD_GLOBAL"
  <2>1. vm' = IF Instr.op = "STORE_GLOBAL" THEN set ELSE Drop(set, 1)
    BY <1>5 DEF GlobalVariable, Becomes
  <2> HIDE DEF globals
  <2>2. Quiet(Ahead, set, Ahead.top)
    BY <1>3, OtherQuiet
  <2> HIDE DEF set
  <2>3. Ready(set) /\ set.top = vm.top
    BY <1>3, <2>2, CalmReady DEF Quiet
  <2>4. Quiet(set, Drop(set, 1), set.top - 1)
    BY <2>3, DropQuiet
  <2>5. Quiet(Ahead, Drop(set, 1), set.top - 1)
    BY <1>3, <2>2, <2>4, QuietTrans
  <2>6. Settles(Ahead, vm', vm.top + Growth(Instr))
    <3>1. CASE Instr.op = "STORE_GLOBAL"
      <4>1. vm.top + Growth(Instr) = Ahead.top /\ vm' = set
        BY <1>1, <1>3, <2>1, <3>1
      <4> QED BY <2>2, <4>1, QuietSettles
    <3>2. CASE Instr.op # "STORE_GLOBAL"
      <4>1. vm.top + Growth(Instr) = set.top - 1 /\ vm' = Drop(set, 1)
        BY <1>1, <1>3, <1>5, <2>1, <2>3, <3>2
      <4> QED BY <2>5, <4>1, QuietSettles
    <3> QED BY <3>1, <3>2
  <2> QED BY <1>1, <1>2, <2>6, StraightGood
<1> QED BY <1>4, <1>5

\* OP_GET_UPVALUE and OP_SET_UPVALUE.
LEMMA UpvalueVariableGood ==
    ASSUME SoundCode, NEW G, code = Fns, Running(vm, G), UpvalueVariable
    PROVE  Good(vm')
<1>1. Straight(Instr.op) /\ Growth(Instr) = IF Instr.op = "GET_UPVALUE" THEN 1 ELSE 0
  BY DEF UpvalueVariable, Executing, Straight, Special, Growth
<1>2. Growth(Instr) \in Int
  BY <1>1
<1>3. Ready(Ahead) /\ Ahead.top = vm.top /\ vm.top \in Int
  BY <1>1, <1>2, StraightOn
<1>4. CASE Instr.op = "GET_UPVALUE"
  <2>1. PICK v : vm' = Push(Ahead, v)
    BY <1>4 DEF UpvalueVariable, Becomes
  <2>2. Settles(Ahead, vm', vm.top + Growth(Instr))
    BY <1>1, <1>3, <1>4, <2>1, PushQuiet, QuietSettles
  <2> QED BY <1>1, <1>2, <2>2, StraightGood
<1>5. CASE Instr.op # "GET_UPVALUE"
  <2>1. PICK u, v : vm' = UpvalueSet(Ahead, u, v)
    BY <1>5 DEF UpvalueVariable, Becomes
  <2>2. vm' = Put(Ahead, Ahead.heap[u].slot, v) \/ vm' = [Ahead EXCEPT !.heap[u].val = v]
    BY <2>1 DEF UpvalueSet
  <2>3. Quiet(Ahead, Put(Ahead, Ahead.heap[u].slot, v), Ahead.top)
    BY <1>3, PutQuiet
  <2>4. Quiet(Ahead, [Ahead EXCEPT !.heap[u].val = v], Ahead.top)
    BY <1>3, FieldQuiet
  <2>5. Settles(Ahead, vm', Ahead.top)
    BY <2>2, <2>3, <2>4, QuietSettles
  <2>6. Ahead.top = vm.top + Growth(Instr)
    BY <1>1, <1>3, <1>5
  <2> QED BY <1>1, <1>2, <2>5, <2>6, StraightGood
<1> QED BY <1>4, <1>5

\* OP_GET_ATTR.
LEMMA GetAttrGood ==
    ASSUME SoundCode, NEW G, code = Fns, Running(vm, G), GetAttr
    PROVE  Good(vm')
<1>1. Straight(Instr.op) /\ Growth(Instr) = 1 - 1
  BY DEF GetAttr, Executing, Straight, Special, Growth
<1>2. Growth(Instr) \in Int
  BY <1>1
<1>3. Ready(Ahead) /\ Ahead.top = vm.top /\ vm.top \in Int /\ Ahead.heap = vm.heap
  BY <1>1, <1>2, StraightOn
<1> DEFINE v == Peek(vm, 0)
           r == InstanceAttr(vm.heap, v, Instr.s)
           set == [Ahead EXCEPT !.heap = r.heap]
<1>4. CASE IsObj(vm.heap, v, "instance") /\ r.v # Failed
  <2>1. vm' = Replace(set, 1, r.v)
    BY <1>4 DEF GetAttr, Becomes
  <2>2. HeapGrows(Ahead.heap, r.heap)
    BY <1>3, InstanceAttrGrows DEF Ready
  <2> HIDE DEF r
  <2>3. Quiet(Ahead, set, Ahead.top)
    BY <1>3, <2>2, HeapQuiet
  <2> HIDE DEF set
  <2>4. Ready(set) /\ set.top = vm.top
    BY <1>3, <2>3, CalmReady DEF Quiet
  <2>5. Quiet(set, Replace(set, 1, r.v), set.top - 1 + 1)
    BY <2>4, ReplaceQuiet
  <2>6. Quiet(Ahead, vm', set.top - 1 + 1)
    BY <1>3, <2>1, <2>3, <2>5, QuietTrans
  <2>7. set.top - 1 + 1 = vm.top + Growth(Instr)
    BY <1>1, <1>3, <2>4
  <2> QED BY <1>1, <1>2, <2>6, <2>7, QuietSettles, StraightGood
<1>5. CASE ~(IsObj(vm.heap, v, "instance") /\ r.v # Failed)
  <2>1. PICK w : Yields(1, w)
    BY <1>5 DEF GetAttr
  <2> QED BY <1>1, <2>1, YieldsGood
<1> QED BY <1>4, <1>5

\* OP_SET_ATTR.
LEMMA SetAttrGood ==
    ASSUME SoundCode, NEW G, code = Fns, Running(vm, G), SetAttr
    PROVE  Good(vm')
<1>1. Straight(Instr.op) /\ Growth(Instr) = -2
  BY DEF SetAttr, Executing, Straight, Special, Growth
<1>2. Growth(Instr) \in Int
  BY <1>1
<1>3. Ready(Ahead) /\ Ahead.top = vm.top /\ vm.top \in Int
  BY <1>1, <1>2, StraightOn
<1> DEFINE d == Drop(Ahead, 2)
           a == Peek(vm, 1)[2]
           x == (Instr.s :> Peek(vm, 0)) @@ d.heap[a].fields
<1>4. vm' = RuntimeError(Ahead) \/ vm' = [d EXCEPT !.heap[a].fields = x]
  BY DEF SetAttr, Becomes
<1> HIDE DEF x, a
<1>5. Quiet(Ahead, d, Ahead.top - 2)
  BY <1>3, DropQuiet
<1> HIDE DEF d
<1>6. Ready(d) /\ d.top = vm.top - 2
  BY <1>3, <1>5, CalmReady DEF Quiet
<1>7. Quiet(d, [d EXCEPT !.heap[a].fields = x], d.top)
  BY <1>6, FieldQuiet
<1>8. Quiet(Ahead, [d EXCEPT !.heap[a].fields = x], d.top)
  BY <1>3, <1>5, <1>7, QuietTrans
<1>9. Settles(Ahead, vm', d.top)
  BY <1>3, <1>4, <1>8, QuietSettles, ErrorSettles
<1>10. d.top = vm.top + Growth(Instr)
  BY <1>1, <1>3, <1>6
<1> QED BY <1>1, <1>2, <1>9, <1>10, StraightGood

\* OP_POP and OP_DUP.
LEMMA PopOrDupGood ==
    ASSUME SoundCode, NEW G, code = Fns, Running(vm, G), PopOrDup
    PROVE  Good(vm')
<1>1. Straight(Instr.op) /\ Growth(Instr) = IF Instr.op = "POP" THEN -1 ELSE 1
  BY DEF PopOrDup, Executing, Straight, Special, Growth
<1>2. Growth(Instr) \in Int
  BY <1>1
<1>3. Ready(Ahead) /\ Ahead.top = vm.top /\ vm.top \in Int
  BY <1>1, <1>2, StraightOn
<1>4. vm' = IF Instr.op = "POP" THEN Drop(Ahead, 1) ELSE Push(Ahead, Peek(vm, 0))
  BY DEF PopOrDup, Becomes
<1>5. Settles(Ahead, Drop(Ahead, 1), Ahead.top - 1)
  BY <1>3, DropQuiet, QuietSettles
<1>6. Settles(Ahead, Push(Ahead, Peek(vm, 0)), Ahead.top + 1)
  BY <1>3, PushQuiet, QuietSettles
<1>7. Settles(Ahead, vm', vm.top + Growth(Instr))
  <2>1. CASE Instr.op = "POP"
    BY <1>1, <1>3, <1>4, <1>5, <2>1
  <2>2. CASE Instr.op # "POP"
    BY <1>1, <1>3, <1>4, <1>6, <2>2
  <2> QED BY <2>1, <2>2
<1> QED BY <1>1, <1>2, <1>7, StraightGood
\* A new object in place of k values.
LEMMA MadeQuiet ==
    ASSUME NEW m, Ready(m), m.top \in Int, NEW k \in Int, NEW o, Object(o)
    PROVE  Quiet(m, PushNew(Drop(m, k), o), m.top - k + 1)
<1> DEFINE d == Drop(m, k)
<1>1. Quiet(m, d, m.top - k)
  BY DropQuiet
<1> HIDE DEF d
<1>2. Ready(d) /\ d.top = m.top - k
  BY <1>1, CalmReady DEF Quiet
<1>3. Quiet(d, PushNew(d, o), m.top - k + 1)
  BY <1>2, PushNewQuiet
<1>4. Quiet(m, PushNew(d, o), m.top - k + 1)
  BY <1>1, <1>3, QuietTrans
<1> QED BY <1>4 DEF d

\* OP_SLICE.
LEMMA SliceOpGood ==
    ASSUME SoundCode, NEW G, code = Fns, Running(vm, G), SliceOp
    PROVE  Good(vm')
<1>1. Straight(Instr.op) /\ Growth(Instr) = -3
  BY DEF SliceOp, Executing, Straight, Special, Growth
<1>2. Growth(Instr) \in Int
  BY <1>1
<1>3. Ready(Ahead) /\ Ahead.top = vm.top /\ vm.top \in Int /\ Ahead.heap = vm.heap
  BY <1>1, <1>2, StraightOn
<1> DEFINE v == Peek(vm, 3)
           m == Drop(Ahead, 4)
           by == IF Peek(vm, 0) = VNull THEN 1 ELSE AsInt(Peek(vm, 0))
           es == Sliced(ObjOf(vm.heap, v).es, Peek(vm, 2), Peek(vm, 1), by)
<1>4. vm' = IF by # 0 /\ IsObj(vm.heap, v, "list") THEN PushNew(m, ListObj(es)) ELSE RuntimeError(m)
  BY DEF SliceOp, Becomes
<1>5. by \in Int
  BY AsIntInt
<1> HIDE DEF by
<1>6. CASE by # 0 /\ IsObj(vm.heap, v, "list")
  <2>1. IsSeq(ObjOf(vm.heap, v).es)
    BY <1>3, <1>6 DEF IsObj, ObjOf, Ready, HeapOK, Object
  <2>2. IsSeq(es)
    BY <1>5, <1>6, <2>1, SlicedSeq
  <2> HIDE DEF es
  <2>3. Object(ListObj(es))
    BY <2>2, NewObjects
  <2>4. Quiet(Ahead, PushNew(m, ListObj(es)), Ahead.top - 4 + 1)
    BY <1>3, <2>3, MadeQuiet
  <2>5. Ahead.top - 4 + 1 = vm.top + Growth(Instr)
    BY <1>1, <1>3
  <2> HIDE DEF m
  <2>6. Settles(Ahead, vm', vm.top + Growth(Instr))
    BY <1>4, <1>6, <2>4, <2>5, QuietSettles
  <2> QED BY <1>1, <1>2, <2>6, StraightGood
<1>7. CASE ~(by # 0 /\ IsObj(vm.heap, v, "list"))
  <2>1. Quiet(Ahead, m, Ahead.top - 4)
    BY <1>3, DropQuiet
  <2> HIDE DEF m
  <2>2. Ready(m)
    BY <1>3, <2>1, CalmReady DEF Quiet
  <2>3. Settles(m, RuntimeError(m), vm.top + Growth(Instr))
    BY <2>2, ErrorSettles
  <2>4. Settles(Ahead, vm', vm.top + Growth(Instr))
    BY <1>3, <1>4, <1>7, <2>1, <2>3, SettlesTrans
  <2> QED BY <1>1, <1>2, <2>4, StraightGood
<1> QED BY <1>6, <1>7

\* OP_CREATE_LIST and OP_CREATE_DICT.
LEMMA CollectionGood ==
    ASSUME SoundCode, NEW G, code = Fns, Running(vm, G), Collection
    PROVE  Good(vm')
<1> DEFINE n == IF Instr.op = "CREATE_LIST" THEN Instr.a ELSE 2 * Instr.a
           vs == Args(vm, n)
<1>1. /\ Instr.op \in {"CREATE_LIST", "CREATE_DICT"} /\ Straight(Instr.op) /\ Growth(Instr) = 1 - n
  BY DEF Collection, Executing, Straight, Special, Growth
<1>2. Instr.a \in Nat
  <2>1. Sound(Fns, Fns[G[Len(G)].fn], Instr, Pt(G, Len(G)))
    BY Here
  <2> QED BY <1>1, <2>1 DEF Sound, Counts
<1>3. n \in Nat /\ Growth(Instr) \in Int
  BY <1>1, <1>2
<1>4. Ready(Ahead) /\ Ahead.top = vm.top /\ vm.top \in Int
  BY <1>1, <1>3, StraightOn
<1>5. IsSeq(vs)
  <2> HIDE DEF n
  <2>1. vs = [i \in 1 .. n |-> vs[i]]
    BY DEF Args
  <2> HIDE DEF vs
  <2> QED BY <1>3, <2>1, SeqListed
<1>6. \/ vm' = PushNew(Drop(Ahead, n), ListObj(vs))
      \/ vm' = PushNew(Drop(Ahead, n), DictObj(DictOf(vs, Instr.a)))
      \/ vm' = RuntimeError(Ahead)
  BY DEF Collection, Becomes
<1> HIDE DEF n, vs
<1>7. Object(ListObj(vs)) /\ Object(DictObj(DictOf(vs, Instr.a)))
  BY <1>5, NewObjects
<1>8. PICK o : Object(o) /\ (vm' = PushNew(Drop(Ahead, n), o) \/ vm' = RuntimeError(Ahead))
  BY <1>6, <1>7
<1>9. Quiet(Ahead, PushNew(Drop(Ahead, n), o), Ahead.top - n + 1)
  BY <1>3, <1>4, <1>8, MadeQuiet
<1>10. Ahead.top - n + 1 = vm.top + Growth(Instr)
  BY <1>1, <1>3, <1>4
<1>11. Settles(Ahead, vm', vm.top + Growth(Instr))
  BY <1>4, <1>8, <1>9, <1>10, QuietSettles, ErrorSettles
<1> QED BY <1>1, <1>3, <1>11, StraightGood

\* OP_CLASS, OP_METHOD and the marks of structs and enums.
LEMMA ClassOpGood ==
    ASSUME SoundCode, NEW G, code = Fns, Running(vm, G), ClassOp
    PROVE  Good(vm')
<1>1. /\ Straight(Instr.op)
      /\ Growth(Instr) = CASE Instr.op = "CLASS" -> 1 [] Instr.op = "METHOD" -> -1 [] OTHER -> 0
  BY DEF ClassOp, Executing, Straight, Special, Growth
<1>2. Growth(Instr) \in Int
  BY <1>1
<1>3. Ready(Ahead) /\ Ahead.top = vm.top /\ vm.top \in Int
  BY <1>1, <1>2, StraightOn
<1>4. CASE Instr.op = "CLASS"
  <2> DEFINE o == [k |-> "class", name |-> Instr.s, super |-> 0, methods |-> [x \in {} |-> VNull],
                   isStruct |-> FALSE, isEnum |-> FALSE]
  <2>1. vm' = PushNew(Ahead, o)
    BY <1>4 DEF ClassOp, Becomes
  <2>2. Object(o)
    BY NewObjects
  <2> HIDE DEF o
  <2>3. Quiet(Ahead, vm', Ahead.top + 1)
    BY <1>3, <2>1, <2>2, PushNewQuiet
  <2>4. Ahead.top + 1 = vm.top + Growth(Instr)
    BY <1>1, <1>3, <1>4
  <2> QED BY <1>1, <1>2, <2>3, <2>4, QuietSettles, StraightGood
<1>5. CASE Instr.op = "METHOD"
  <2> DEFINE d == Drop(Ahead, 1)
             a == Peek(vm, 1)[2]
             x == (Instr.s :> Peek(vm, 0)) @@ d.heap[a].methods
  <2>1. vm' = [d EXCEPT !.heap[a].methods = x]
    BY <1>5 DEF ClassOp, Becomes
  <2> HIDE DEF x, a
  <2>2. Quiet(Ahead, d, Ahead.top - 1)
    BY <1>3, DropQuiet
  <2> HIDE DEF d
  <2>3. Ready(d) /\ d.top = vm.top - 1
    BY <1>3, <2>2, CalmReady DEF Quiet
  <2>4. Quiet(d, vm', d.top)
    BY <2>1, <2>3, FieldQuiet
  <2>5. Quiet(Ahead, vm', d.top)
    BY <1>3, <2>2, <2>4, QuietTrans
  <2>6. d.top = vm.top + Growth(Instr)
    BY <1>1, <1>5, <2>3
  <2> QED BY <1>1, <1>2, <2>5, <2>6, QuietSettles, StraightGood
<1>6. CASE Instr.op \notin {"CLASS", "METHOD"}
  <2>1. PICK a : vm' = [Ahead EXCEPT !.heap[a].isStruct = TRUE]
                 \/ vm' = [Ahead EXCEPT !.heap[a].isEnum = TRUE]
    BY <1>6 DEF ClassOp, Becomes
  <2>2. Quiet(Ahead, vm', Ahead.top)
    <3>1. /\ Quiet(Ahead, [Ahead EXCEPT !.heap[a].isStruct = TRUE], Ahead.top)
          /\ Quiet(Ahead, [Ahead EXCEPT !.heap[a].isEnum = TRUE], Ahead.top)
      BY <1>3, FieldQuiet
    <3> QED BY <2>1, <3>1
  <2>3. Ahead.top = vm.top + Growth(Instr)
    BY <1>1, <1>3, <1>6
  <2> QED BY <1>1, <1>2, <2>2, <2>3, QuietSettles, StraightGood
<1> QED BY <1>4, <1>5, <1>6

\* OP_INHERIT.
LEMMA InheritGood ==
    ASSUME SoundCode, NEW G, code = Fns, Running(vm, G), Inherit
    PROVE  Good(vm')
<1>1. Straight(Instr.op) /\ Growth(Instr) = -2
  BY DEF Inherit, Executing, Straight, Special, Growth
<1>2. Growth(Instr) \in Int
  BY <1>1
<1>3. Ready(Ahead) /\ Ahead.top = vm.top /\ vm.top \in Int
  BY <1>1, <1>2, StraightOn
<1> DEFINE d == Drop(Ahead, 2)
           a == Peek(vm, 0)[2]
           x == Peek(vm, 1)[2]
           e == [d EXCEPT !.heap[a].super = x]
           y == ObjOf(vm.heap, Peek(vm, 1)).methods @@ e.heap[a].methods
<1>4. vm' = RuntimeError(Ahead) \/ vm' = [e EXCEPT !.heap[a].methods = y]
  BY DEF Inherit, Becomes
<1> HIDE DEF y, a, x
<1>5. Quiet(Ahead, d, Ahead.top - 2)
  BY <1>3, DropQuiet
<1> HIDE DEF d
<1>6. Ready(d) /\ d.top = vm.top - 2
  BY <1>3, <1>5, CalmReady DEF Quiet
<1>7. Quiet(d, e, d.top)
  BY <1>6, FieldQuiet
<1> HIDE DEF e
<1>8. Ready(e) /\ e.top = d.top
  BY <1>6, <1>7, CalmReady DEF Quiet
<1>9. Quiet(e, [e EXCEPT !.heap[a].methods = y], d.top)
  BY <1>8, FieldQuiet
<1>10. Quiet(Ahead, [e EXCEPT !.heap[a].methods = y], d.top)
  BY <1>3, <1>5, <1>6, <1>7, <1>9, QuietTrans
<1>11. Settles(Ahead, vm', d.top)
  BY <1>3, <1>4, <1>10, QuietSettles, ErrorSettles
<1>12. d.top = vm.top + Growth(Instr)
  BY <1>1, <1>3, <1>6
<1> QED BY <1>1, <1>2, <1>11, <1>12, StraightGood

\* OP_ISINSTANCE.
LEMMA IsInstanceGood ==
    ASSUME SoundCode, NEW G, code = Fns, Running(vm, G), IsInstance
    PROVE  Good(vm')
<1>1. Straight(Instr.op) /\ Growth(Instr) = 1 - 2
  BY DEF IsInstance, Executing, Straight, Special, Growth
<1>2. PICK v : Yields(2, v)
  BY DEF IsInstance
<1> QED BY <1>1, <1>2, YieldsGood

\* OP_GET_SUPER.
LEMMA GetSuperOpGood ==
    ASSUME SoundCode, NEW G, code = Fns, Running(vm, G), GetSuperOp
    PROVE  Good(vm')
<1>1. Straight(Instr.op) /\ Growth(Instr) = 1 - 2 /\ Growth(Instr) \in Int
  BY DEF GetSuperOp, Executing, Straight, Special, Growth
<1>2. Ready(Ahead) /\ Ahead.top = vm.top /\ vm.top \in Int
  BY <1>1, StraightOn
<1>3. CASE \E v : Yields(2, v)
  BY <1>1, <1>3, YieldsGood
<1>4. CASE ~\E v : Yields(2, v)
  <2>1. PICK x, y : vm' = PushNew(Drop(Ahead, 2), [k |-> "bound", recv |-> x, method |-> y])
    BY <1>4 DEF GetSuperOp, Becomes
  <2> DEFINE o == [k |-> "bound", recv |-> x, method |-> y]
  <2>2. Object(o)
    BY NewObjects
  <2>3. vm' = PushNew(Drop(Ahead, 2), o)
    BY <2>1
  <2> HIDE DEF o
  <2>4. Quiet(Ahead, vm', Ahead.top - 2 + 1)
    BY <1>2, <2>2, <2>3, MadeQuiet
  <2>5. Ahead.top - 2 + 1 = vm.top + Growth(Instr)
    BY <1>1, <1>2
  <2> QED BY <1>1, <2>4, <2>5, QuietSettles, StraightGood
<1> QED BY <1>3, <1>4

\* OP_JUMP, OP_LOOP and the conditional jumps.
LEMMA JumpOpGood ==
    ASSUME SoundCode, NEW G, code = Fns, Running(vm, G), JumpOp
    PROVE  Good(vm')
<1>1. /\ Instr.op \in {"JUMP", "LOOP", "JUMP_IF_FALSE", "AND", "OR"} /\ Instr.op \notin Special
      /\ Growth(Instr) = 0
  BY DEF JumpOp, Executing, Special, Growth
<1>2. Frame(vm).ip = G[Len(G)].ip
  BY Here
<1>3. PICK t \in Targets(Instr, G[Len(G)].ip) : vm' = Goto(vm, t)
  <2>1. vm' = Goto(vm, Instr.a) \/ (Instr.op \notin {"JUMP", "LOOP"} /\ vm' = Ahead)
    BY DEF JumpOp, Becomes
  <2>2. Instr.a \in Targets(Instr, G[Len(G)].ip)
    BY <1>1 DEF Targets
  <2>3. Instr.op \notin {"JUMP", "LOOP"} => G[Len(G)].ip + 1 \in Targets(Instr, G[Len(G)].ip)
    BY <1>1 DEF Targets
  <2>4. Ahead = Goto(vm, G[Len(G)].ip + 1)
    BY <1>2 DEF Ahead
  <2> QED BY <2>1, <2>2, <2>3, <2>4
<1>4. /\ Poised(vm', Turn(G, t)) /\ vm'.top = vm.top
      /\ Rest(Turn(G, t), Len(Turn(G, t))) = vm.top + Growth(Instr)
  BY <1>1, <1>3, Onward
<1>5. vm.top \in Int
  BY Here
<1>6. Running(vm', Turn(G, t))
  BY <1>1, <1>4, <1>5 DEF Running
<1> QED BY <1>6 DEF Good, Running, Poised
(* ------------------------------ calls ------------------------------------ *)

\* m has become n with a frame for the closure c on top, in the same call of
\* vm_run or in a new one.
Entered(m, n, t, s) ==
    /\ Fields(n) /\ HeapGrows(m.heap, n.heap) /\ n.handlers = m.handlers /\ n.open = m.open
    /\ n.status = "running" /\ s \in Int
    /\ \E c \in DOMAIN n.heap :
          /\ n.heap[c].k = "closure" /\ n.top = s + Fns[n.heap[c].fn].arity
          /\ n.frames = Append(m.frames, [closure |-> c, ip |-> 1, slots |-> s])
    /\ \/ n.runs = m.runs /\ s = t
       \/ \E r : /\ n.runs = Append(m.runs, r) /\ RunOK(r) /\ r.kind # "script"
                 /\ r.base = Len(m.frames) /\ s = t + Offset(r)

\* H has the views of G, and v above them.
Grown(G, v, H) ==
    /\ IsSeq(H) /\ Len(H) = Len(G) + 1 /\ DOMAIN H = 1 .. Len(G) + 1 /\ H[Len(G) + 1] = v
    /\ \A i \in 1 .. Len(G) : H[i] = G[i]

\* A run leaves the stack no higher than the slots of its frame.
LEMMA OffsetNat ==
    ASSUME NEW r, RunOK(r)
    PROVE  Offset(r) \in Nat
BY DEF RunOK, Offset

\* The runs of the machine after a call: k of them.
LEMMA EnteredRuns ==
    ASSUME SoundCode, NEW G, Views(G), NEW runs, RunsFit(runs, G),
           NEW news, news = runs \/ \E r : /\ news = Append(runs, r) /\ RunOK(r) /\ r.kind # "script"
                                           /\ r.base = Len(G),
           NEW v, v \in View, v.run = Len(news), NEW H, Grown(G, v, H)
    PROVE  RunsFit(news, H) /\ (\A j \in DOMAIN runs : news[j] = runs[j])
           /\ (v.run = G[Len(G)].run <=> news = runs)
<1> DEFINE N == Len(G)
           K == Len(runs)
<1>1. IsSeq(G) /\ N \in Nat \ {0} /\ DOMAIN G = 1 .. N /\ N \in DOMAIN G
  <2>1. IsSeq(G) /\ G # <<>>
    BY DEF Views
  <2> QED BY <2>1, SeqLen
<1>2. /\ IsSeq(runs) /\ runs # <<>> /\ runs[1].kind = "script" /\ runs[1].base = 0
      /\ \A j \in DOMAIN runs : RunOK(runs[j]) /\ runs[j].base < N /\ (j > 1 => runs[j].kind # "script")
      /\ \A j, k \in DOMAIN runs : j < k => runs[j].base < runs[k].base
      /\ \A i \in DOMAIN G : G[i].run \in DOMAIN runs
      /\ \A i \in DOMAIN G, j \in DOMAIN runs : runs[j].base < i <=> j <= G[i].run
  BY DEF RunsFit
<1>3. K \in Nat \ {0} /\ DOMAIN runs = 1 .. K /\ 1 \in DOMAIN runs /\ K \in DOMAIN runs
  BY <1>2, SeqLen
<1>4. G[N].run = K
  <2>1. K <= G[N].run
    BY <1>1, <1>2, <1>3
  <2> QED BY <1>1, <1>2, <1>3, <2>1
<1>5. /\ IsSeq(H) /\ Len(H) = N + 1 /\ DOMAIN H = 1 .. N + 1 /\ H[N + 1] = v
      /\ \A i \in 1 .. N : H[i] = G[i]
  BY <1>1 DEF Grown
<1>6. CASE news = runs
  <2>1. \A j \in DOMAIN runs : runs[j].base < N + 1
    BY <1>1, <1>2 DEF RunOK
  <2>2. \A i \in DOMAIN H : H[i].run \in DOMAIN runs
    <3> TAKE i \in DOMAIN H
    <3>1. i \in 1 .. N \/ i = N + 1
      BY <1>1, <1>5
    <3> QED BY <1>1, <1>2, <1>3, <1>5, <1>6, <3>1
  <2>3. ASSUME NEW i \in DOMAIN H, NEW j \in DOMAIN runs
        PROVE  runs[j].base < i <=> j <= H[i].run
    <3>1. CASE i = N + 1
      BY <1>3, <1>5, <1>6, <2>1, <3>1
    <3>2. CASE i # N + 1
      <4>1. i \in DOMAIN G /\ H[i] = G[i]
        BY <1>1, <1>5, <3>2
      <4> QED BY <1>2, <4>1
    <3> QED BY <3>1, <3>2
  <2>4. RunsFit(runs, H)
    BY <1>2, <1>5, <2>1, <2>2, <2>3 DEF RunsFit
  <2> QED BY <1>4, <1>6, <2>4
<1>7. CASE news # runs
  <2>1. PICK r : news = Append(runs, r) /\ RunOK(r) /\ r.kind # "script" /\ r.base = N
    BY <1>7
  <2>2. /\ IsSeq(news) /\ Len(news) = K + 1 /\ DOMAIN news = 1 .. K + 1 /\ news[K + 1] = r
        /\ \A j \in 1 .. K : news[j] = runs[j]
    BY <1>2, <2>1, SeqAppend
  <2>3. news # <<>> /\ news[1].kind = "script" /\ news[1].base = 0
    BY <1>2, <1>3, <2>2, SeqLen
  <2>4. \A j \in DOMAIN news : /\ RunOK(news[j]) /\ news[j].base < N + 1
                               /\ (j > 1 => news[j].kind # "script")
    <3> TAKE j \in DOMAIN news
    <3>1. j \in DOMAIN runs \/ j = K + 1
      BY <1>3, <2>2
    <3>2. CASE j \in DOMAIN runs
      BY <1>1, <1>2, <1>3, <2>2, <3>2 DEF RunOK
    <3>3. CASE j = K + 1
      BY <1>1, <2>1, <2>2, <3>3
    <3> QED BY <3>1, <3>2, <3>3
  <2>5. \A j, k \in DOMAIN news : j < k => news[j].base < news[k].base
    <3> TAKE j, k \in DOMAIN news
    <3> SUFFICES ASSUME j < k PROVE news[j].base < news[k].base
      OBVIOUS
    <3>1. j \in DOMAIN runs /\ (k \in DOMAIN runs \/ k = K + 1)
      BY <1>3, <2>2
    <3> QED BY <1>2, <1>3, <2>1, <2>2, <3>1
  <2>6. \A i \in DOMAIN H : H[i].run \in DOMAIN news
    <3> TAKE i \in DOMAIN H
    <3>1. i \in 1 .. N \/ i = N + 1
      BY <1>1, <1>5
    <3>2. CASE i \in 1 .. N
      <4>1. H[i].run \in DOMAIN runs
        BY <1>1, <1>2, <1>5, <3>2
      <4> QED BY <1>3, <2>2, <4>1
    <3>3. CASE i = N + 1
      BY <1>3, <1>5, <2>2, <3>3
    <3> QED BY <3>1, <3>2, <3>3
  <2>7. ASSUME NEW i \in DOMAIN H, NEW j \in DOMAIN news
        PROVE  news[j].base < i <=> j <= H[i].run
    <3>1. CASE i = N + 1
      BY <1>5, <2>2, <2>4, <3>1
    <3>2. CASE i # N + 1
      <4>1. i \in DOMAIN G /\ H[i] = G[i] /\ i <= N
        BY <1>1, <1>5, <3>2
      <4>2. G[i].run \in 1 .. K
        BY <1>2, <1>3, <4>1
      <4>3. CASE j = K + 1
        BY <1>1, <2>1, <2>2, <4>1, <4>2, <4>3
      <4>4. CASE j # K + 1
        <5>1. j \in DOMAIN runs /\ news[j] = runs[j]
          BY <1>3, <2>2, <4>4
        <5> QED BY <1>2, <4>1, <5>1
      <4> QED BY <4>3, <4>4
    <3> QED BY <3>1, <3>2
  <2>8. RunsFit(news, H)
    BY <1>5, <2>2, <2>3, <2>4, <2>5, <2>6, <2>7 DEF RunsFit
  <2>9. v.run # G[N].run /\ \A j \in DOMAIN runs : news[j] = runs[j]
    <3>1. v.run = K + 1
      BY <2>2
    <3>2. K + 1 # K
      <4>1. \A k \in Nat : k + 1 # k
        OBVIOUS
      <4> QED BY <1>3, <4>1
    <3>3. \A j \in DOMAIN runs : news[j] = runs[j]
      BY <1>3, <2>2
    <3> QED BY <1>4, <3>1, <3>2, <3>3
  <2> QED BY <1>7, <2>8, <2>9
<1> QED BY <1>6, <1>7

\* The handlers when a frame is pushed.
LEMMA EnteredHandlers ==
    ASSUME SoundCode, NEW G, Views(G), NEW runs, NEW handlers, HandlersKept(handlers, runs, G),
           Len(handlers) = Upto(G, Len(G)), \A i \in DOMAIN G : G[i].run \in DOMAIN runs,
           NEW news, \A j \in DOMAIN runs : news[j] = runs[j],
           NEW v, v \in View, v.below = Upto(G, Len(G)), NEW H, Grown(G, v, H), Views(H),
           HandlersOf(H, Len(G) + 1) = <<>>
    PROVE  HandlersKept(handlers, news, H) /\ Upto(H, Len(H)) = Len(handlers)
<1> DEFINE N == Len(G)
<1>1. IsSeq(G) /\ N \in Nat \ {0} /\ DOMAIN G = 1 .. N /\ N \in DOMAIN G /\ 1 \in DOMAIN G
  <2>1. IsSeq(G) /\ G # <<>>
    BY DEF Views
  <2> QED BY <2>1, SeqLen
<1>2. /\ IsSeq(H) /\ Len(H) = N + 1 /\ DOMAIN H = 1 .. N + 1 /\ H[N + 1] = v
      /\ \A i \in 1 .. N : H[i] = G[i]
  BY <1>1 DEF Grown
<1>3. \A i \in DOMAIN G : HandlersOf(H, i) = HandlersOf(G, i) /\ Upto(H, i) = Upto(G, i)
  <2> TAKE i \in DOMAIN G
  <2>1. H[i] = G[i]
    BY <1>1, <1>2
  <2> QED BY <2>1 DEF HandlersOf, Pt, Upto, Rest
<1>4. Upto(G, N) \in Nat
  BY <1>1, ViewFacts
<1>5. Upto(H, N + 1) = Upto(G, N) /\ DOMAIN HandlersOf(H, N + 1) = {}
  BY <1>2, <1>4 DEF Upto
<1>6. /\ Over(handlers, HandlerType) /\ G[1].below = 0
      /\ \A i \in DOMAIN G : i < N => G[i + 1].below = Upto(G, i)
      /\ \A i, j \in DOMAIN G : i < j => Upto(G, i) <= G[j].below
      /\ \A i \in DOMAIN G : \A k \in DOMAIN HandlersOf(G, i) :
            handlers[G[i].below + k] = Handler(runs, G, i, k)
      /\ \A k \in 1 .. Upto(G, N) : \E i \in DOMAIN G : k - G[i].below \in DOMAIN HandlersOf(G, i)
  BY DEF HandlersKept
<1>7. ASSUME NEW i \in DOMAIN H, i < N + 1
      PROVE  H[i + 1].below = Upto(H, i)
  <2>1. CASE i = N
    BY <1>1, <1>2, <1>3, <2>1
  <2>2. CASE i # N
    <3>1. i \in DOMAIN G /\ i + 1 \in DOMAIN G /\ i < N
      BY <1>1, <1>2, <1>7, <2>2
    <3> QED BY <1>1, <1>2, <1>3, <1>6, <3>1
  <2> QED BY <2>1, <2>2
<1>8. ASSUME NEW i \in DOMAIN H, NEW j \in DOMAIN H, i < j
      PROVE  Upto(H, i) <= H[j].below
  <2>1. i \in DOMAIN G /\ i <= N /\ Upto(H, i) = Upto(G, i)
    BY <1>1, <1>2, <1>3, <1>8
  <2>2. CASE j \in DOMAIN G
    <3>1. H[j].below = G[j].below
      BY <1>1, <1>2, <2>2
    <3> QED BY <1>6, <1>8, <2>1, <2>2, <3>1
  <2>3. CASE j \notin DOMAIN G
    <3>1. H[j].below = Upto(G, N)
      BY <1>1, <1>2, <2>3
    <3>2. CASE i = N
      BY <1>4, <2>1, <3>1, <3>2
    <3>3. CASE i # N
      <4>1. Upto(G, i) <= G[N].below
        BY <1>1, <1>6, <2>1, <3>3
      <4>2. /\ G[N].below \in Nat /\ Len(HandlersOf(G, N)) \in Nat /\ Upto(G, i) \in Nat
            /\ Upto(G, N) = G[N].below + Len(HandlersOf(G, N))
        BY <1>1, <2>1, ViewFacts DEF Upto
      <4> QED BY <2>1, <3>1, <4>1, <4>2
    <3> QED BY <3>2, <3>3
  <2> QED BY <2>2, <2>3
<1>9. ASSUME NEW i \in DOMAIN H, NEW k \in DOMAIN HandlersOf(H, i)
      PROVE  handlers[H[i].below + k] = Handler(news, H, i, k)
  <2>1. i \in DOMAIN G
    BY <1>1, <1>2, <1>5, <1>9
  <2>2. H[i] = G[i] /\ HandlersOf(H, i) = HandlersOf(G, i) /\ news[G[i].run] = runs[G[i].run]
    BY <1>1, <1>2, <1>3, <2>1
  <2>3. Handler(news, H, i, k) = Handler(runs, G, i, k)
    BY <2>2 DEF Handler
  <2> QED BY <1>6, <1>9, <2>1, <2>2, <2>3
<1>10. ASSUME NEW k \in 1 .. Upto(H, N + 1)
       PROVE  \E i \in DOMAIN H : k - H[i].below \in DOMAIN HandlersOf(H, i)
  <2>1. PICK i \in DOMAIN G : k - G[i].below \in DOMAIN HandlersOf(G, i)
    BY <1>5, <1>6
  <2>2. i \in DOMAIN H /\ H[i] = G[i] /\ HandlersOf(H, i) = HandlersOf(G, i)
    BY <1>1, <1>2, <1>3, <2>1
  <2> QED BY <2>1, <2>2
<1>11. Upto(H, N + 1) + 1 .. Len(handlers) = {}
  BY <1>4, <1>5
<1>12. H[1].below = 0
  BY <1>1, <1>2, <1>6
<1>13. Upto(H, Len(H)) = Len(handlers) /\ Upto(H, Len(H)) <= Len(handlers)
  BY <1>2, <1>4, <1>5
<1>14. HandlersKept(handlers, news, H)
  BY <1>2, <1>6, <1>7, <1>8, <1>9, <1>10, <1>11, <1>12, <1>13 DEF HandlersKept
<1> QED BY <1>13, <1>14

\* The parts of the stack when a frame is pushed.
LEMMA EnteredLinked ==
    ASSUME SoundCode, NEW G, Views(G), NEW runs, Linked(runs, G),
           \A i \in DOMAIN G : G[i].run \in DOMAIN runs,
           NEW news, \A j \in DOMAIN runs : news[j] = runs[j],
           NEW v, v \in View, NEW H, Grown(G, v, H),
           Rest(G, Len(G)) = v.slots - (IF v.run = G[Len(G)].run THEN 0 ELSE Offset(news[v.run])),
           Rest(G, Len(G)) <= v.slots,
           HandlersOf(G, Len(G)) # <<>>
               => G[Len(G)].slots + Last(HandlersOf(G, Len(G))).height - 1 < v.slots
    PROVE  Linked(news, H)
<1> DEFINE N == Len(G)
<1>1. IsSeq(G) /\ N \in Nat \ {0} /\ DOMAIN G = 1 .. N /\ N \in DOMAIN G /\ 1 \in DOMAIN G
  <2>1. IsSeq(G) /\ G # <<>>
    BY DEF Views
  <2> QED BY <2>1, SeqLen
<1>2. /\ IsSeq(H) /\ Len(H) = N + 1 /\ DOMAIN H = 1 .. N + 1 /\ H[N + 1] = v
      /\ \A i \in 1 .. N : H[i] = G[i]
  BY <1>1 DEF Grown
<1>3. \A i \in DOMAIN G : HandlersOf(H, i) = HandlersOf(G, i) /\ Rest(H, i) = Rest(G, i)
  <2> TAKE i \in DOMAIN G
  <2>1. H[i] = G[i]
    BY <1>1, <1>2
  <2> QED BY <2>1 DEF HandlersOf, Pt, Upto, Rest
<1>4. \A i \in DOMAIN G : G[i].slots \in Int
  BY ViewFacts
<1>5. G[N].slots <= v.slots /\ v.slots \in Int
  <2>1. Pt(G, N).height \in Nat \ {0} /\ Rest(G, N) = G[N].slots + Pt(G, N).height - 1
    BY <1>1, ViewFacts DEF Points, Rest
  <2>2. v.slots \in Int
    BY DEF View
  <2> QED BY <1>1, <1>4, <2>1, <2>2
<1>6. ASSUME NEW i \in DOMAIN H, NEW j \in DOMAIN H, i < j
      PROVE  H[i].slots <= H[j].slots
  <2>1. i \in DOMAIN G /\ H[i] = G[i]
    BY <1>1, <1>2, <1>6
  <2>2. CASE j \in DOMAIN G
    <3>1. H[j] = G[j]
      BY <1>1, <1>2, <2>2
    <3> QED BY <1>6, <2>1, <2>2, <3>1 DEF Linked
  <2>3. CASE j \notin DOMAIN G
    <3>1. H[j] = v
      BY <1>1, <1>2, <2>3
    <3>2. G[i].slots <= G[N].slots
      <4>1. i = N \/ i < N
        BY <1>1, <2>1
      <4> QED BY <1>1, <1>4, <2>1, <4>1 DEF Linked
    <3> QED BY <1>1, <1>4, <1>5, <2>1, <3>1, <3>2
  <2> QED BY <2>2, <2>3
<1>7. ASSUME NEW i \in DOMAIN H, i < N + 1
      PROVE  /\ Rest(H, i) = H[i + 1].slots - (IF H[i + 1].run = H[i].run THEN 0
                                               ELSE Offset(news[H[i + 1].run]))
             /\ HandlersOf(H, i) # <<>> => H[i].slots + Last(HandlersOf(H, i)).height - 1 < H[i + 1].slots
  <2>1. CASE i = N
    BY <1>1, <1>2, <1>3, <2>1
  <2>2. CASE i # N
    <3>1. i \in DOMAIN G /\ i + 1 \in DOMAIN G /\ i < N
      BY <1>1, <1>2, <1>7, <2>2
    <3>2. H[i] = G[i] /\ H[i + 1] = G[i + 1] /\ news[G[i + 1].run] = runs[G[i + 1].run]
      BY <1>1, <1>2, <3>1
    <3>3. /\ Rest(G, i) = G[i + 1].slots - (IF G[i + 1].run = G[i].run THEN 0
                                            ELSE Offset(runs[G[i + 1].run]))
          /\ HandlersOf(G, i) # <<>> => G[i].slots + Last(HandlersOf(G, i)).height - 1 < G[i + 1].slots
      BY <3>1 DEF Linked
    <3> QED BY <1>3, <3>1, <3>2, <3>3
  <2> QED BY <2>1, <2>2
<1> QED BY <1>2, <1>6, <1>7 DEF Linked

\* A call keeps the invariant when the new frame is above what the handlers of
\* the last one restore.
LEMMA EnteredRunning ==
    ASSUME SoundCode, NEW m, NEW n, NEW G, NEW s, Poised(m, G), Entered(m, n, Rest(G, Len(G)), s),
           HandlersOf(G, Len(G)) # <<>> => G[Len(G)].slots + Last(HandlersOf(G, Len(G))).height - 1 < s
    PROVE  \E H : Running(n, H)
<1> DEFINE N == Len(G)
           t == Rest(G, N)
<1>1. /\ Struct(m, G) /\ Len(m.frames) = N /\ Last(m.frames).ip = Last(G).ip
      /\ Len(m.handlers) = Upto(G, N)
  BY DEF Poised
<1>2. /\ Views(G) /\ Over(m.frames, FrameType) /\ N \in Nat \ {0} /\ DOMAIN G = 1 .. N /\ N \in DOMAIN G
      /\ IsSeq(m.frames) /\ DOMAIN m.frames = 1 .. N
      /\ IsSeq(m.runs) /\ m.runs # <<>> /\ Len(m.runs) \in Nat \ {0}
      /\ Len(m.handlers) \in Nat /\ IsSeq(G)
  BY <1>1, StructFacts DEF Over, Views
<1>3. /\ HeapOK(m.heap) /\ Framed(m.frames, m.heap, G) /\ RunsFit(m.runs, G) /\ Linked(m.runs, G)
      /\ HandlersKept(m.handlers, m.runs, G) /\ OpenKept(m.open, m.heap, m.frames, G)
      /\ Body(m.frames, m.handlers, m.runs, m.heap, G)
  BY <1>1 DEF Struct, Body
<1>4. /\ Fields(n) /\ HeapGrows(m.heap, n.heap) /\ n.handlers = m.handlers /\ n.open = m.open
      /\ s \in Int
      /\ \/ n.runs = m.runs /\ s = t
         \/ \E r : /\ n.runs = Append(m.runs, r) /\ RunOK(r) /\ r.kind # "script"
                   /\ r.base = N /\ s = t + Offset(r)
  BY <1>1 DEF Entered
<1>5. PICK c \in DOMAIN n.heap :
         /\ n.heap[c].k = "closure" /\ n.top = s + Fns[n.heap[c].fn].arity
         /\ n.frames = Append(m.frames, [closure |-> c, ip |-> 1, slots |-> s])
  BY DEF Entered
<1> DEFINE f == [closure |-> c, ip |-> 1, slots |-> s]
           fn == n.heap[c].fn
           v == [fn |-> fn, ip |-> 1, slots |-> s, run |-> Len(n.runs), below |-> Upto(G, N)]
           H == Append(G, v)
<1>6. HeapOK(n.heap) /\ Body(m.frames, m.handlers, m.runs, n.heap, G) /\ OpenKept(m.open, n.heap, m.frames, G)
  BY <1>3, <1>4, GrowsKeeps, GrownStruct
<1>7. fn \in DOMAIN Fns /\ c \in Nat
  <2>1. Object(n.heap[c]) /\ IsSeq(n.heap)
    BY <1>6 DEF HeapOK
  <2>2. Len(n.heap) \in Nat /\ DOMAIN n.heap = 1 .. Len(n.heap)
    BY <2>1, SeqLen
  <2> QED BY <1>5, <2>1, <2>2 DEF Object
<1>8. /\ Fns[fn].arity \in Nat /\ 1 \in DOMAIN PointAt[fn] /\ Agrees(Entry(Fns[fn]), PointAt[fn][1])
  BY <1>7 DEF SoundCode, Shaped
<1>9. /\ PointAt[fn][1].height = 1 + Fns[fn].arity /\ PointAt[fn][1].handlers = <<>>
  BY <1>8 DEF Agrees, Entry, Point
<1>10. Len(n.runs) \in Nat \ {0}
  BY <1>2, <1>4, SeqAppend
<1>11. Upto(G, N) \in Nat /\ t \in Int /\ G[N].slots \in Int
  BY <1>2, ViewFacts
<1>12. /\ v \in View /\ v.fn = fn /\ v.ip = 1 /\ v.slots = s /\ v.run = Len(n.runs)
       /\ v.below = Upto(G, N)
  BY <1>4, <1>7, <1>10, <1>11 DEF View
<1>13. f \in FrameType /\ f.closure = c /\ f.slots = s /\ f.ip = 1
  BY <1>4, <1>7 DEF FrameType
<1> HIDE DEF v, f, fn
<1>14. Grown(G, v, H)
  BY <1>2, SeqAppend DEF Grown
<1> HIDE DEF H
<1>15. /\ IsSeq(H) /\ Len(H) = N + 1 /\ DOMAIN H = 1 .. N + 1 /\ H[N + 1] = v
       /\ \A i \in 1 .. N : H[i] = G[i]
  BY <1>14 DEF Grown
<1>16. Views(H)
  <2>1. H # <<>>
    BY <1>2, <1>15, SeqLen
  <2>2. ASSUME NEW i \in DOMAIN H
        PROVE  H[i] \in View /\ H[i].fn \in DOMAIN Fns /\ H[i].ip \in DOMAIN PointAt[H[i].fn]
    <3>1. i = N + 1 \/ i \in DOMAIN G
      BY <1>2, <1>15
    <3>2. CASE i = N + 1
      BY <1>7, <1>8, <1>12, <1>15, <3>2
    <3>3. CASE i \in DOMAIN G
      BY <1>2, <1>15, <3>3 DEF Views
    <3> QED BY <3>1, <3>2, <3>3
  <2> QED BY <1>15, <2>1, <2>2 DEF Views
<1>17. Pt(H, N + 1) = PointAt[fn][1]
  BY <1>12, <1>15 DEF Pt
<1>18. HandlersOf(H, N + 1) = <<>> /\ Rest(H, N + 1) = n.top
  <2>1. Rest(H, N + 1) = s + (1 + Fns[fn].arity) - 1
    BY <1>9, <1>12, <1>15, <1>17 DEF Rest
  <2>2. n.top = s + Fns[fn].arity
    BY <1>5 DEF fn
  <2> QED BY <1>4, <1>8, <1>9, <1>17, <2>1, <2>2 DEF HandlersOf
<1>19. RunsFit(n.runs, H) /\ (\A j \in DOMAIN m.runs : n.runs[j] = m.runs[j])
       /\ (v.run = G[N].run <=> n.runs = m.runs)
  <2>1. PICK a : a = m.runs
    OBVIOUS
  <2>2. PICK b : b = n.runs
    OBVIOUS
  <2>3. b = a \/ \E r : /\ b = Append(a, r) /\ RunOK(r) /\ r.kind # "script"
                        /\ r.base = Len(G)
    BY <1>4, <2>1, <2>2
  <2>4. RunsFit(a, G)
    BY <1>3, <2>1
  <2>5. v.run = Len(b)
    BY <1>12, <2>2
  <2>6. RunsFit(b, H) /\ (\A j \in DOMAIN a : b[j] = a[j]) /\ (v.run = G[Len(G)].run <=> b = a)
    <3> HIDE DEF N, t
    <3> QED BY <1>2, <1>12, <1>14, <2>3, <2>4, <2>5, EnteredRuns
  <2> QED BY <2>1, <2>2, <2>6
<1>20. \A i \in DOMAIN G : G[i].run \in DOMAIN m.runs
  BY <1>3 DEF RunsFit
<1>21. HandlersKept(n.handlers, n.runs, H) /\ Upto(H, Len(H)) = Len(n.handlers)
  <2>1. PICK a, b, hs : a = m.runs /\ b = n.runs /\ hs = m.handlers
    OBVIOUS
  <2>2. HandlersKept(hs, a, G) /\ Len(hs) = Upto(G, Len(G)) /\ (\A i \in DOMAIN G : G[i].run \in DOMAIN a)
        /\ (\A j \in DOMAIN a : b[j] = a[j])
    BY <1>1, <1>3, <1>19, <1>20, <2>1
  <2>3. v.below = Upto(G, Len(G)) /\ HandlersOf(H, Len(G) + 1) = <<>>
    BY <1>12, <1>18
  <2>4. HandlersKept(hs, b, H) /\ Upto(H, Len(H)) = Len(hs)
    <3> HIDE DEF N, t
    <3> QED BY <1>2, <1>12, <1>14, <1>16, <2>2, <2>3, EnteredHandlers
  <2> QED BY <1>4, <2>1, <2>4
<1>22. Linked(n.runs, H)
  <2>1. /\ t = v.slots - (IF v.run = G[N].run THEN 0 ELSE Offset(n.runs[v.run])) /\ t <= v.slots
    <3>1. CASE n.runs = m.runs
      <4>1. s = t
        <5>1. \A r : Append(m.runs, r) # m.runs
          <6> TAKE r
          <6>1. Len(Append(m.runs, r)) = Len(m.runs) + 1
            BY <1>2, SeqAppend
          <6>2. Len(m.runs) + 1 # Len(m.runs)
            <7>1. \A k \in Nat : k + 1 # k
              OBVIOUS
            <7> QED BY <1>2, <7>1
          <6> QED BY <6>1, <6>2
        <5> QED BY <1>4, <3>1, <5>1
      <4> HIDE DEF t
      <4> QED BY <1>11, <1>12, <1>19, <3>1, <4>1
    <3>2. CASE n.runs # m.runs
      <4>1. PICK r : n.runs = Append(m.runs, r) /\ RunOK(r) /\ s = t + Offset(r)
        BY <1>4, <3>2
      <4>2. v.run = Len(m.runs) + 1 /\ n.runs[v.run] = r
        BY <1>2, <1>12, <4>1, SeqAppend
      <4>3. Offset(r) \in Nat
        BY <4>1, OffsetNat
      <4> HIDE DEF t
      <4> QED BY <1>11, <1>12, <1>19, <3>2, <4>1, <4>2, <4>3
    <3> QED BY <3>1, <3>2
  <2>2. PICK a, b, u : a = m.runs /\ b = n.runs /\ u = v.slots
    OBVIOUS
  <2>3. /\ Linked(a, G) /\ (\A j \in DOMAIN a : b[j] = a[j]) /\ v \in View
        /\ \A i \in DOMAIN G : G[i].run \in DOMAIN a
    BY <1>3, <1>12, <1>19, <2>2 DEF RunsFit
  <2>4. /\ t = v.slots - (IF v.run = G[N].run THEN 0 ELSE Offset(b[v.run])) /\ t <= v.slots
        /\ HandlersOf(G, N) # <<>> => G[N].slots + Last(HandlersOf(G, N)).height - 1 < v.slots
    BY <1>12, <1>20, <2>1, <2>2
  <2>5. Linked(b, H)
    BY <1>2, <1>14, <2>3, <2>4, EnteredLinked
  <2> QED BY <2>2, <2>5
<1>23. /\ IsSeq(n.frames) /\ Over(n.frames, FrameType) /\ Len(n.frames) = N + 1 /\ n.frames[N + 1] = f
       /\ \A i \in 1 .. N : n.frames[i] = m.frames[i]
  <2>1. n.frames = Append(m.frames, f)
    BY <1>5 DEF f
  <2>2. Over(n.frames, FrameType)
    BY <1>2, <1>13, <2>1, OverAppend
  <2>3. /\ IsSeq(n.frames) /\ Len(n.frames) = N + 1 /\ n.frames[N + 1] = f
        /\ \A i \in 1 .. N : n.frames[i] = m.frames[i]
    BY <1>1, <1>2, <2>1, SeqAppend
  <2> QED BY <2>2, <2>3
<1>24. Framed(n.frames, n.heap, H)
  <2>1. Framed(m.frames, n.heap, G)
    BY <1>6 DEF Body
  <2>2. ASSUME NEW i \in DOMAIN H
        PROVE  /\ n.frames[i].slots = H[i].slots
               /\ n.frames[i].closure \in DOMAIN n.heap
               /\ n.heap[n.frames[i].closure].k = "closure" /\ n.heap[n.frames[i].closure].fn = H[i].fn
               /\ i < Len(H) => n.frames[i].ip = H[i].ip
    <3>1. CASE i = N + 1
      <4>1. n.frames[i] = f /\ H[i] = v /\ ~(i < Len(H))
        BY <1>2, <1>15, <1>23, <3>1
      <4>2. n.heap[c].k = "closure" /\ n.heap[c].fn = fn
        BY <1>5 DEF fn
      <4> QED BY <1>5, <1>12, <1>13, <4>1, <4>2
    <3>2. CASE i # N + 1
      <4>1. i \in 1 .. N /\ i \in DOMAIN G /\ n.frames[i] = m.frames[i] /\ H[i] = G[i]
        BY <1>2, <1>15, <1>23, <3>2
      <4>2. /\ m.frames[i].slots = G[i].slots
            /\ m.frames[i].closure \in DOMAIN n.heap
            /\ n.heap[m.frames[i].closure].k = "closure" /\ n.heap[m.frames[i].closure].fn = G[i].fn
            /\ i < N => m.frames[i].ip = G[i].ip
        BY <2>1, <4>1 DEF Framed
      <4>3. m.frames[N].ip = G[N].ip
        BY <1>1 DEF Last
      <4>4. m.frames[i].ip = G[i].ip
        BY <1>2, <4>1, <4>2, <4>3
      <4> QED BY <4>1, <4>2, <4>4
    <3> QED BY <3>1, <3>2
  <2> QED BY <1>2, <1>15, <1>23, <2>2 DEF Framed
<1>25. OpenKept(n.open, n.heap, n.frames, H)
  <2>1. ASSUME NEW x, Owned(x, m.frames, G)
        PROVE  Owned(x, n.frames, H)
    <3>1. PICK i \in DOMAIN G : x - G[i].slots \in Pt(G, i).open
      BY <1>1, <1>2, <2>1 DEF Owned
    <3>2. i \in DOMAIN H /\ H[i] = G[i]
      BY <1>2, <1>15, <3>1
    <3>3. Pt(H, i) = Pt(G, i)
      BY <3>2 DEF Pt
    <3> QED BY <3>1, <3>2, <3>3 DEF Owned
  <2> QED BY <1>4, <1>6, <2>1 DEF OpenKept
<1>26. Struct(n, H)
  BY <1>4, <1>6, <1>16, <1>19, <1>21, <1>22, <1>24, <1>25 DEF Struct, Body
<1>27. Last(n.frames).ip = Last(H).ip
  BY <1>12, <1>13, <1>15, <1>23 DEF Last
<1>28. Running(n, H)
  BY <1>15, <1>18, <1>21, <1>23, <1>26, <1>27 DEF Running, Poised
<1> QED BY <1>28

\* m has become n by a call that leaves t values on the stack, or without one.
Enters(m, n, t, s) == Settles(m, n, t) \/ Entered(m, n, t, s)
Goes(m, n, t) == Settles(m, n, t) \/ \E s : Entered(m, n, t, s)

\* A call in the same call of vm_run whose frame begins at s.
Called(m, n, s) ==
    \/ Calm(m, n) /\ n.status # "running"
    \/ Entered(m, n, s, s) /\ n.runs = m.runs

\* After something calm.
LEMMA EnteredTrans ==
    ASSUME NEW m, NEW k, NEW n, NEW t, NEW s, Ready(m), Calm(m, k), Entered(k, n, t, s)
    PROVE  Entered(m, n, t, s)
<1>1. HeapGrows(m.heap, n.heap)
  BY GrowsTrans DEF Entered, Calm, Ready
<1>2. k.frames = m.frames /\ k.handlers = m.handlers /\ k.runs = m.runs /\ k.open = m.open
  BY DEF Calm
<1> QED BY <1>1, <1>2 DEF Entered

\* A calm step, and then a call or a result.
LEMMA GoesTrans ==
    ASSUME NEW m, NEW k, NEW n, NEW t, Ready(m), Calm(m, k), Goes(k, n, t)
    PROVE  Goes(m, n, t)
<1>1. CASE Settles(k, n, t)
  <2>1. Calm(m, n)
    BY <1>1, CalmTrans DEF Settles
  <2> QED BY <1>1, <2>1 DEF Goes, Settles
<1>2. CASE \E s : Entered(k, n, t, s)
  BY <1>2, EnteredTrans DEF Goes
<1> QED BY <1>1, <1>2 DEF Goes

\* A result.
LEMMA SettlesGoes ==
    ASSUME NEW m, NEW n, NEW t, Settles(m, n, t)
    PROVE  Goes(m, n, t)
BY DEF Goes

\* A call in the same vm_run.
LEMMA CalledGoes ==
    ASSUME NEW m, NEW n, NEW t, Called(m, n, t)
    PROVE  Goes(m, n, t)
BY DEF Called, Goes, Settles

\* A calm step, and then a call in the same vm_run.
LEMMA CalledTrans ==
    ASSUME NEW m, NEW k, NEW n, NEW t, Ready(m), Calm(m, k), Called(k, n, t)
    PROVE  Called(m, n, t)
<1>1. CASE Calm(k, n) /\ n.status # "running"
  BY <1>1, CalmTrans DEF Called
<1>2. CASE Entered(k, n, t, t) /\ n.runs = k.runs
  <2>1. Entered(m, n, t, t)
    BY <1>2, EnteredTrans
  <2> QED BY <1>2, <2>1 DEF Called, Calm
<1> QED BY <1>1, <1>2 DEF Called

\* The frame of a closure.
LEMMA CallCalled ==
    ASSUME code = Fns, NEW m, Ready(m), m.status = "running", m.top \in Int, NEW f, NEW argc \in Int
    PROVE  Called(m, CallClosure(m, f, argc), m.top - argc)
<1> DEFINE n == CallClosure(m, f, argc)
           s == m.top - argc
           frame == [closure |-> f[2], ip |-> 1, slots |-> s]
           frames == Append(m.frames, frame)
           entered == [m EXCEPT !.frames = frames]
           fits == IsObj(m.heap, f, "closure") /\ argc = Fns[m.heap[f[2]].fn].arity
<1>1. n = LeftOut(m) \/ n = RuntimeError(m) \/ (n = entered /\ fits)
  <2>1. CASE ~IsObj(m.heap, f, "closure")
    BY <2>1 DEF CallClosure
  <2>2. CASE IsObj(m.heap, f, "closure")
    BY <2>2 DEF CallClosure, ObjOf
  <2> QED BY <2>1, <2>2
<1>2. CASE n = LeftOut(m) \/ n = RuntimeError(m)
  <2>1. Calm(m, n) /\ n.status # "running"
    BY <1>2, ThrowCalm
  <2> QED BY <2>1 DEF Called
<1>3. CASE n = entered /\ fits
  <2>1. HeapOK(m.heap) /\ HeapGrows(m.heap, m.heap)
    BY GrowsRefl DEF Ready
  <2> HIDE DEF frames
  <2>2. /\ n.frames = frames /\ n.heap = m.heap /\ n.handlers = m.handlers /\ n.open = m.open
        /\ n.runs = m.runs /\ n.top = m.top /\ n.status = "running" /\ Fields(n)
    BY <1>3 DEF Ready, Fields
  <2>3. f[2] \in DOMAIN m.heap /\ m.heap[f[2]].k = "closure" /\ argc = Fns[m.heap[f[2]].fn].arity
    BY <1>3 DEF IsObj
  <2>4. m.top = s + Fns[m.heap[f[2]].fn].arity /\ s \in Int
    BY <2>3
  <2> HIDE DEF n, s, fits, entered
  <2>5. Entered(m, n, s, s)
    <3>1. \E c \in DOMAIN n.heap :
             /\ n.heap[c].k = "closure" /\ n.top = s + Fns[n.heap[c].fn].arity
             /\ n.frames = Append(m.frames, [closure |-> c, ip |-> 1, slots |-> s])
      BY <2>2, <2>3, <2>4 DEF frames
    <3> QED BY <2>1, <2>2, <2>4, <3>1 DEF Entered
  <2>6. Called(m, n, s)
    BY <2>2, <2>5 DEF Called
  <2> QED BY <2>6 DEF n, s
<1> QED BY <1>1, <1>2, <1>3

\* A call of vm_run.
LEMMA NestedEnters ==
    ASSUME NEW m, Ready(m), NEW called, NEW s, s \in Int, Called(m, called, s),
           Len(m.frames) \in Nat, NEW r, RunOK(r), r.kind # "script"
    PROVE  Enters(m, Nested(called, r, Len(m.frames)), s - Offset(r), s)
<1>1. CASE called.status # "running"
  <2>1. Nested(called, r, Len(m.frames)) = called
    BY <1>1 DEF Nested
  <2>2. Calm(m, called)
    BY <1>1 DEF Called, Entered
  <2> QED BY <1>1, <2>1, <2>2 DEF Enters, Settles
<1>2. CASE called.status = "running"
  <2> DEFINE r2 == [r EXCEPT !.base = Len(m.frames)]
             runs == Append(m.runs, r2)
             n == [called EXCEPT !.runs = runs]
  <2>1. Entered(m, called, s, s) /\ called.runs = m.runs
    BY <1>2 DEF Called
  <2>2. Nested(called, r, Len(m.frames)) = n
    BY <1>2, <2>1 DEF Nested
  <2>3. RunOK(r2) /\ r2.kind # "script" /\ r2.base = Len(m.frames) /\ Offset(r2) = Offset(r)
    BY DEF RunOK, Offset
  <2>4. Offset(r) \in Nat
    BY OffsetNat
  <2> HIDE DEF r2, runs
  <2>5. /\ n.frames = called.frames /\ n.heap = called.heap /\ n.handlers = called.handlers
        /\ n.open = called.open /\ n.runs = runs /\ n.top = called.top
        /\ n.status = called.status /\ Fields(n)
    BY <2>1 DEF Entered, Fields
  <2> HIDE DEF n
  <2>6. \E x : /\ n.runs = Append(m.runs, x) /\ RunOK(x) /\ x.kind # "script"
               /\ x.base = Len(m.frames) /\ s = (s - Offset(r)) + Offset(x)
    BY <2>3, <2>4, <2>5 DEF runs
  <2>7. Entered(m, n, s - Offset(r), s)
    BY <2>1, <2>5, <2>6 DEF Entered
  <2> QED BY <2>2, <2>7 DEF Enters
<1> QED BY <1>1, <1>2

\* Calls from C code.
LEMMA InvokeGoes ==
    ASSUME code = Fns, NEW m, Ready(m), m.status = "running", m.top \in Int, Len(m.frames) \in Nat,
           NEW r, RunOK(r), r.kind # "script", NEW f, NEW self, NEW args, IsSeq(args)
    PROVE  /\ Enters(m, Invoke(m, r, f, self, args), m.top + 1 - Offset(r), m.top + 1)
           /\ Goes(m, Invoke(m, r, f, self, args), m.top + 1 - Offset(r))
<1> DEFINE a == Push(m, self)
           b == PushAll(a, args)
           k == Len(args)
<1>1. k \in Nat
  BY SeqLen
<1>2. Quiet(m, a, m.top + 1)
  BY PushQuiet
<1>3. Ready(a) /\ a.top = m.top + 1
  BY <1>2, CalmReady DEF Quiet
<1> HIDE DEF a
<1>4. Quiet(a, b, a.top + k)
  BY <1>3, PushAllQuiet
<1>5. Quiet(m, b, m.top + 1 + k)
  BY <1>2, <1>3, <1>4, QuietTrans
<1>6. Ready(b) /\ b.status = "running" /\ b.top = m.top + 1 + k /\ Calm(m, b)
  BY <1>5, CalmReady DEF Quiet
<1> HIDE DEF b, k
<1>7. Called(b, CallClosure(b, f, k), b.top - k)
  BY <1>1, <1>6, CallCalled
<1>8. b.top - k = m.top + 1
  BY <1>1, <1>6
<1>9. Called(m, CallClosure(b, f, k), m.top + 1)
  BY <1>6, <1>7, <1>8, CalledTrans
<1>10. Enters(m, Nested(CallClosure(b, f, k), r, Len(m.frames)), m.top + 1 - Offset(r), m.top + 1)
  <2>1. PICK c, s : c = CallClosure(b, f, k) /\ s = m.top + 1
    OBVIOUS
  <2>2. Called(m, c, s) /\ s \in Int
    BY <1>9, <2>1
  <2>3. Enters(m, Nested(c, r, Len(m.frames)), s - Offset(r), s)
    BY <2>2, NestedEnters
  <2>4. s - Offset(r) = m.top + 1 - Offset(r)
    <3>1. Offset(r) \in Nat /\ s = m.top + 1
      BY <2>1, OffsetNat
    <3> QED BY <2>2, <3>1
  <2> QED BY <2>1, <2>3, <2>4
<1>11. Invoke(m, r, f, self, args) = Nested(CallClosure(b, f, k), r, Len(m.frames))
  BY DEF Invoke, a, b, k
<1> QED BY <1>10, <1>11 DEF Enters, Goes

\* The runs of generators and hooks.
LEMMA PlainRun ==
    ASSUME NEW kind \in Kinds
    PROVE  /\ RunOK(Plain(kind)) /\ Plain(kind).kind = kind /\ Plain(kind).argc = 0
           /\ \A i : /\ RunOK([Plain(kind) EXCEPT !.i = i])
                     /\ [Plain(kind) EXCEPT !.i = i].kind = kind
BY DEF RunOK, Plain, Run

\* A call of a generator.
LEMMA GeneratorGoes ==
    ASSUME code = Fns, NEW m, Ready(m), m.status = "running", m.top \in Int, Len(m.frames) \in Nat,
           NEW f, NEW argc \in Int
    PROVE  Goes(m, CallGenerator(m, f, argc), m.top - argc)
<1> DEFINE a == Alloc(m, ListObj(<<>>))
           called == CallClosure(a, f, argc)
           r == [Plain("gen") EXCEPT !.i = m.collector]
           x == Len(m.heap) + 1
           held == [called EXCEPT !.collector = x]
           s == m.top - argc
<1>1. Object(ListObj(<<>>))
  BY SeqPair, NewObjects
<1>2. Quiet(m, a, m.top)
  BY <1>1, AllocQuiet
<1>3. Ready(a) /\ a.top = m.top /\ a.status = "running" /\ Calm(m, a)
  BY <1>2, CalmReady DEF Quiet
<1> HIDE DEF a
<1>4. Called(a, called, a.top - argc)
  BY <1>3, CallCalled
<1>5. Called(m, called, s)
  BY <1>3, <1>4, CalledTrans
<1>6. RunOK(r) /\ r.kind = "gen" /\ Offset(r) = 0
  <2>1. "gen" \in Kinds
    BY DEF Kinds
  <2>2. RunOK(r) /\ r.kind = "gen"
    BY <2>1, PlainRun
  <2> HIDE DEF r
  <2> QED BY <2>2 DEF Offset
<1>7. CallGenerator(m, f, argc) = IF called.status # "running" THEN called
                                  ELSE Nested(held, r, Len(m.frames))
  BY DEF CallGenerator, a
<1> HIDE DEF called, r, x
<1>8. CASE called.status # "running"
  <2>1. Calm(m, called)
    BY <1>5, <1>8 DEF Called, Entered
  <2> QED BY <1>7, <1>8, <2>1 DEF Goes, Settles
<1>9. CASE called.status = "running"
  <2>1. Entered(m, called, s, s) /\ called.runs = m.runs
    BY <1>5, <1>9 DEF Called
  <2>2. /\ held.frames = called.frames /\ held.heap = called.heap /\ held.handlers = called.handlers
        /\ held.open = called.open /\ held.runs = called.runs /\ held.top = called.top
        /\ held.status = called.status /\ Fields(held)
    BY <2>1 DEF Entered, Fields
  <2> HIDE DEF held
  <2>3. Entered(m, held, s, s)
    BY <2>1, <2>2 DEF Entered
  <2>4. Called(m, held, s)
    BY <2>1, <2>2, <2>3 DEF Called
  <2>5. Enters(m, Nested(held, r, Len(m.frames)), s - Offset(r), s)
    BY <1>6, <2>4, NestedEnters
  <2>6. Goes(m, Nested(held, r, Len(m.frames)), s - Offset(r))
    BY <2>5 DEF Enters, Goes
  <2> QED BY <1>6, <1>7, <1>9, <2>6
<1> QED BY <1>8, <1>9

\* The next call of map, filter or reduce, or its end.
Folds == {"map", "filter", "reduce"}
\* It is a call, or the result in place of the arguments and the function.
LEMMA FoldStepGoes ==
    ASSUME code = Fns, NEW m, Ready(m), m.status = "running", m.top \in Int, Len(m.frames) \in Nat,
           NEW r, RunOK(r), r.kind \in Folds
    PROVE  /\ Goes(m, FoldStep(m, r), m.top - Offset(r) + 1)
           /\ Enters(m, FoldStep(m, r), m.top - Offset(r) + 1, m.top + 1)
<1> DEFINE n == FoldStep(m, r)
           k == Offset(r)
           item == ObjOf(m.heap, r.src).es[r.i]
           args == IF r.kind = "reduce" THEN <<r.acc, item>> ELSE <<item>>
           next == [r EXCEPT !.i = @ + 1, !.item = item]
<1>1. k \in Nat /\ k = r.argc + (IF r.kind = "reduce" THEN 1 ELSE 2)
  <2>1. r.argc \in Nat
    BY DEF RunOK
  <2> QED BY <2>1 DEF Offset, Folds
<1>2. IsSeq(args)
  BY SeqPair
<1>3. RunOK(next) /\ next.kind = r.kind /\ Offset(next) = k
  BY DEF RunOK, Offset
<1>4. n = Replace(m, k, r.acc) \/ n = Invoke(m, next, r.fn, r.fn, args) \/ n = LeftOut(m)
  <2>1. Replace(m, r.argc + (IF r.kind = "reduce" THEN 1 ELSE 2), r.acc) = Replace(m, k, r.acc)
    BY <1>1
  <2> DEFINE e == Replace(m, r.argc + (IF r.kind = "reduce" THEN 1 ELSE 2), r.acc)
  <2>2. n = e \/ n = Invoke(m, next, r.fn, r.fn, args) \/ n = LeftOut(m)
    BY DEF FoldStep
  <2> QED BY <2>1, <2>2
<1> HIDE DEF n, k, args, next, item
<1>5. ASSUME n = Replace(m, k, r.acc) PROVE Settles(m, n, m.top - k + 1)
  <2>1. Quiet(m, n, m.top - k + 1)
    BY <1>5, ReplaceQuiet
  <2> QED BY <2>1, QuietSettles
<1>6. CASE n = Invoke(m, next, r.fn, r.fn, args)
  <2>1. next.kind # "script"
    BY <1>3 DEF Folds
  <2>2. /\ Goes(m, n, m.top + 1 - Offset(next))
        /\ Enters(m, n, m.top + 1 - Offset(next), m.top + 1)
    BY <1>2, <1>3, <1>6, <2>1, InvokeGoes
  <2>3. m.top + 1 - Offset(next) = m.top - k + 1
    BY <1>1, <1>3
  <2> QED BY <2>2, <2>3 DEF n, k
<1>7. ASSUME n = LeftOut(m) PROVE Settles(m, n, m.top - k + 1)
  BY <1>7, ErrorSettles
<1>8. CASE Settles(m, n, m.top - k + 1)
  BY <1>8 DEF Goes, Enters, n, k
<1> QED BY <1>4, <1>5, <1>6, <1>7, <1>8

\* The run of such a call.
FoldsAs(q, name, k) == RunOK(q) /\ q.kind = name /\ Offset(q) = k
\* It leaves the stack below the arguments and the function.
LEMMA FoldRun ==
    ASSUME NEW name \in Folds, NEW argc \in Nat, NEW acc, NEW src, NEW fn, NEW i,
           NEW r, r = Run(name, argc, acc, src, fn, i),
           NEW k, k = argc + (IF name = "reduce" THEN 1 ELSE 2)
    PROVE  /\ \A x : FoldsAs([r EXCEPT !.acc = x], name, k)
           /\ \A x, y : FoldsAs([r EXCEPT !.acc = x, !.i = y], name, k)
<1>1. RunOK(r) /\ r.kind = name /\ r.argc = argc
  BY DEF RunOK, Run, Folds, Kinds
<1>2. ASSUME NEW x
      PROVE  FoldsAs([r EXCEPT !.acc = x], name, k)
  BY <1>1 DEF RunOK, Offset, FoldsAs, Folds
<1>3. ASSUME NEW x, NEW y
      PROVE  FoldsAs([r EXCEPT !.acc = x, !.i = y], name, k)
  BY <1>1 DEF RunOK, Offset, FoldsAs, Folds
<1> QED BY <1>2, <1>3

\* map, filter and reduce.
LEMMA CallFoldGoes ==
    ASSUME code = Fns, NEW m, Ready(m), m.status = "running", m.top \in Int, Len(m.frames) \in Nat,
           NEW name \in Folds, NEW argc \in Nat
    PROVE  Goes(m, CallFold(m, name, argc), m.top - argc)
<1> DEFINE args == Args(m, argc)
           src == args[1]
           wide == PushNew(m, ListObj(<<>>))
           n == CallFold(m, name, argc)
           k == argc + (IF name = "reduce" THEN 1 ELSE 2)
<1>1. PICK r : r = Run(name, argc, VNull, src, args[2], 1)
  OBVIOUS
<1>2. \/ n = RuntimeError(m)
      \/ name # "reduce" /\ n = FoldStep(wide, [r EXCEPT !.acc = Peek(wide, 0)])
      \/ name = "reduce" /\ \E x : n = FoldStep(m, [r EXCEPT !.acc = x])
      \/ name = "reduce" /\ \E x, y : n = FoldStep(m, [r EXCEPT !.acc = x, !.i = y])
  <2>1. CASE ~IsObj(m.heap, src, "list")
    BY <2>1 DEF CallFold
  <2>2. CASE IsObj(m.heap, src, "list") /\ name # "reduce"
    BY <1>1, <2>2 DEF CallFold
  <2>3. CASE IsObj(m.heap, src, "list") /\ name = "reduce"
    <3>1. CASE argc >= 3
      <4>1. n = FoldStep(m, [r EXCEPT !.acc = args[3]])
        BY <1>1, <2>3, <3>1 DEF CallFold
      <4> HIDE DEF n, args
      <4> QED BY <2>3, <4>1
    <3>2. CASE ~(argc >= 3)
      BY <1>1, <2>3, <3>2 DEF CallFold
    <3> QED BY <3>1, <3>2
  <2> QED BY <2>1, <2>2, <2>3
<1>3. k \in Nat
  OBVIOUS
<1>4. \A x : FoldsAs([r EXCEPT !.acc = x], name, k)
  BY <1>1, FoldRun
<1>5. \A x, y : FoldsAs([r EXCEPT !.acc = x, !.i = y], name, k)
  BY <1>1, FoldRun
<1> HIDE DEF src, args
<1>6. CASE n = RuntimeError(m)
  BY <1>6, ErrorSettles, SettlesGoes
<1>7. ASSUME NEW q, FoldsAs(q, name, k), name = "reduce", n = FoldStep(m, q)
      PROVE  Goes(m, n, m.top - argc)
  <2>1. RunOK(q) /\ q.kind \in Folds /\ Offset(q) = argc + 1
    BY <1>7 DEF FoldsAs
  <2>2. Goes(m, FoldStep(m, q), m.top - Offset(q) + 1)
    BY <2>1, FoldStepGoes
  <2>3. m.top - Offset(q) + 1 = m.top - argc
    BY <2>1
  <2> QED BY <1>7, <2>2, <2>3
<1>8. CASE name # "reduce" /\ n = FoldStep(wide, [r EXCEPT !.acc = Peek(wide, 0)])
  <2>1. Quiet(m, wide, m.top + 1)
    BY SeqPair, NewObjects, PushNewQuiet
  <2>2. PICK q : n = FoldStep(wide, q) /\ FoldsAs(q, name, k)
    BY <1>4, <1>8
  <2> HIDE DEF wide, n
  <2>3. /\ Ready(wide) /\ wide.top = m.top + 1 /\ wide.status = "running" /\ Calm(m, wide)
        /\ wide.frames = m.frames
    BY <2>1, CalmReady DEF Quiet, Calm
  <2>4. RunOK(q) /\ q.kind \in Folds /\ Offset(q) = argc + 2
    BY <1>8, <2>2 DEF FoldsAs
  <2>5. wide.top \in Int
    BY <2>3
  <2>6. Goes(wide, FoldStep(wide, q), wide.top - Offset(q) + 1)
    BY <2>3, <2>4, <2>5, FoldStepGoes
  <2>7. wide.top - Offset(q) + 1 = m.top - argc
    BY <2>3, <2>4
  <2>8. Goes(m, n, m.top - argc)
    BY <2>2, <2>3, <2>6, <2>7, GoesTrans
  <2> QED BY <2>8 DEF n
<1> HIDE DEF n, wide
<1> QED BY <1>2, <1>4, <1>5, <1>6, <1>7, <1>8 DEF n

\* call_native.
LEMMA CallNativeGoes ==
    ASSUME code = Fns, NEW m, Ready(m), m.status = "running", m.top \in Int, Len(m.frames) \in Nat,
           NEW name, NEW argc \in Nat
    PROVE  Goes(m, CallNative(m, name, argc), m.top - argc)
<1> DEFINE args == Args(m, argc)
           r == Native(m.heap, name, args)
           n == CallNative(m, name, argc)
           text == Append(m.out, [i \in 1 .. argc |-> Shown(m.heap, args[i])])
           said == [m EXCEPT !.out = text]
           done == [m EXCEPT !.heap = r.heap]
<1>1. \/ n = RuntimeError(m)
      \/ n = Replace(said, argc + 1, VNull)
      \/ name \in Folds /\ n = CallFold(m, name, argc)
      \/ argc = 1 /\ \E f, self : n = Invoke(m, Plain("len"), f, self, <<>>)
      \/ n = Replace(done, argc + 1, r.v)
  <2>1. CASE NativeArity(name) \notin {-1, argc}
    BY <2>1 DEF CallNative
  <2>2. CASE NativeArity(name) \in {-1, argc}
    <3>1. CASE name = "print"
      BY <2>2, <3>1 DEF CallNative
    <3>2. CASE name \in Folds
      BY <2>2, <3>2 DEF CallNative, Folds
    <3>3. CASE name = "len"
      <4>1. argc = 1
        BY <2>2, <3>3 DEF NativeArity
      <4> QED BY <2>2, <3>3, <4>1 DEF CallNative
    <3>4. CASE name \notin Folds \union {"print", "len"}
      BY <2>2, <3>4 DEF CallNative, Folds
    <3> QED BY <3>1, <3>2, <3>3, <3>4
  <2> QED BY <2>1, <2>2
<1>2. ASSUME NEW k, Quiet(m, k, m.top), NEW v, n = Replace(k, argc + 1, v)
      PROVE  Goes(m, n, m.top - argc)
  <2> HIDE DEF n
  <2>1. Ready(k) /\ k.top = m.top
    BY <1>2, CalmReady DEF Quiet
  <2>2. Quiet(k, n, k.top - (argc + 1) + 1)
    BY <1>2, <2>1, ReplaceQuiet
  <2>3. Quiet(m, n, k.top - (argc + 1) + 1)
    BY <1>2, <2>2, QuietTrans
  <2>4. k.top - (argc + 1) + 1 = m.top - argc
    BY <2>1
  <2> QED BY <2>3, <2>4, QuietSettles, SettlesGoes
<1>3. HeapGrows(m.heap, r.heap)
  BY NativeGrows DEF Ready
<1> HIDE DEF r, n, text, args
<1>4. CASE n = RuntimeError(m)
  BY <1>4, ErrorSettles, SettlesGoes DEF n
<1>5. CASE n = Replace(said, argc + 1, VNull)
  <2>1. Quiet(m, said, m.top)
    BY OtherQuiet
  <2> HIDE DEF said
  <2> QED BY <1>2, <1>5, <2>1 DEF n
<1>6. CASE name \in Folds /\ n = CallFold(m, name, argc)
  BY <1>6, CallFoldGoes DEF n
<1>7. CASE argc = 1 /\ \E f, self : n = Invoke(m, Plain("len"), f, self, <<>>)
  <2>1. PICK f, self : n = Invoke(m, Plain("len"), f, self, <<>>)
    BY <1>7
  <2>2. PICK q : q = Plain("len")
    OBVIOUS
  <2>3. RunOK(q) /\ q.kind # "script" /\ Offset(q) = 2
    <3>1. "len" \in Kinds
      BY DEF Kinds
    <3>2. RunOK(q) /\ q.kind = "len"
      BY <2>2, <3>1, PlainRun
    <3> QED BY <3>2 DEF Offset
  <2>4. Goes(m, Invoke(m, q, f, self, <<>>), m.top + 1 - Offset(q))
    BY <2>3, SeqPair, InvokeGoes
  <2>5. m.top + 1 - Offset(q) = m.top - argc
    BY <1>7, <2>3
  <2> QED BY <2>1, <2>2, <2>4, <2>5 DEF n
<1>8. CASE n = Replace(done, argc + 1, r.v)
  <2>1. Quiet(m, done, m.top)
    BY <1>3, HeapQuiet
  <2> HIDE DEF done
  <2> QED BY <1>2, <1>8, <2>1 DEF n
<1> QED BY <1>1, <1>4, <1>5, <1>6, <1>7, <1>8 DEF n

\* A call of a closure after the stack changed, and one of a method.
LEMMA CallAfter ==
    ASSUME code = Fns, NEW m, Ready(m), m.status = "running", m.top \in Int,
           NEW k, Quiet(m, k, m.top), NEW f, NEW argc \in Int
    PROVE  Goes(m, CallClosure(k, f, argc), m.top - argc)
<1>1. Ready(k) /\ k.status = "running" /\ k.top = m.top /\ Calm(m, k)
  BY CalmReady DEF Quiet
<1>2. Called(k, CallClosure(k, f, argc), k.top - argc)
  BY <1>1, CallCalled
<1>3. PICK n, t : n = CallClosure(k, f, argc) /\ t = m.top - argc
  OBVIOUS
<1>4. Called(k, n, t)
  BY <1>1, <1>2, <1>3
<1> QED BY <1>1, <1>3, <1>4, CalledGoes, GoesTrans

\* A call of a class.
LEMMA ConstructGoes ==
    ASSUME code = Fns, NEW m, Ready(m), m.status = "running", m.top \in Int, NEW argc \in Nat
    PROVE  Goes(m, Construct(m, argc), m.top - argc)
<1> DEFINE class == Peek(m, argc)[2]
           o == [k |-> "instance", class |-> class, fields |-> [x \in {} |-> VNull]]
           a == Alloc(m, o)
           p == m.top - argc
           v == VRef(Len(m.heap) + 1)
           made == Put(a, p, v)
           n == Construct(m, argc)
<1>1. \/ n = RuntimeError(m) \/ n = RuntimeError(made) \/ (n = made /\ argc = 0)
      \/ \E f : n = CallClosure(made, f, argc)
  <2> DEFINE c == m.heap[class]
             f == c.methods["init"]
  <2>0. n = CASE c.isEnum -> RuntimeError(m)
              [] ~c.isEnum /\ "init" \in DOMAIN c.methods ->
                   IF IsObj(m.heap, f, "closure") THEN CallClosure(made, f, argc) ELSE RuntimeError(made)
              [] OTHER -> IF argc = 0 THEN made ELSE RuntimeError(made)
    BY DEF Construct
  <2> HIDE DEF made, n, c, f
  <2>1. CASE c.isEnum
    BY <2>0, <2>1
  <2>2. CASE ~c.isEnum /\ "init" \in DOMAIN c.methods
    BY <2>0, <2>2
  <2>3. CASE ~c.isEnum /\ "init" \notin DOMAIN c.methods
    BY <2>0, <2>3
  <2> QED BY <2>1, <2>2, <2>3
<1>2. Object(o)
  BY NewObjects
<1> HIDE DEF n, o, v
<1>3. Quiet(m, a, m.top)
  BY <1>2, AllocQuiet
<1>4. Ready(a) /\ a.top = m.top
  BY <1>3, CalmReady DEF Quiet
<1> HIDE DEF a, p
<1>5. Quiet(a, made, m.top)
  BY <1>4, PutQuiet
<1>6. Quiet(m, made, m.top)
  BY <1>3, <1>5, QuietTrans
<1> HIDE DEF made
<1>7. CASE n = RuntimeError(m)
  BY <1>7, ErrorSettles, SettlesGoes DEF n
<1>8. CASE n = RuntimeError(made)
  <2>1. Ready(made) /\ Calm(m, made)
    BY <1>6, CalmReady DEF Quiet
  <2>2. Settles(made, n, m.top - argc)
    BY <1>8, <2>1, ErrorSettles
  <2> QED BY <2>1, <2>2, SettlesGoes, GoesTrans DEF n
<1>9. CASE n = made /\ argc = 0
  <2>1. m.top - argc = m.top
    BY <1>9
  <2> QED BY <1>6, <1>9, <2>1, QuietSettles, SettlesGoes DEF n
<1>10. CASE \E f : n = CallClosure(made, f, argc)
  BY <1>6, <1>10, CallAfter DEF n
<1> QED BY <1>1, <1>7, <1>8, <1>9, <1>10

\* vm_call_value.
LEMMA CallValueGoes ==
    ASSUME code = Fns, NEW m, Ready(m), m.status = "running", m.top \in Int, Len(m.frames) \in Nat,
           NEW argc \in Nat
    PROVE  Goes(m, CallValue(m, argc), m.top - argc)
<1> DEFINE callee == Peek(m, argc)
           o == ObjOf(m.heap, callee)
           n == CallValue(m, argc)
<1>1. \/ n = RuntimeError(m) \/ n = LeftOut(m)
      \/ n = CallNative(m, callee[2], argc)
      \/ n = CallGenerator(m, callee, argc)
      \/ n = Construct(m, argc)
      \/ \E f : n = CallClosure(m, f, argc)
      \/ \E p, v, f : n = CallClosure(Put(m, p, v), f, argc)
  <2>1. CASE callee[1] = "native"
    BY <2>1 DEF CallValue, IsObj
  <2>2. CASE callee[1] # "native"
    <3>1. CASE IsObj(m.heap, callee, "closure")
      <4>1. CASE code[o.fn].isAsync
        BY <2>2, <3>1, <4>1 DEF CallValue
      <4>2. CASE ~code[o.fn].isAsync /\ code[o.fn].isGen
        BY <2>2, <3>1, <4>2 DEF CallValue
      <4>3. CASE ~code[o.fn].isAsync /\ ~code[o.fn].isGen
        <5>1. n = CallClosure(m, callee, argc)
          BY <2>2, <3>1, <4>3 DEF CallValue, IsObj, HasMethod
        <5> QED BY <5>1
      <4> QED BY <4>1, <4>2, <4>3
    <3>2. CASE ~IsObj(m.heap, callee, "closure")
      BY <2>2, <3>2 DEF CallValue
    <3> QED BY <3>1, <3>2
  <2> QED BY <2>1, <2>2
<1> HIDE DEF n, callee
<1>2. CASE n = RuntimeError(m) \/ n = LeftOut(m)
  BY <1>2, ErrorSettles, SettlesGoes DEF n
<1>3. CASE n = CallNative(m, callee[2], argc)
  BY <1>3, CallNativeGoes DEF n
<1>4. CASE n = CallGenerator(m, callee, argc)
  <2>1. argc \in Int
    OBVIOUS
  <2> QED BY <1>4, <2>1, GeneratorGoes DEF n
<1>5. CASE n = Construct(m, argc)
  BY <1>5, ConstructGoes DEF n
<1>6. CASE \E f : n = CallClosure(m, f, argc)
  <2>1. Quiet(m, m, m.top)
    BY CalmRefl DEF Quiet
  <2>2. argc \in Int
    OBVIOUS
  <2> QED BY <1>6, <2>1, <2>2, CallAfter DEF n
<1>7. CASE \E p, v, f : n = CallClosure(Put(m, p, v), f, argc)
  <2>1. PICK p, v, f, k : n = CallClosure(k, f, argc) /\ k = Put(m, p, v)
    BY <1>7
  <2>2. Quiet(m, k, m.top)
    BY <2>1, PutQuiet
  <2>3. argc \in Int
    OBVIOUS
  <2> QED BY <2>1, <2>2, <2>3, CallAfter DEF n
<1> QED BY <1>1, <1>2, <1>3, <1>4, <1>5, <1>6, <1>7

\* OP_INVOKE.
LEMMA CallMethodGoes ==
    ASSUME code = Fns, NEW m, Ready(m), m.status = "running", m.top \in Int, Len(m.frames) \in Nat,
           NEW name, NEW argc \in Nat
    PROVE  Goes(m, CallMethod(m, name, argc), m.top - argc)
<1> DEFINE v == Peek(m, argc)
           o == ObjOf(m.heap, v)
           r == IF o.k = "list" THEN ListMethod(m.heap, v, name, Args(m, argc))
                ELSE DictMethod(m.heap, v, name, Args(m, argc))
           n == CallMethod(m, name, argc)
           done == [m EXCEPT !.heap = r.heap]
<1>1. \/ n = RuntimeError(m)
      \/ \E f : n = CallClosure(m, f, argc)
      \/ \E p, f : n = CallValue(Put(m, p, f), argc)
      \/ (IsObj(m.heap, v, "list") \/ IsObj(m.heap, v, "dict")) /\ n = Replace(done, argc + 1, r.v)
  <2>1. CASE IsObj(m.heap, v, "instance")
    <3>1. CASE name \in DOMAIN o.fields
      <4>1. n = CallValue(Put(m, m.top - argc, o.fields[name]), argc)
        BY <2>1, <3>1 DEF CallMethod, IsObj
      <4> QED BY <4>1
    <3>2. CASE name \notin DOMAIN o.fields
      BY <2>1, <3>2 DEF CallMethod, IsObj
    <3> QED BY <3>1, <3>2
  <2>2. CASE IsObj(m.heap, v, "dict") /\ name \in DOMAIN o.map
    <3>1. n = CallValue(Put(m, m.top - argc, o.map[name]), argc)
      BY <2>2 DEF CallMethod, IsObj, ObjOf
    <3> QED BY <3>1
  <2>3. CASE IsObj(m.heap, v, "dict") /\ name \notin DOMAIN o.map
    BY <2>3 DEF CallMethod, IsObj
  <2>4. CASE IsObj(m.heap, v, "list")
    BY <2>4 DEF CallMethod, IsObj
  <2>5. CASE ~IsObj(m.heap, v, "instance") /\ ~IsObj(m.heap, v, "dict") /\ ~IsObj(m.heap, v, "list")
    BY <2>5 DEF CallMethod
  <2> QED BY <2>1, <2>2, <2>3, <2>4, <2>5
<1> HIDE DEF n
<1>2. CASE n = RuntimeError(m)
  BY <1>2, ErrorSettles, SettlesGoes DEF n
<1>3. CASE \E f : n = CallClosure(m, f, argc)
  <2>1. Quiet(m, m, m.top)
    BY CalmRefl DEF Quiet
  <2>2. argc \in Int
    OBVIOUS
  <2> QED BY <1>3, <2>1, <2>2, CallAfter DEF n
<1>4. CASE \E p, f : n = CallValue(Put(m, p, f), argc)
  <2>1. PICK p, f, k : n = CallValue(k, argc) /\ k = Put(m, p, f)
    BY <1>4
  <2>2. Quiet(m, k, m.top)
    BY <2>1, PutQuiet
  <2>3. Ready(k) /\ k.status = "running" /\ k.top = m.top /\ Calm(m, k) /\ k.frames = m.frames
    BY <2>2, CalmReady DEF Quiet, Calm
  <2>4. Goes(k, n, m.top - argc)
    BY <2>1, <2>3, CallValueGoes
  <2> QED BY <2>3, <2>4, GoesTrans DEF n
<1>5. CASE (IsObj(m.heap, v, "list") \/ IsObj(m.heap, v, "dict")) /\ n = Replace(done, argc + 1, r.v)
  <2>1. HeapGrows(m.heap, r.heap)
    <3>1. \A args : HeapGrows(m.heap, DictMethod(m.heap, v, name, args).heap)
      BY DictMethodGrows DEF Ready
    <3>2. CASE o.k = "list"
      <4>1. IsObj(m.heap, v, "list")
        BY <1>5, <3>2 DEF IsObj, ObjOf
      <4>2. \A args : HeapGrows(m.heap, ListMethod(m.heap, v, name, args).heap)
        <5> HIDE DEF v
        <5> QED BY <4>1, ListMethodGrows DEF Ready
      <4> QED BY <3>2, <4>2
    <3>3. CASE o.k # "list"
      BY <3>1, <3>3
    <3> QED BY <3>2, <3>3
  <2> HIDE DEF r
  <2>2. Quiet(m, done, m.top)
    BY <2>1, HeapQuiet
  <2> HIDE DEF done
  <2>3. Ready(done) /\ done.top = m.top
    BY <2>2, CalmReady DEF Quiet
  <2>4. Quiet(done, n, done.top - (argc + 1) + 1)
    BY <1>5, <2>3, ReplaceQuiet
  <2>5. Quiet(m, n, done.top - (argc + 1) + 1)
    BY <2>2, <2>4, QuietTrans
  <2>6. done.top - (argc + 1) + 1 = m.top - argc
    BY <2>3
  <2> QED BY <2>5, <2>6, QuietSettles, SettlesGoes DEF n
<1> QED BY <1>1, <1>2, <1>3, <1>4, <1>5

\* What a call at the next instruction leaves is good.
LEMMA EnteredGood ==
    ASSUME SoundCode, NEW m, NEW n, NEW G, NEW s, NEW t, Poised(m, G), t = Rest(G, Len(G)),
           Entered(m, n, t, s),
           HandlersOf(G, Len(G)) # <<>> => G[Len(G)].slots + Last(HandlersOf(G, Len(G))).height - 1 < s
    PROVE  Good(n)
<1>1. n.status = "running"
  BY DEF Entered
<1>2. \E H : Running(n, H)
  BY EnteredRunning
<1> QED BY <1>1, <1>2 DEF Good

\* An instruction that calls or leaves its result.
LEMMA GoesGood ==
    ASSUME SoundCode, NEW G, code = Fns, Running(vm, G), Instr.op \in MayCall, Growth(Instr) \in Int,
           NEW n, Goes(Ahead, n, vm.top + Growth(Instr))
    PROVE  Good(n)
<1> DEFINE t == G[Len(G)].ip + 1
           H == Turn(G, t)
           N == Len(G)
           p == Pt(G, N)
<1>1. Straight(Instr.op) /\ Instr.op \notin Special /\ t \in Targets(Instr, G[Len(G)].ip)
  BY DEF MayCall, Straight, Special, Targets
<1>2. Frame(vm).ip = G[Len(G)].ip
  BY Here
<1>3. Ahead = Goto(vm, t)
  BY <1>2 DEF Ahead
<1>4. Poised(Goto(vm, t), H) /\ Rest(H, Len(H)) = vm.top + Growth(Instr)
  BY <1>1, Onward
<1>5. CASE Settles(Ahead, n, vm.top + Growth(Instr))
  BY <1>1, <1>5, StraightGood
<1>6. CASE \E s : Entered(Ahead, n, vm.top + Growth(Instr), s)
  <2>1. PICK s : Entered(Ahead, n, vm.top + Growth(Instr), s)
    BY <1>6
  <2>2. /\ t \in DOMAIN PointAt[G[N].fn] /\ Agrees(After(Fns, Instr, p), PointAt[G[N].fn][t])
        /\ Sound(Fns, Fns[G[N].fn], Instr, p)
        /\ p \in Points /\ vm.top = G[N].slots + p.height - 1 /\ G[N].slots \in Int
    BY <1>1, Here
  <2>3. Views(G)
    BY StructFacts DEF Running, Poised
  <2>4. Len(H) = N /\ H[N].slots = G[N].slots /\ Pt(H, N) = PointAt[G[N].fn][t]
    BY <2>2, <2>3, TurnViews, StructFacts DEF Running, Poised
  <2>5. HandlersOf(H, N) = p.handlers
    <3>1. After(Fns, Instr, p).handlers = p.handlers
      BY <1>1 DEF After, Point, Special
    <3> QED BY <2>2, <2>4, <3>1 DEF Agrees, HandlersOf
  <2>6. s >= vm.top + Growth(Instr) /\ s \in Int
    <3>1. vm.top + Growth(Instr) \in Int
      BY <2>2 DEF Points
    <3>2. PICK x : x = vm.top + Growth(Instr) /\ x \in Int
      BY <3>1
    <3>3. s = x \/ \E r : RunOK(r) /\ s = x + Offset(r)
      BY <2>1, <3>2 DEF Entered
    <3>4. s >= x /\ s \in Int
      BY <3>2, <3>3, OffsetNat
    <3> QED BY <3>2, <3>4
  <2>7. HandlersOf(H, N) # <<>> => H[N].slots + Last(HandlersOf(H, N)).height - 1 < s
    <3> SUFFICES ASSUME HandlersOf(H, N) # <<>>
                 PROVE  H[N].slots + Last(HandlersOf(H, N)).height - 1 < s
      OBVIOUS
    <3>1. p.height + Growth(Instr) > Last(p.handlers).height
      BY <2>2, <2>5 DEF Sound
    <3>2. Last(p.handlers).height \in Nat /\ p.height \in Nat
      <4>1. N \in DOMAIN G
        BY StructFacts DEF Running, Poised
      <4>2. /\ IsSeq(p.handlers) /\ p.handlers # <<>>
            /\ \A k \in DOMAIN p.handlers : p.handlers[k].height \in Nat
        BY <2>3, <2>5, <4>1, ViewFacts DEF HandlersOf
      <4>3. Last(p.handlers) = p.handlers[Len(p.handlers)] /\ Len(p.handlers) \in DOMAIN p.handlers
        BY <4>2, SeqFront
      <4> QED BY <2>2, <4>2, <4>3 DEF Points
    <3> HIDE DEF H, p, N
    <3>3. G[N].slots + Last(p.handlers).height - 1 < vm.top + Growth(Instr)
      BY <2>2, <3>1, <3>2
    <3>4. vm.top + Growth(Instr) \in Int
      BY <2>2, <3>2
    <3>5. PICK a, b, c, d : /\ a = G[N].slots /\ b = Last(p.handlers).height /\ c = vm.top + Growth(Instr)
                            /\ d = H[N].slots
      OBVIOUS
    <3>6. a + b - 1 < c /\ d = a /\ a \in Int /\ b \in Int /\ c \in Int /\ s \in Int /\ s >= c
      BY <2>2, <2>4, <2>6, <3>2, <3>3, <3>4, <3>5
    <3>7. d + b - 1 < s
      BY <3>6
    <3> QED BY <2>5, <3>5, <3>7
  <2>8. PICK m, x : m = Goto(vm, t) /\ x = vm.top + Growth(Instr)
    OBVIOUS
  <2>9. Entered(m, n, x, s) /\ Poised(m, H) /\ x = Rest(H, Len(H))
    BY <1>3, <1>4, <2>1, <2>8
  <2> HIDE DEF H, t
  <2> QED BY <2>4, <2>7, <2>9, EnteredGood
<1> QED BY <1>5, <1>6 DEF Goes

(* ------------------------- instructions that call ------------------------ *)

\* The machine at the next instruction.
LEMMA AheadFacts ==
    ASSUME SoundCode, NEW G, code = Fns, Running(vm, G), Straight(Instr.op), Growth(Instr) \in Int,
           vm.status = "running"
    PROVE  /\ Ready(Ahead) /\ Ahead.top = vm.top /\ vm.top \in Int /\ Ahead.status = "running"
           /\ Ahead.heap = vm.heap /\ Len(Ahead.frames) \in Nat
<1>1. /\ Ready(Ahead) /\ Ahead.top = vm.top /\ vm.top \in Int /\ Ahead.status = vm.status
      /\ Ahead.heap = vm.heap
  BY StraightOn
<1>2. PICK H : Poised(Ahead, H)
  BY StraightOn
<1>3. PICK m : m = Ahead
  OBVIOUS
<1>4. Len(m.frames) \in Nat
  BY <1>2, <1>3, StructFacts DEF Poised
<1> QED BY <1>1, <1>3, <1>4

\* OP_CALL and OP_INVOKE.
LEMMA CallOpGood ==
    ASSUME SoundCode, NEW G, code = Fns, Running(vm, G), CallOp
    PROVE  Good(vm')
<1>1. /\ vm.status = "running" /\ Instr.op \in MayCall /\ Straight(Instr.op)
      /\ Growth(Instr) = -Instr.a /\ Instr.op \in Counts
  BY DEF CallOp, Executing, MayCall, Straight, Special, Growth, Counts
<1>2. Instr.a \in Nat
  <2>1. Sound(Fns, Fns[G[Len(G)].fn], Instr, Pt(G, Len(G)))
    BY Here
  <2> QED BY <1>1, <2>1 DEF Sound
<1>3. Growth(Instr) \in Int
  BY <1>1, <1>2
<1>4. /\ Ready(Ahead) /\ Ahead.top = vm.top /\ vm.top \in Int /\ Ahead.status = "running"
      /\ Len(Ahead.frames) \in Nat
  BY <1>1, <1>3, AheadFacts
<1>5. vm' = CallValue(Ahead, Instr.a) \/ vm' = CallMethod(Ahead, Instr.s, Instr.a)
  BY DEF CallOp, Becomes
<1>6. PICK m, argc, name : m = Ahead /\ argc = Instr.a /\ name = Instr.s
  OBVIOUS
<1>7. Goes(m, CallValue(m, argc), m.top - argc) /\ Goes(m, CallMethod(m, name, argc), m.top - argc)
  <2>1. Ready(m) /\ m.status = "running" /\ m.top \in Int /\ Len(m.frames) \in Nat /\ argc \in Nat
    BY <1>2, <1>4, <1>6
  <2> QED BY <2>1, CallValueGoes, CallMethodGoes
<1>8. m.top - argc = vm.top + Growth(Instr)
  BY <1>1, <1>2, <1>4, <1>6
<1>9. Goes(Ahead, vm', vm.top + Growth(Instr))
  BY <1>5, <1>6, <1>7, <1>8
<1> QED BY <1>1, <1>3, <1>9, GoesGood

\* A call of a closure in this vm_run.
LEMMA HookGood ==
    ASSUME SoundCode, NEW G, code = Fns, Running(vm, G), vm.status = "running", Instr.op \in MayCall,
           NEW argc \in Nat, Growth(Instr) = 0 - argc, NEW f, vm' = CallClosure(Ahead, f, argc)
    PROVE  Good(vm')
<1>1. Straight(Instr.op) /\ Growth(Instr) \in Int
  BY DEF MayCall, Straight, Special
<1>2. /\ Ready(Ahead) /\ Ahead.top = vm.top /\ vm.top \in Int /\ Ahead.status = "running"
  BY <1>1, AheadFacts
<1>3. PICK m : m = Ahead
  OBVIOUS
<1>4. Quiet(m, m, m.top)
  BY <1>2, <1>3, CalmRefl DEF Quiet
<1>5. Goes(m, CallClosure(m, f, argc), m.top - argc)
  <2>1. argc \in Int
    OBVIOUS
  <2> QED BY <1>2, <1>3, <1>4, <2>1, CallAfter
<1>6. m.top - argc = vm.top + Growth(Instr)
  BY <1>2, <1>3
<1> QED BY <1>1, <1>3, <1>5, <1>6, GoesGood

\* OP_GET_INDEX, with on_get.
LEMMA GetIndexGood ==
    ASSUME SoundCode, NEW G, code = Fns, Running(vm, G), GetIndex
    PROVE  Good(vm')
<1>1. /\ vm.status = "running" /\ Instr.op \in MayCall /\ Straight(Instr.op) /\ Growth(Instr) = -1
  BY DEF GetIndex, Executing, MayCall, Straight, Special, Growth
<1>2. (\E f : vm' = CallClosure(Ahead, f, 1)) \/ (\E v : Yields(2, v))
  BY DEF GetIndex, Becomes
<1>3. CASE \E f : vm' = CallClosure(Ahead, f, 1)
  <2>1. PICK f, argc : vm' = CallClosure(Ahead, f, argc) /\ argc = 1
    BY <1>3
  <2>2. argc \in Nat /\ Growth(Instr) = 0 - argc
    BY <1>1, <2>1
  <2> QED BY <1>1, <2>1, <2>2, HookGood
<1>4. CASE \E v : Yields(2, v)
  <2>1. Growth(Instr) = 1 - 2
    BY <1>1
  <2> QED BY <1>1, <1>4, <2>1, YieldsGood
<1> QED BY <1>2, <1>3, <1>4

\* OP_GET_ITER, with on_iter.
LEMMA GetIterGood ==
    ASSUME SoundCode, NEW G, code = Fns, Running(vm, G), GetIter
    PROVE  Good(vm')
<1>1. /\ vm.status = "running" /\ Instr.op \in MayCall /\ Straight(Instr.op) /\ Growth(Instr) = 0
  BY DEF GetIter, Executing, MayCall, Straight, Special, Growth
<1>2. (\E f : vm' = CallClosure(Ahead, f, 0)) \/ vm' = Ahead
  BY DEF GetIter, Becomes
<1>3. CASE \E f : vm' = CallClosure(Ahead, f, 0)
  <2>1. PICK f, argc : vm' = CallClosure(Ahead, f, argc) /\ argc = 0
    BY <1>3
  <2>2. argc \in Nat /\ Growth(Instr) = 0 - argc
    BY <1>1, <2>1
  <2> QED BY <1>1, <2>1, <2>2, HookGood
<1>4. CASE vm' = Ahead
  <2>1. Growth(Instr) \in Int
    BY <1>1
  <2>2. Ready(Ahead) /\ Ahead.top = vm.top /\ vm.top \in Int
    BY <1>1, <2>1, AheadFacts
  <2>3. Quiet(Ahead, Ahead, Ahead.top)
    <3>1. PICK m : m = Ahead
      OBVIOUS
    <3>2. Quiet(m, m, m.top)
      BY <2>2, <3>1, CalmRefl DEF Quiet
    <3> QED BY <3>1, <3>2
  <2>4. Ahead.top = vm.top + Growth(Instr)
    BY <1>1, <2>2
  <2>5. Settles(Ahead, vm', vm.top + Growth(Instr))
    BY <1>4, <2>3, <2>4, QuietSettles
  <2> QED BY <1>1, <2>1, <2>5, StraightGood
<1> QED BY <1>2, <1>3, <1>4

\* BINARY and UNARY: equals runs in a vm_run of its own.
LEMMA OperatorGood ==
    ASSUME SoundCode, NEW G, code = Fns, Running(vm, G), Operator
    PROVE  Good(vm')
<1> DEFINE a == Peek(vm, 1)
           b == Peek(vm, 0)
           m == Drop(Ahead, 2)
           hook == Invoke(m, Plain(Instr.s), Method(vm, a, "equals"), a, <<b>>)
           es == ObjOf(vm.heap, a).es \o ObjOf(vm.heap, b).es
           both == IsObj(vm.heap, a, "list") /\ IsObj(vm.heap, b, "list")
<1>1. /\ vm.status = "running" /\ Straight(Instr.op)
      /\ \/ Instr.op = "UNARY" /\ Growth(Instr) = 1 - 1
         \/ Instr.op = "BINARY" /\ Instr.op \in MayCall /\ Growth(Instr) = 1 - 2
  BY DEF Operator, Executing, MayCall, Straight, Special, Growth
<1>2. \/ Instr.op = "UNARY" /\ \E v : Yields(1, v)
      \/ Instr.op = "BINARY" /\ \E v : Yields(2, v)
      \/ /\ Instr.op = "BINARY" /\ Instr.s \in {"==", "!="}
         /\ vm' = IF hook.status = "raised" THEN [hook EXCEPT !.status = "failed"] ELSE hook
      \/ Instr.op = "BINARY" /\ both /\ vm' = PushNew(m, ListObj(es))
  <2>1. CASE Instr.op = "UNARY"
    BY <2>1 DEF Operator
  <2>2. CASE Instr.op = "BINARY"
    <3>1. CASE Instr.s \in {"==", "!="}
      <4>1. CASE HasMethod(vm, a, "equals")
        <5> HIDE DEF hook
        <5> QED BY <2>2, <3>1, <4>1 DEF Operator, Becomes, hook
      <4>2. CASE ~HasMethod(vm, a, "equals")
        BY <2>2, <3>1, <4>2 DEF Operator
      <4> QED BY <4>1, <4>2
    <3>2. CASE Instr.s = "+" /\ both
      BY <2>2, <3>2 DEF Operator, Becomes
    <3>3. CASE Instr.s \notin {"==", "!="} /\ ~(Instr.s = "+" /\ both)
      BY <2>2, <3>3 DEF Operator
    <3> QED BY <3>1, <3>2, <3>3
  <2> QED BY <1>1, <2>1, <2>2
<1>3. Growth(Instr) \in Int
  BY <1>1
<1>4. /\ Ready(Ahead) /\ Ahead.top = vm.top /\ vm.top \in Int /\ Ahead.status = "running"
      /\ Ahead.heap = vm.heap /\ Len(Ahead.frames) \in Nat
  BY <1>1, <1>3, AheadFacts
<1> HIDE DEF hook, es
<1>5. CASE Instr.op = "UNARY" /\ \E v : Yields(1, v)
  <2>1. Growth(Instr) = 1 - 1 /\ 1 \in Int
    BY <1>1, <1>5
  <2> QED BY <1>1, <1>5, <2>1, YieldsGood
<1>6. CASE Instr.op = "BINARY" /\ \E v : Yields(2, v)
  <2>1. Growth(Instr) = 1 - 2 /\ 2 \in Int
    BY <1>1, <1>6
  <2> QED BY <1>1, <1>6, <2>1, YieldsGood
<1>7. CASE /\ Instr.op = "BINARY" /\ Instr.s \in {"==", "!="}
           /\ vm' = IF hook.status = "raised" THEN [hook EXCEPT !.status = "failed"] ELSE hook
  <2>1. PICK x, s : x = Ahead /\ s = Instr.s
    OBVIOUS
  <2>2. PICK d, r, f : d = Drop(x, 2) /\ r = Plain(s) /\ f = Method(vm, a, "equals")
    OBVIOUS
  <2>3. Quiet(x, d, x.top - 2)
    BY <1>4, <2>1, <2>2, DropQuiet
  <2>4. /\ Ready(d) /\ d.status = "running" /\ d.top = vm.top - 2 /\ d.top \in Int
        /\ Len(d.frames) \in Nat /\ Calm(x, d)
    BY <1>4, <2>1, <2>3, CalmReady DEF Quiet, Calm
  <2>5. RunOK(r) /\ r.kind # "script" /\ Offset(r) = 0
    <3>1. s \in Kinds
      BY <1>7, <2>1 DEF Kinds
    <3>2. RunOK(r) /\ r.kind = s
      BY <2>2, <3>1, PlainRun
    <3> QED BY <1>7, <2>1, <3>2 DEF Offset
  <2>6. Goes(d, Invoke(d, r, f, a, <<b>>), d.top + 1 - Offset(r))
    BY <2>4, <2>5, SeqPair, InvokeGoes
  <2>7. d.top + 1 - Offset(r) = vm.top + Growth(Instr)
    BY <1>1, <1>4, <1>7, <2>4, <2>5
  <2>8. hook = Invoke(d, r, f, a, <<b>>)
    BY <2>1, <2>2 DEF hook
  <2>9. Goes(x, hook, vm.top + Growth(Instr))
    BY <1>4, <2>1, <2>4, <2>6, <2>7, <2>8, GoesTrans
  <2>10. Goes(x, vm', vm.top + Growth(Instr))
    <3>1. CASE hook.status # "raised"
      BY <1>7, <2>9, <3>1
    <3>2. CASE hook.status = "raised"
      <4>1. Settles(x, hook, vm.top + Growth(Instr))
        BY <2>9, <3>2 DEF Goes, Entered
      <4>2. vm' = [hook EXCEPT !.status = "failed"] /\ Calm(x, hook)
        BY <1>7, <3>2, <4>1 DEF Settles
      <4>3. Calm(x, vm') /\ vm'.status = "failed"
        BY <4>2 DEF Calm, Fields
      <4> QED BY <4>3 DEF Goes, Settles
    <3> QED BY <3>1, <3>2
  <2>11. Instr.op \in MayCall
    BY <1>1, <1>7
  <2> QED BY <1>3, <2>1, <2>10, <2>11, GoesGood
<1>8. CASE Instr.op = "BINARY" /\ both /\ vm' = PushNew(m, ListObj(es))
  <2>1. IsSeq(ObjOf(vm.heap, a).es) /\ IsSeq(ObjOf(vm.heap, b).es)
    BY <1>4, <1>8 DEF IsObj, ObjOf, Ready, HeapOK, Object
  <2>2. IsSeq(es)
    BY <2>1, SeqConcat DEF es
  <2>3. Object(ListObj(es))
    BY <2>2, NewObjects
  <2>4. PICK o : o = ListObj(es)
    OBVIOUS
  <2>5. Quiet(Ahead, PushNew(Drop(Ahead, 2), o), Ahead.top - 2 + 1)
    <3>1. PICK x : x = Ahead
      OBVIOUS
    <3>2. Quiet(x, PushNew(Drop(x, 2), o), x.top - 2 + 1)
      BY <1>4, <2>3, <2>4, <3>1, MadeQuiet
    <3> QED BY <3>1, <3>2
  <2>6. Ahead.top - 2 + 1 = vm.top + Growth(Instr)
    BY <1>1, <1>4, <1>8
  <2>7. Settles(Ahead, vm', vm.top + Growth(Instr))
    BY <1>8, <2>4, <2>5, <2>6, QuietSettles
  <2> QED BY <1>1, <1>3, <2>7, StraightGood
<1> QED BY <1>2, <1>5, <1>6, <1>7, <1>8

\* OP_SET_INDEX: on_set runs in a vm_run of its own, a value above what is
\* left of the stack.
LEMMA SetIndexGood ==
    ASSUME SoundCode, NEW G, code = Fns, Running(vm, G), SetIndex
    PROVE  Good(vm')
<1> DEFINE v == Peek(vm, 2)
           args == <<Peek(vm, 1), Peek(vm, 0)>>
           heap == WithElement(vm.heap, v, args[1], args[2])
<1>1. /\ vm.status = "running" /\ Straight(Instr.op) /\ Instr.op \notin Special /\ Growth(Instr) = 0 - 3
  BY DEF SetIndex, Executing, Straight, Special, Growth
<1>2. Growth(Instr) \in Int
  BY <1>1
<1>3. /\ Ready(Ahead) /\ Ahead.top = vm.top /\ vm.top \in Int /\ Ahead.status = "running"
      /\ Ahead.heap = vm.heap /\ Len(Ahead.frames) \in Nat
  BY <1>1, <1>2, AheadFacts
<1>4. PICK a, d, x, r : a = Ahead /\ d = Drop(Ahead, 3) /\ x = vm.top + Growth(Instr) /\ r = Plain("set")
  OBVIOUS
<1>5. \/ \E f : vm' = Invoke(d, r, f, v, args)
      \/ heap # <<>> /\ vm' = [d EXCEPT !.heap = heap]
      \/ vm' = RuntimeError(d)
  <2>1. CASE HasMethod(vm, v, "on_set")
    <3>1. vm' = Invoke(d, r, Method(vm, v, "on_set"), v, args)
      BY <1>4, <2>1 DEF SetIndex, Becomes
    <3> QED BY <3>1
  <2>2. CASE ~HasMethod(vm, v, "on_set") /\ heap # <<>>
    BY <1>4, <2>2 DEF SetIndex, Becomes
  <2>3. CASE ~HasMethod(vm, v, "on_set") /\ ~(heap # <<>>)
    BY <1>4, <2>3 DEF SetIndex, Becomes
  <2> QED BY <2>1, <2>2, <2>3
<1>6. Quiet(a, d, a.top - 3) /\ Ready(a)
  BY <1>3, <1>4, DropQuiet
<1>7. /\ Ready(d) /\ d.top = x /\ d.status = "running" /\ d.top \in Int /\ Len(d.frames) \in Nat
      /\ Calm(a, d) /\ x \in Int
  <2>1. x = a.top - 3
    BY <1>1, <1>3, <1>4
  <2> QED BY <1>3, <1>4, <1>6, <2>1, CalmReady DEF Quiet, Calm
<1>8. d.heap = vm.heap
  BY <1>3, <1>4 DEF Ready, Fields, Drop
<1>9. HeapGrows(vm.heap, heap) \/ heap = <<>>
  <2>1. PICK i, y : i = args[1] /\ y = args[2]
    OBVIOUS
  <2>2. HeapOK(vm.heap)
    BY <1>3 DEF Ready
  <2> HIDE DEF v, args
  <2> QED BY <2>1, <2>2, ElementGrows
<1> HIDE DEF v, heap
<1>10. CASE heap # <<>> /\ vm' = [d EXCEPT !.heap = heap]
  <2>1. Quiet(d, vm', d.top)
    BY <1>7, <1>8, <1>9, <1>10, HeapQuiet
  <2>2. Quiet(a, vm', d.top)
    BY <1>6, <2>1, QuietTrans
  <2>3. Settles(Ahead, vm', vm.top + Growth(Instr))
    BY <1>4, <1>7, <2>2, QuietSettles
  <2> QED BY <1>1, <1>2, <2>3, StraightGood
<1>11. CASE vm' = RuntimeError(d)
  <2>1. Settles(d, vm', x)
    BY <1>7, <1>11, ErrorSettles
  <2>2. Settles(a, vm', x)
    BY <1>6, <2>1, SettlesTrans
  <2> QED BY <1>1, <1>2, <1>4, <2>2, StraightGood
<1>12. CASE \E f : vm' = Invoke(d, r, f, v, args)
  <2>1. PICK f : vm' = Invoke(d, r, f, v, args)
    BY <1>12
  <2>2. RunOK(r) /\ r.kind # "script" /\ Offset(r) = 1
    <3>1. "set" \in Kinds
      BY DEF Kinds
    <3>2. RunOK(r) /\ r.kind = "set"
      BY <1>4, <3>1, PlainRun
    <3> QED BY <3>2 DEF Offset
  <2>3. IsSeq(args)
    BY SeqPair
  <2> HIDE DEF args
  <2>4. Enters(d, vm', d.top + 1 - Offset(r), d.top + 1)
    BY <1>7, <2>1, <2>2, <2>3, InvokeGoes
  <2>5. d.top + 1 - Offset(r) = x /\ d.top + 1 = x + 1
    BY <1>7, <2>2
  <2>6. CASE Settles(d, vm', x)
    <3>1. Settles(a, vm', x)
      BY <1>6, <2>6, SettlesTrans
    <3> QED BY <1>1, <1>2, <1>4, <3>1, StraightGood
  <2>7. CASE Entered(d, vm', x, x + 1)
    <3>1. Entered(a, vm', x, x + 1)
      BY <1>6, <1>7, <2>7, EnteredTrans
    <3> DEFINE t == G[Len(G)].ip + 1
               H == Turn(G, t)
               N == Len(G)
               q == PointAt[G[N].fn][t]
    <3>2. t \in Targets(Instr, G[Len(G)].ip)
      BY <1>1 DEF Straight, Targets
    <3>3. Frame(vm).ip = G[Len(G)].ip /\ G[N].slots \in Int
          /\ t \in DOMAIN PointAt[G[N].fn] /\ G[N].fn \in DOMAIN Fns
      BY <3>2, Here
    <3>4. a = Goto(vm, t)
      BY <1>4, <3>3 DEF Ahead
    <3>5. Poised(Goto(vm, t), H) /\ Rest(H, Len(H)) = vm.top + Growth(Instr)
      BY <1>1, <1>2, <3>2, Onward
    <3>6. Views(G) /\ N \in DOMAIN G
      BY StructFacts DEF Running, Poised
    <3>7. Len(H) = N /\ H[N].slots = G[N].slots /\ Pt(H, N) = q /\ Views(H) /\ DOMAIN H = DOMAIN G
      BY <3>3, <3>6, TurnViews
    <3>8. HandlersFit(q) /\ q \in Points
      <4>1. Shaped(Fns, Fns[G[N].fn], PointAt[G[N].fn])
        BY <3>3 DEF SoundCode
      <4> QED BY <3>3, <4>1 DEF Shaped, Sound
    <3>9. HandlersOf(H, N) # <<>> => H[N].slots + Last(HandlersOf(H, N)).height - 1 < x + 1
      <4> SUFFICES ASSUME HandlersOf(H, N) # <<>>
                   PROVE  H[N].slots + Last(HandlersOf(H, N)).height - 1 < x + 1
        OBVIOUS
      <4> HIDE DEF H, t
      <4>1. HandlersOf(H, N) = q.handlers
        BY <3>7 DEF HandlersOf
      <4>2. IsSeq(q.handlers) /\ q.handlers # <<>> /\ \A k \in DOMAIN q.handlers : q.handlers[k].height \in Nat
        BY <3>6, <3>7, <4>1, ViewFacts
      <4>3. Last(q.handlers) = q.handlers[Len(q.handlers)] /\ Len(q.handlers) \in DOMAIN q.handlers
        BY <4>2, SeqFront
      <4>4. Last(q.handlers).height <= q.height /\ Last(q.handlers).height \in Nat /\ q.height \in Nat
        BY <3>8, <4>2, <4>3 DEF HandlersFit, Points
      <4>5. x = G[N].slots + q.height - 1
        BY <1>4, <3>5, <3>7 DEF Rest
      <4> HIDE DEF q, N
      <4> QED BY <3>3, <3>7, <4>1, <4>4, <4>5
    <3>10. Poised(a, H) /\ x = Rest(H, Len(H))
      BY <1>4, <3>4, <3>5
    <3>11. PICK s : s = x + 1
      OBVIOUS
    <3> HIDE DEF H, t
    <3> QED BY <3>1, <3>7, <3>9, <3>10, <3>11, EnteredGood
  <2> QED BY <2>4, <2>5, <2>6, <2>7 DEF Enters
<1> QED BY <1>5, <1>10, <1>11, <1>12

(* --------------------- handlers and upvalues of a frame ------------------ *)

\* The last frame belongs to the last call of vm_run.
LEMMA LastRun ==
    ASSUME NEW G, Views(G), NEW runs, RunsFit(runs, G)
    PROVE  /\ G[Len(G)].run = Len(runs) /\ Last(runs) = runs[Len(runs)]
           /\ Len(runs) \in Nat \ {0} /\ Len(runs) \in DOMAIN runs
<1>1. IsSeq(G) /\ G # <<>> /\ IsSeq(runs) /\ runs # <<>>
  BY DEF Views, RunsFit
<1>2. Len(G) \in DOMAIN G /\ Len(G) \in Nat
  BY <1>1, SeqLen
<1>3. Len(runs) \in Nat \ {0} /\ DOMAIN runs = 1 .. Len(runs)
  BY <1>1, SeqLen
<1>4. runs[Len(runs)].base < Len(G)
  BY <1>3 DEF RunsFit
<1>5. Len(runs) <= G[Len(G)].run /\ G[Len(G)].run \in DOMAIN runs
  BY <1>2, <1>3, <1>4 DEF RunsFit
<1> QED BY <1>1, <1>3, <1>5, SeqFront

\* The machine at another instruction, the views still as they were.
LEMMA AheadStruct ==
    ASSUME SoundCode, NEW G, code = Fns, Running(vm, G), NEW t, t = G[Len(G)].ip + 1
    PROVE  /\ Struct(Ahead, G) /\ Len(G) = Len(Ahead.frames) /\ Last(Ahead.frames).ip = t
           /\ Len(Ahead.frames) = Len(vm.frames) /\ Fields(Ahead)
           /\ Len(vm.handlers) = Upto(G, Len(G))
           /\ Body(Ahead.frames, vm.handlers, Ahead.runs, Ahead.heap, G)
           /\ OpenKept(Ahead.open, Ahead.heap, Ahead.frames, G)
           /\ Ahead.handlers = vm.handlers /\ Ahead.runs = vm.runs /\ Ahead.open = vm.open
           /\ Ahead.heap = vm.heap /\ Ahead.top = vm.top /\ Ahead.status = vm.status
           /\ Ahead.stack = vm.stack /\ Ahead.collector = vm.collector
<1>1. Frame(vm).ip = G[Len(G)].ip /\ G[Len(G)].ip \in Nat
  BY Here
<1>2. Ahead = Goto(vm, t) /\ t \in Nat
  BY <1>1 DEF Ahead
<1>3. Struct(vm, G) /\ Len(G) = Len(vm.frames) /\ Len(vm.handlers) = Upto(G, Len(G))
  BY DEF Running, Poised
<1>4. PICK m : m = Goto(vm, t)
  OBVIOUS
<1>5. /\ Struct(m, G) /\ Len(m.frames) = Len(vm.frames) /\ Last(m.frames).ip = t
      /\ m.top = vm.top /\ m.status = vm.status /\ m.stack = vm.stack
      /\ m.heap = vm.heap /\ m.handlers = vm.handlers /\ m.open = vm.open
      /\ m.runs = vm.runs /\ m.collector = vm.collector
  BY <1>2, <1>3, <1>4, GotoStruct
<1>6. Fields(m) /\ Body(m.frames, vm.handlers, m.runs, m.heap, G) /\ OpenKept(m.open, m.heap, m.frames, G)
  BY <1>5 DEF Struct
<1> QED BY <1>2, <1>3, <1>4, <1>5, <1>6

\* The upvalues when the last frame goes on at t.
LEMMA TurnOpen ==
    ASSUME SoundCode, NEW G, Views(G), NEW t \in DOMAIN PointAt[G[Len(G)].fn], NEW frames, NEW heap,
           NEW open, OpenKept(open, heap, frames, G),
           \A u \in open : heap[u].slot - G[Len(G)].slots \in Pt(G, Len(G)).open
               => heap[u].slot - G[Len(G)].slots \in PointAt[G[Len(G)].fn][t].open
    PROVE  OpenKept(open, heap, frames, Turn(G, t))
<1>1. ASSUME NEW u \in open
      PROVE  Owned(heap[u].slot, frames, Turn(G, t))
  <2>1. Owned(heap[u].slot, frames, G)
    BY DEF OpenKept
  <2>2. PICK x : x = heap[u].slot
    OBVIOUS
  <2> QED BY <2>1, <2>2, TurnOwned
<1> QED BY <1>1 DEF OpenKept

\* A machine whose last frame goes on at t.
LEMMA TurnStep ==
    ASSUME SoundCode, NEW m, NEW G, NEW hs, Fields(m), Body(m.frames, hs, m.runs, m.heap, G),
           Len(G) = Len(m.frames), NEW t \in DOMAIN PointAt[G[Len(G)].fn], Last(m.frames).ip = t,
           HandlersKept(m.handlers, m.runs, Turn(G, t)), Len(m.handlers) = Upto(Turn(G, t), Len(G)),
           OpenKept(m.open, m.heap, m.frames, Turn(G, t))
    PROVE  Poised(m, Turn(G, t))
<1>1. PICK frames, runs, heap, handlers : /\ frames = m.frames /\ runs = m.runs /\ heap = m.heap
                                          /\ handlers = m.handlers
  OBVIOUS
<1>2. Body(frames, handlers, runs, heap, Turn(G, t))
  BY <1>1, TurnBody
<1>3. Struct(m, Turn(G, t))
  BY <1>1, <1>2 DEF Struct
<1>4. Views(G) /\ G # <<>> /\ IsSeq(G)
  BY DEF Body, Views
<1>5. Len(Turn(G, t)) = Len(G) /\ Turn(G, t)[Len(G)].ip = t
  BY <1>4, TurnViews
<1>6. Last(Turn(G, t)) = Turn(G, t)[Len(G)]
  BY <1>5 DEF Last
<1> QED BY <1>3, <1>5, <1>6 DEF Poised

\* OP_RAISE.
LEMMA RaiseOpGood ==
    ASSUME SoundCode, NEW G, code = Fns, Running(vm, G), RaiseOp
    PROVE  Good(vm')
<1>1. PICK a, d : a = Ahead /\ d = Drop(Ahead, 1) /\ \E v : vm' = Throw(d, v)
  BY DEF RaiseOp, Becomes
<1>2. Struct(a, G) /\ Ready(a)
  BY <1>1, AheadStruct, StructFacts
<1>3. Quiet(a, d, a.top - 1)
  BY <1>1, <1>2, DropQuiet
<1>4. Ready(d) /\ Calm(a, d)
  BY <1>2, <1>3, CalmReady DEF Quiet
<1>5. Calm(d, vm') /\ vm'.status = "raised"
  BY <1>1, <1>4, ThrowCalm
<1>6. Calm(a, vm')
  BY <1>2, <1>4, <1>5, CalmTrans
<1>7. Struct(vm', G)
  BY <1>2, <1>6, CalmStruct
<1> QED BY <1>5, <1>7 DEF Good

\* Other handlers for the last frame.
NewHandlers(news, G, t) ==
    /\ t = G[Len(G)].ip + 1
    /\ PointAt[G[Len(G)].fn][t].height = Pt(G, Len(G)).height
    /\ Pt(G, Len(G)).open \subseteq PointAt[G[Len(G)].fn][t].open
    /\ \E b, c : Handed(news, vm.handlers, vm.runs, G, t, b, c) /\ Len(news) = b + c

\* A push or a pop of a handler leaves a good machine.
LEMMA HandlersTurned ==
    ASSUME SoundCode, NEW G, code = Fns, Running(vm, G), vm.status = "running",
           NEW t, NEW news, NewHandlers(news, G, t),
           Fields(vm'), vm'.frames = Ahead.frames, vm'.runs = Ahead.runs, vm'.heap = Ahead.heap,
           vm'.handlers = news, vm'.open = Ahead.open, vm'.top = vm.top, vm'.status = "running"
    PROVE  Good(vm')
<1> DEFINE N == Len(G)
           H == Turn(G, t)
           p == Pt(G, N)
           at == PointAt[G[N].fn]
<1>0. PICK below, e : Handed(news, vm.handlers, vm.runs, G, t, below, e) /\ Len(news) = below + e
  BY DEF NewHandlers
<1>01. /\ t = G[N].ip + 1 /\ t \in DOMAIN at /\ at[t].height = p.height /\ p.open \subseteq at[t].open
       /\ below = G[N].below /\ e = Len(HandlersOf(H, N))
  BY <1>0 DEF NewHandlers, Handed
<1>1. /\ Struct(Ahead, G) /\ N = Len(Ahead.frames) /\ Last(Ahead.frames).ip = t
      /\ Fields(Ahead) /\ Body(Ahead.frames, vm.handlers, Ahead.runs, Ahead.heap, G)
      /\ OpenKept(Ahead.open, Ahead.heap, Ahead.frames, G)
      /\ Ahead.runs = vm.runs /\ Ahead.top = vm.top /\ Ahead.status = vm.status
  BY <1>01, AheadStruct
<1>2. Views(G) /\ N \in DOMAIN G /\ HandlersKept(vm.handlers, vm.runs, G)
  BY <1>1, StructFacts DEF Body
<1>3. vm.top = G[N].slots + p.height - 1
  BY Here
<1>4. /\ Views(H) /\ Len(H) = N /\ DOMAIN H = DOMAIN G /\ H[N].slots = G[N].slots
      /\ H[N].below = below /\ Pt(H, N) = at[t]
  BY <1>01, <1>2, TurnViews
<1>5. below \in Nat /\ e \in Nat
  BY <1>01, <1>2, <1>4, ViewFacts
<1>6. HandlersKept(news, vm.runs, H)
  <2>1. PICK rs, hs : rs = vm.runs /\ hs = vm.handlers
    OBVIOUS
  <2>2. HandlersKept(hs, rs, G) /\ Handed(news, hs, rs, G, t, below, e)
    BY <1>0, <1>2, <2>1
  <2>3. HandlersKept(news, rs, Turn(G, t))
    BY <1>2, <2>2, TurnHandlers
  <2> QED BY <2>1, <2>3
<1>7. OpenKept(Ahead.open, Ahead.heap, Ahead.frames, H)
  <2>1. PICK o, h, f : o = Ahead.open /\ h = Ahead.heap /\ f = Ahead.frames
    OBVIOUS
  <2>2. \A u \in o : h[u].slot - G[N].slots \in Pt(G, N).open => h[u].slot - G[N].slots \in at[t].open
    BY <1>01
  <2>3. OpenKept(o, h, f, G)
    BY <1>1, <2>1
  <2>4. OpenKept(o, h, f, Turn(G, t))
    BY <1>01, <1>2, <2>2, <2>3, TurnOpen
  <2> QED BY <2>1, <2>4
<1>8. /\ Fields(vm') /\ vm'.frames = Ahead.frames /\ vm'.runs = Ahead.runs /\ vm'.heap = Ahead.heap
      /\ vm'.handlers = news /\ vm'.open = Ahead.open /\ vm'.top = vm.top /\ vm'.status = "running"
  OBVIOUS
<1>9. Upto(H, N) = Len(news)
  BY <1>0, <1>01, <1>4, <1>5 DEF Upto
<1>10. PICK m : m = vm'
  OBVIOUS
<1>11. Poised(m, H)
  <2>1. /\ Fields(m) /\ Body(m.frames, vm.handlers, m.runs, m.heap, G) /\ Len(G) = Len(m.frames)
        /\ Last(m.frames).ip = t /\ HandlersKept(m.handlers, m.runs, H)
        /\ Len(m.handlers) = Upto(H, Len(G)) /\ OpenKept(m.open, m.heap, m.frames, H)
    BY <1>1, <1>6, <1>7, <1>8, <1>9, <1>10
  <2> QED BY <1>01, <2>1, TurnStep
<1>12. m.top = Rest(H, Len(H))
  <2> HIDE DEF H
  <2> QED BY <1>01, <1>3, <1>4, <1>8, <1>10 DEF Rest
<1>13. \E X : Running(m, X)
  BY <1>11, <1>12 DEF Running
<1> QED BY <1>8, <1>10, <1>13 DEF Good

\* OP_PUSH_HANDLER.
LEMMA PushHandlerGood ==
    ASSUME SoundCode, NEW G, code = Fns, Running(vm, G), PushHandler
    PROVE  Good(vm')
<1> DEFINE N == Len(G)
           t == G[N].ip + 1
           H == Turn(G, t)
           p == Pt(G, N)
           at == PointAt[G[N].fn]
           x == [ip |-> Instr.a, frame |-> Len(vm.frames), base |-> RunOf(vm).base, depth |-> vm.top]
           news == Append(vm.handlers, x)
           e == Len(p.handlers) + 1
           below == G[N].below
<1>1. Instr.op = "PUSH_HANDLER" /\ (vm' = RuntimeError(Ahead) \/ vm' = [Ahead EXCEPT !.handlers = news])
  BY AheadStruct DEF PushHandler, Executing, Becomes
<1>2. /\ Struct(Ahead, G) /\ N = Len(Ahead.frames) /\ Last(Ahead.frames).ip = t
      /\ Len(Ahead.frames) = Len(vm.frames) /\ Fields(Ahead)
      /\ Len(vm.handlers) = Upto(G, N)
      /\ Body(Ahead.frames, vm.handlers, Ahead.runs, Ahead.heap, G)
      /\ OpenKept(Ahead.open, Ahead.heap, Ahead.frames, G)
      /\ Ahead.runs = vm.runs /\ Ahead.top = vm.top /\ Ahead.status = vm.status
  BY AheadStruct
<1>3. CASE vm' = RuntimeError(Ahead)
  <2>1. PICK a : a = Ahead
    OBVIOUS
  <2>2. Calm(a, vm') /\ vm'.status = "raised"
    BY <1>2, <1>3, <2>1, StructFacts, ThrowCalm
  <2>3. Struct(vm', G)
    BY <1>2, <2>1, <2>2, CalmStruct
  <2> QED BY <2>2, <2>3 DEF Good
<1>4. CASE vm' = [Ahead EXCEPT !.handlers = news]
  <2>1. /\ vm.top = G[N].slots + p.height - 1 /\ p \in Points /\ G[N].slots \in Int /\ vm.top \in Int
        /\ t \in DOMAIN at /\ Agrees(After(Fns, Instr, p), at[t]) /\ G[N].fn \in DOMAIN Fns
    <3>1. t \in Targets(Instr, G[N].ip)
      BY <1>1 DEF Targets
    <3> QED BY <3>1, Here
  <2>2. /\ at[t].height = p.height /\ p.open \subseteq at[t].open
        /\ at[t].handlers = Append(p.handlers, [ip |-> Instr.a, height |-> p.height])
    <3>1. Growth(Instr) = 0
      BY <1>1 DEF Growth
    <3> HIDE DEF p, at, t
    <3>2. p.height \in Nat
      BY <2>1 DEF Points
    <3>3. /\ After(Fns, Instr, p).height = p.height + Growth(Instr)
          /\ After(Fns, Instr, p).handlers = Append(p.handlers, [ip |-> Instr.a, height |-> p.height])
          /\ After(Fns, Instr, p).open = p.open
      BY <1>1 DEF After, Point
    <3> QED BY <2>1, <3>1, <3>2, <3>3 DEF Agrees
  <2>3. Views(G) /\ N \in DOMAIN G /\ HandlersKept(vm.handlers, vm.runs, G) /\ RunsFit(vm.runs, G)
        /\ Over(vm.handlers, HandlerType) /\ N \in Nat \ {0}
    BY <1>2, StructFacts DEF Body, HandlersKept
  <2>4. /\ Views(H) /\ Len(H) = N /\ DOMAIN H = DOMAIN G /\ H[N].slots = G[N].slots /\ H[N].run = G[N].run
        /\ H[N].below = below /\ Pt(H, N) = at[t]
    BY <2>1, <2>3, TurnViews
  <2>5. IsSeq(p.handlers) /\ Len(p.handlers) \in Nat /\ DOMAIN p.handlers = 1 .. Len(p.handlers)
        /\ below \in Nat /\ Upto(G, N) = below + Len(p.handlers)
    BY <2>3, ViewFacts DEF HandlersOf, Upto
  <2>6. HandlersOf(H, N) = at[t].handlers
    BY <2>4 DEF HandlersOf
  <2>70. PICK hs, y : hs = p.handlers /\ y = [ip |-> Instr.a, height |-> p.height]
    OBVIOUS
  <2>71. HandlersOf(H, N) = Append(hs, y) /\ IsSeq(hs) /\ e = Len(hs) + 1 /\ Len(hs) \in Nat
    BY <2>2, <2>5, <2>6, <2>70
  <2>72. /\ Len(HandlersOf(H, N)) = e /\ HandlersOf(H, N)[e] = y /\ e \in DOMAIN HandlersOf(H, N)
         /\ \A k \in 1 .. Len(hs) : HandlersOf(H, N)[k] = hs[k]
    <3> HIDE DEF H, N, e, p, at, t
    <3> QED BY <2>71, SeqAppend
  <2>7. /\ Len(HandlersOf(H, N)) = e
        /\ HandlersOf(H, N)[e] = [ip |-> Instr.a, height |-> p.height]
        /\ \A k \in 1 .. Len(p.handlers) : HandlersOf(H, N)[k] = p.handlers[k]
    BY <2>70, <2>72
  <2>8. Instr.a \in Nat
    <3>1. \A k \in DOMAIN HandlersOf(H, N) : HandlersOf(H, N)[k].ip \in Nat
      BY <2>3, <2>4, ViewFacts
    <3> QED BY <2>7, <2>72, <3>1
  <2>9. /\ G[N].run = Len(vm.runs) /\ RunOf(vm) = vm.runs[G[N].run] /\ RunOf(vm).base \in Nat
        /\ Last(vm.runs) = RunOf(vm)
    <3>1. PICK rs : rs = vm.runs
      OBVIOUS
    <3>2. G[N].run = Len(rs) /\ Last(rs) = rs[Len(rs)] /\ Len(rs) \in DOMAIN rs
      BY <2>3, <3>1, LastRun
    <3>3. RunOK(rs[Len(rs)])
      BY <2>3, <3>1, <3>2 DEF RunsFit
    <3> QED BY <3>1, <3>2, <3>3 DEF RunOf, RunOK
  <2>10. x \in HandlerType
    BY <1>2, <2>1, <2>3, <2>8, <2>9 DEF HandlerType
  <2>11. x = Handler(vm.runs, H, N, e)
    <3> HIDE DEF N, t, H, p, at, news, below
    <3>1. HandlersOf(H, N)[e].ip = Instr.a /\ HandlersOf(H, N)[e].height = p.height
      BY <2>7
    <3>2. vm.runs[H[N].run].base = RunOf(vm).base
      BY <2>4, <2>9
    <3>3. H[N].slots + p.height - 1 = vm.top /\ Len(vm.frames) = N
      BY <1>2, <2>1, <2>4
    <3> HIDE DEF e
    <3> QED BY <3>1, <3>2, <3>3 DEF Handler
  <2> HIDE DEF x
  <2>12. /\ Over(news, HandlerType) /\ IsSeq(news) /\ Len(news) = below + e /\ news[below + e] = x
         /\ \A k \in 1 .. below + Len(p.handlers) : news[k] = vm.handlers[k]
    <3>1. Over(news, HandlerType)
      BY <2>3, <2>10, OverAppend
    <3>2. IsSeq(vm.handlers) /\ Len(vm.handlers) = below + Len(p.handlers)
      BY <1>2, <2>3, <2>5 DEF Over
    <3>3. /\ IsSeq(news) /\ Len(news) = Len(vm.handlers) + 1 /\ news[Len(vm.handlers) + 1] = x
          /\ \A k \in 1 .. Len(vm.handlers) : news[k] = vm.handlers[k]
      BY <3>2, SeqAppend
    <3>4. Len(vm.handlers) + 1 = below + e
      BY <2>5, <3>2
    <3> QED BY <3>1, <3>2, <3>3, <3>4
  <2> HIDE DEF news
  <2>13. \A k \in 1 .. below : news[k] = vm.handlers[k]
    BY <2>5, <2>12
  <2>14. ASSUME NEW k \in 1 .. e
        PROVE  news[below + k] = Handler(vm.runs, H, N, k)
    <3>1. CASE k = e
      BY <2>11, <2>12, <3>1
    <3>2. CASE k # e
      <4>1. k \in 1 .. Len(p.handlers) /\ k \in DOMAIN p.handlers
        BY <2>5, <3>2
      <4>2. news[below + k] = vm.handlers[below + k]
        BY <2>5, <2>12, <4>1
      <4>3. vm.handlers[below + k] = Handler(vm.runs, G, N, k)
        <5>1. k \in DOMAIN HandlersOf(G, N)
          BY <4>1 DEF HandlersOf
        <5> QED BY <2>3, <5>1 DEF HandlersKept
      <4>4. Handler(vm.runs, G, N, k) = Handler(vm.runs, H, N, k)
        <5>1. HandlersOf(G, N)[k] = HandlersOf(H, N)[k]
          BY <2>7, <4>1 DEF HandlersOf
        <5> HIDE DEF H
        <5> QED BY <2>4, <5>1 DEF Handler
      <4> QED BY <4>2, <4>3, <4>4
    <3> QED BY <3>1, <3>2
  <2>15. PICK b, c, u : b = below /\ c = e /\ u = t
    OBVIOUS
  <2>16. below + e + 1 .. Len(news) = {} /\ below + e <= Len(news)
    BY <2>5, <2>12
  <2>17. /\ b = G[Len(G)].below /\ c = Len(HandlersOf(Turn(G, u), Len(G))) /\ Len(news) = b + c
         /\ u \in DOMAIN PointAt[G[Len(G)].fn]
         /\ Over(news, HandlerType) /\ b + c <= Len(news)
         /\ \A k \in 1 .. b : news[k] = vm.handlers[k]
         /\ \A k \in 1 .. c : news[b + k] = Handler(vm.runs, Turn(G, u), Len(G), k)
         /\ \A k \in b + c + 1 .. Len(news) : news[k].base > Last(vm.runs).base
    BY <2>1, <2>7, <2>12, <2>13, <2>14, <2>15, <2>16
  <2>18. Handed(news, vm.handlers, vm.runs, G, u, b, c)
    BY <2>17 DEF Handed
  <2>19. NewHandlers(news, G, u)
    BY <2>1, <2>2, <2>15, <2>17, <2>18 DEF NewHandlers
  <2>20. vm.status = "running"
    BY DEF PushHandler, Executing
  <2>21. /\ Fields(vm') /\ vm'.frames = Ahead.frames /\ vm'.runs = Ahead.runs /\ vm'.heap = Ahead.heap
         /\ vm'.handlers = news /\ vm'.open = Ahead.open /\ vm'.top = vm.top /\ vm'.status = "running"
    BY <1>2, <1>4, <2>20 DEF Fields
  <2> HIDE DEF N, t, H, p, at, e, below
  <2> QED BY <2>19, <2>20, <2>21, HandlersTurned
<1> QED BY <1>1, <1>3, <1>4

\* OP_POP_HANDLER.
LEMMA PopHandlerGood ==
    ASSUME SoundCode, NEW G, code = Fns, Running(vm, G), PopHandler
    PROVE  Good(vm')
<1> DEFINE N == Len(G)
           t == G[N].ip + 1
           H == Turn(G, t)
           p == Pt(G, N)
           at == PointAt[G[N].fn]
           news == Front(vm.handlers)
           e == Len(p.handlers) - 1
           below == G[N].below
<1>1. Instr.op = "POP_HANDLER" /\ vm.status = "running"
  BY DEF PopHandler, Executing
<1>2. /\ Struct(Ahead, G) /\ Fields(Ahead) /\ Ahead.handlers = vm.handlers
      /\ Body(Ahead.frames, vm.handlers, Ahead.runs, Ahead.heap, G)
      /\ Len(vm.handlers) = Upto(G, N) /\ Ahead.runs = vm.runs /\ Ahead.top = vm.top
      /\ Ahead.status = vm.status
  BY AheadStruct
<1>3. /\ p \in Points /\ t \in DOMAIN at /\ Agrees(After(Fns, Instr, p), at[t])
      /\ p.handlers # <<>>
  <2>1. t \in Targets(Instr, G[N].ip)
    BY <1>1 DEF Targets
  <2>2. Sound(Fns, Fns[G[N].fn], Instr, p)
    BY Here
  <2>3. p.handlers # <<>>
    BY <1>1, <2>2 DEF Sound
  <2> QED BY <2>1, <2>3, Here
<1>4. /\ at[t].height = p.height /\ p.open \subseteq at[t].open
      /\ at[t].handlers = Front(p.handlers)
  <2>1. Growth(Instr) = 0
    BY <1>1 DEF Growth
  <2> HIDE DEF p, at, t
  <2>2. p.height \in Nat
    BY <1>3 DEF Points
  <2>3. /\ After(Fns, Instr, p).height = p.height + Growth(Instr)
        /\ After(Fns, Instr, p).handlers = Front(p.handlers)
        /\ After(Fns, Instr, p).open = p.open
    BY <1>1 DEF After, Point
  <2> QED BY <1>3, <2>1, <2>2, <2>3 DEF Agrees
<1>5. Views(G) /\ N \in DOMAIN G /\ HandlersKept(vm.handlers, vm.runs, G)
      /\ Over(vm.handlers, HandlerType) /\ N \in Nat \ {0}
  BY <1>2, StructFacts DEF Body, HandlersKept
<1>6. /\ Views(H) /\ Len(H) = N /\ DOMAIN H = DOMAIN G /\ H[N].slots = G[N].slots /\ H[N].run = G[N].run
      /\ H[N].below = below /\ Pt(H, N) = at[t]
  BY <1>3, <1>5, TurnViews
<1>7. /\ IsSeq(p.handlers) /\ Len(p.handlers) \in Nat \ {0} /\ DOMAIN p.handlers = 1 .. Len(p.handlers)
      /\ below \in Nat /\ Upto(G, N) = below + Len(p.handlers)
  <2>1. /\ IsSeq(p.handlers) /\ Len(p.handlers) \in Nat /\ DOMAIN p.handlers = 1 .. Len(p.handlers)
        /\ below \in Nat /\ Upto(G, N) = below + Len(p.handlers)
    BY <1>5, ViewFacts DEF HandlersOf, Upto
  <2> QED BY <1>3, <2>1, SeqLen
<1>8. HandlersOf(H, N) = Front(p.handlers)
  BY <1>4, <1>6 DEF HandlersOf
<1>9. /\ Len(HandlersOf(H, N)) = e /\ \A k \in 1 .. e : HandlersOf(H, N)[k] = p.handlers[k]
  <2>1. Front(p.handlers) = SubSeq(p.handlers, 1, e) /\ e \in 0 .. Len(p.handlers)
    BY <1>3, <1>7, SeqFront
  <2> QED BY <1>7, <1>8, <2>1, SeqPrefix
<1>10. e \in Nat /\ Len(vm.handlers) = below + e + 1 /\ IsSeq(vm.handlers) /\ vm.handlers # <<>>
  <2>1. e \in Nat /\ Len(vm.handlers) = below + e + 1 /\ IsSeq(vm.handlers)
    BY <1>2, <1>5, <1>7 DEF Over
  <2> QED BY <1>7, <2>1, SeqLen
<1>11. /\ Over(news, HandlerType) /\ IsSeq(news) /\ Len(news) = below + e
       /\ \A k \in 1 .. below + e : news[k] = vm.handlers[k]
  <2>1. news = SubSeq(vm.handlers, 1, Len(vm.handlers) - 1) /\ Len(vm.handlers) - 1 \in 0 .. Len(vm.handlers)
    BY <1>10, SeqFront
  <2>2. Len(vm.handlers) - 1 = below + e
    BY <1>7, <1>10
  <2> HIDE DEF news, below, e
  <2>3. PICK c : c = below + e
    OBVIOUS
  <2>4. news = SubSeq(vm.handlers, 1, c) /\ c \in 0 .. Len(vm.handlers)
    BY <2>1, <2>2, <2>3
  <2>5. Over(news, HandlerType)
    BY <1>5, <2>4, OverPrefix
  <2>6. IsSeq(news) /\ Len(news) = c /\ \A k \in 1 .. c : news[k] = vm.handlers[k]
    BY <1>10, <2>4, SeqPrefix
  <2> QED BY <2>3, <2>5, <2>6
<1> HIDE DEF news
<1>12. vm' = [Ahead EXCEPT !.handlers = news]
  BY <1>2, <1>10 DEF PopHandler, Becomes, Fields, news
<1>13. ASSUME NEW k \in 1 .. e
       PROVE  news[below + k] = Handler(vm.runs, H, N, k)
  <2>1. k \in DOMAIN p.handlers /\ below + k \in 1 .. below + e
    <3>1. e \in Nat /\ Len(p.handlers) = e + 1 /\ DOMAIN p.handlers = 1 .. Len(p.handlers) /\ below \in Nat
      BY <1>7, <1>10
    <3> HIDE DEF e, below, p
    <3> QED BY <3>1
  <2>2. news[below + k] = vm.handlers[below + k]
    BY <1>11, <2>1
  <2>3. vm.handlers[below + k] = Handler(vm.runs, G, N, k)
    <3>1. k \in DOMAIN HandlersOf(G, N)
      BY <2>1 DEF HandlersOf
    <3> QED BY <1>5, <3>1 DEF HandlersKept
  <2>4. Handler(vm.runs, G, N, k) = Handler(vm.runs, H, N, k)
    <3>1. HandlersOf(G, N)[k] = HandlersOf(H, N)[k]
      BY <1>9 DEF HandlersOf
    <3> HIDE DEF H
    <3> QED BY <1>6, <3>1 DEF Handler
  <2> QED BY <2>2, <2>3, <2>4
<1>14. PICK b, c, u : b = below /\ c = e /\ u = t
  OBVIOUS
<1>15. below + e + 1 .. Len(news) = {} /\ below + e <= Len(news) /\ 1 .. below \subseteq 1 .. below + e
  BY <1>7, <1>10, <1>11
<1>16. /\ b = G[Len(G)].below /\ c = Len(HandlersOf(Turn(G, u), Len(G))) /\ Len(news) = b + c
       /\ u \in DOMAIN PointAt[G[Len(G)].fn]
       /\ Over(news, HandlerType) /\ b + c <= Len(news)
       /\ \A k \in 1 .. b : news[k] = vm.handlers[k]
       /\ \A k \in 1 .. c : news[b + k] = Handler(vm.runs, Turn(G, u), Len(G), k)
       /\ \A k \in b + c + 1 .. Len(news) : news[k].base > Last(vm.runs).base
  BY <1>3, <1>9, <1>11, <1>13, <1>14, <1>15
<1>17. Handed(news, vm.handlers, vm.runs, G, u, b, c)
  BY <1>16 DEF Handed
<1>18. NewHandlers(news, G, u)
  BY <1>4, <1>14, <1>16, <1>17 DEF NewHandlers
<1>19. /\ Fields(vm') /\ vm'.frames = Ahead.frames /\ vm'.runs = Ahead.runs /\ vm'.heap = Ahead.heap
       /\ vm'.handlers = news /\ vm'.open = Ahead.open /\ vm'.top = vm.top /\ vm'.status = "running"
  BY <1>1, <1>2, <1>12 DEF Fields
<1> HIDE DEF N, t, H, p, at, e, below
<1> QED BY <1>1, <1>18, <1>19, HandlersTurned

(* --------------------------- closing upvalues ---------------------------- *)

\* The heap h has become g; the objects keep have not changed.
Shut(h, g, keep) ==
    /\ HeapOK(g) /\ DOMAIN g = DOMAIN h
    /\ \A a \in DOMAIN h : h[a].k = "closure" => g[a].k = "closure" /\ g[a].fn = h[a].fn
    /\ \A u \in keep : u \in DOMAIN h => g[u] = h[u]

\* What close_upvalues leaves.
LEMMA CloseFacts ==
    ASSUME NEW m, Ready(m), NEW p, NEW c, c = CloseUpvalues(m, p)
    PROVE  /\ Ready(c) /\ c.frames = m.frames /\ c.handlers = m.handlers /\ c.runs = m.runs
           /\ c.top = m.top /\ c.status = m.status /\ c.collector = m.collector
           /\ c.open = {u \in m.open : ~(m.heap[u].slot >= p)}
           /\ Shut(m.heap, c.heap, c.open)
<1> DEFINE shut == {u \in m.open : m.heap[u].slot >= p}
           g == [i \in DOMAIN m.heap |-> IF i \in shut
                   THEN [m.heap[i] EXCEPT !.open = FALSE, !.val = At(m, m.heap[i].slot)]
                   ELSE m.heap[i]]
<1>1. HeapOK(m.heap) /\ IsSeq(m.heap) /\ Len(m.heap) \in Nat /\ DOMAIN m.heap = 1 .. Len(m.heap)
  BY SeqLen DEF Ready, HeapOK
<1>2. c = [m EXCEPT !.open = m.open \ shut, !.heap = g]
  BY DEF CloseUpvalues
<1>3. ASSUME NEW a \in DOMAIN m.heap
      PROVE  /\ Object(g[a]) /\ (m.heap[a].k = "closure" => g[a].k = "closure" /\ g[a].fn = m.heap[a].fn)
             /\ a \notin shut => g[a] = m.heap[a]
  <2>1. Object(m.heap[a])
    BY <1>1 DEF HeapOK
  <2>2. PICK o, v : o = m.heap[a] /\ v = At(m, m.heap[a].slot)
    OBVIOUS
  <2>3. CASE a \in shut
    <3>1. g[a] = [o EXCEPT !.open = FALSE, !.val = v]
      BY <2>2, <2>3
    <3>2. Object(o)
      BY <2>1, <2>2
    <3>3. Object(g[a]) /\ (o.k = "closure" => g[a].k = "closure" /\ g[a].fn = o.fn)
      <4> HIDE DEF g
      <4> QED BY <3>1, <3>2 DEF Object
    <3> QED BY <2>2, <2>3, <3>3
  <2>4. CASE a \notin shut
    BY <2>1, <2>4
  <2> QED BY <2>3, <2>4
<1>4. IsSeq(g) /\ DOMAIN g = DOMAIN m.heap
  <2>1. DOMAIN g = DOMAIN m.heap
    OBVIOUS
  <2>2. g = [i \in 1 .. Len(m.heap) |-> g[i]]
    BY <1>1
  <2> HIDE DEF g
  <2>3. IsSeq(g)
    BY <1>1, <2>2, SeqListed
  <2> QED BY <2>1, <2>3
<1> HIDE DEF g
<1>5. HeapOK(g)
  BY <1>3, <1>4 DEF HeapOK
<1>6. c.open = m.open \ shut /\ c.heap = g /\ Fields(c)
  BY <1>2 DEF Ready, Fields
<1>7. Shut(m.heap, c.heap, c.open)
  BY <1>3, <1>4, <1>5, <1>6 DEF Shut
<1>8. /\ c.frames = m.frames /\ c.handlers = m.handlers /\ c.runs = m.runs
      /\ c.top = m.top /\ c.status = m.status /\ c.collector = m.collector
  BY <1>2 DEF Ready, Fields
<1> QED BY <1>5, <1>6, <1>7, <1>8 DEF Ready

\* Frames and the upvalues that are left.
LEMMA ShutBody ==
    ASSUME NEW frames, NEW handlers, NEW runs, NEW h, NEW g, NEW keep, NEW G,
           Body(frames, handlers, runs, h, G), Shut(h, g, keep)
    PROVE  Body(frames, handlers, runs, g, G)
<1>1. Framed(frames, g, G)
  BY DEF Body, Framed, Shut
<1> QED BY <1>1 DEF Body, Shut

\* The upvalues that are kept.
LEMMA ShutOpen ==
    ASSUME NEW open, NEW h, NEW frames, NEW G, OpenKept(open, h, frames, G),
           NEW keep, NEW g, keep \subseteq open, Shut(h, g, keep)
    PROVE  OpenKept(keep, g, frames, G) /\ \A u \in keep : g[u].slot = h[u].slot
<1>1. \A u \in keep : u \in DOMAIN h /\ g[u] = h[u]
  BY DEF OpenKept, Shut
<1> QED BY <1>1 DEF OpenKept, Shut

\* OP_CLOSE_UPVALUE.
LEMMA CloseUpvalueGood ==
    ASSUME SoundCode, NEW G, code = Fns, Running(vm, G), CloseUpvalue
    PROVE  Good(vm')
<1> DEFINE N == Len(G)
           t == G[N].ip + 1
           H == Turn(G, t)
           p == Pt(G, N)
           at == PointAt[G[N].fn]
<1>1. Instr.op = "CLOSE_UPVALUE" /\ vm.status = "running"
  BY DEF CloseUpvalue, Executing
<1>2. PICK a, c : a = Ahead /\ c = CloseUpvalues(a, vm.top) /\ vm' = Drop(c, 1)
  BY DEF CloseUpvalue, Becomes
<1>3. /\ Struct(a, G) /\ a.handlers = vm.handlers /\ N = Len(a.frames) /\ Last(a.frames).ip = t
      /\ Len(vm.handlers) = Upto(G, N) /\ a.runs = vm.runs /\ a.top = vm.top /\ a.open = vm.open
      /\ a.status = vm.status /\ a.heap = vm.heap
  BY <1>2, AheadStruct
<1>4. /\ p \in Points /\ t \in DOMAIN at /\ Agrees(After(Fns, Instr, p), at[t])
      /\ vm.top = G[N].slots + p.height - 1 /\ G[N].slots \in Int
  <2>1. t \in Targets(Instr, G[N].ip)
    BY <1>1 DEF Targets
  <2> QED BY <2>1, Here
<1>5. /\ at[t].height = p.height - 1 /\ p.open \ {p.height - 1} \subseteq at[t].open
      /\ at[t].handlers = p.handlers
  <2>1. Growth(Instr) = -1
    BY <1>1 DEF Growth
  <2> HIDE DEF p, at, t
  <2>2. p.height \in Nat
    BY <1>4 DEF Points
  <2>3. /\ After(Fns, Instr, p).height = p.height + Growth(Instr)
        /\ After(Fns, Instr, p).handlers = p.handlers
        /\ After(Fns, Instr, p).open = p.open \ {p.height - 1}
    BY <1>1 DEF After, Point
  <2> QED BY <1>4, <2>1, <2>2, <2>3 DEF Agrees
<1>6. Views(G) /\ N \in DOMAIN G /\ Ready(a) /\ HandlersKept(a.handlers, a.runs, G)
  BY <1>3, StructFacts DEF Struct, Body
<1>7. /\ Ready(c) /\ c.frames = a.frames /\ c.handlers = a.handlers /\ c.runs = a.runs
      /\ c.top = a.top /\ c.status = a.status
      /\ c.open = {u \in a.open : ~(a.heap[u].slot >= vm.top)}
      /\ Shut(a.heap, c.heap, c.open)
  BY <1>2, <1>6, CloseFacts
<1>8. Body(a.frames, a.handlers, a.runs, c.heap, G)
  BY <1>3, <1>7, ShutBody DEF Struct
<1>9. OpenKept(c.open, c.heap, a.frames, G) /\ \A u \in c.open : c.heap[u].slot = a.heap[u].slot
  BY <1>3, <1>7, ShutOpen DEF Struct
<1>10. /\ Fields(vm') /\ vm'.frames = a.frames /\ vm'.handlers = a.handlers /\ vm'.runs = a.runs
       /\ vm'.heap = c.heap /\ vm'.open = c.open /\ vm'.top = vm.top - 1 /\ vm'.status = "running"
  BY <1>1, <1>2, <1>3, <1>7 DEF Drop, Ready, Fields
<1>11. \A u \in c.open : c.heap[u].slot - G[N].slots \in p.open => c.heap[u].slot - G[N].slots \in at[t].open
  <2>1. ASSUME NEW u \in c.open, c.heap[u].slot - G[N].slots \in p.open
        PROVE  c.heap[u].slot - G[N].slots # p.height - 1
    <3>1. u \in DOMAIN a.heap /\ Object(a.heap[u]) /\ a.heap[u].k = "upvalue"
      BY <1>3, <1>7 DEF Struct, OpenKept, Ready, HeapOK, Body
    <3>2. PICK s : s = c.heap[u].slot
      OBVIOUS
    <3>3. s \in Int
      BY <1>9, <3>1, <3>2 DEF Object
    <3>4. ~(s >= vm.top)
      BY <1>7, <1>9, <3>2
    <3>5. s - G[N].slots # p.height - 1
      <4> HIDE DEF p
      <4>1. p.height \in Nat
        BY <1>4 DEF Points
      <4> QED BY <1>4, <3>3, <3>4, <4>1
    <3> QED BY <3>2, <3>5
  <2> QED BY <1>5, <2>1
<1>12. PICK k, o, hs, rs, fs : k = c.heap /\ o = c.open /\ hs = a.handlers /\ rs = a.runs /\ fs = a.frames
  OBVIOUS
<1>13. OpenKept(o, k, fs, Turn(G, t))
  BY <1>4, <1>6, <1>9, <1>11, <1>12, TurnOpen
<1>14. HandlersKept(hs, rs, Turn(G, t)) /\ Upto(Turn(G, t), Len(G)) = Upto(G, Len(G))
  <2>1. at[t].handlers = HandlersOf(G, N) /\ Len(hs) = Upto(G, N) /\ HandlersKept(hs, rs, G)
    BY <1>3, <1>5, <1>6, <1>12 DEF HandlersOf
  <2> QED BY <1>4, <1>6, <2>1, TurnKept
<1>15. PICK m : m = vm'
  OBVIOUS
<1>16. Poised(m, H)
  <2>1. /\ Fields(m) /\ Body(m.frames, hs, m.runs, m.heap, G) /\ Len(G) = Len(m.frames)
        /\ Last(m.frames).ip = t /\ HandlersKept(m.handlers, m.runs, H)
        /\ Len(m.handlers) = Upto(H, Len(G)) /\ OpenKept(m.open, m.heap, m.frames, H)
    BY <1>3, <1>8, <1>10, <1>12, <1>13, <1>14, <1>15
  <2> QED BY <1>4, <2>1, TurnStep
<1>17. m.top = Rest(H, Len(H))
  <2>1. Len(H) = N /\ H[N].slots = G[N].slots /\ Pt(H, N) = at[t]
    BY <1>4, <1>6, TurnViews
  <2>2. p.height \in Nat
    BY <1>4 DEF Points
  <2> HIDE DEF H, p, t, at
  <2> QED BY <1>4, <1>5, <1>10, <1>15, <2>1, <2>2 DEF Rest
<1>18. \E X : Running(m, X)
  BY <1>16, <1>17 DEF Running
<1> QED BY <1>10, <1>15, <1>18 DEF Good

(* ---------------------------- new closures ------------------------------- *)

\* The machine b has become k by captures of the slots S.
Capturing(b, k, S) ==
    /\ Fields(k) /\ k.frames = b.frames /\ k.handlers = b.handlers /\ k.runs = b.runs
    /\ k.top = b.top /\ k.status = b.status /\ HeapGrows(b.heap, k.heap)
    /\ \A u \in k.open : /\ u \in DOMAIN k.heap /\ k.heap[u].k = "upvalue" /\ k.heap[u].open
                         /\ u \in b.open \/ k.heap[u].slot \in S
    /\ \A u, w \in k.open : k.heap[u].slot = k.heap[w].slot => u = w

\* A quiet step in between.
LEMMA CapturingQuiet ==
    ASSUME NEW b, Ready(b), NEW k, NEW n, NEW S, Capturing(b, k, S), Quiet(k, n, k.top)
    PROVE  Capturing(b, n, S)
<1>1. HeapGrows(b.heap, k.heap) /\ HeapGrows(k.heap, n.heap)
  BY DEF Capturing, Quiet, Calm
<1>2. HeapOK(k.heap) /\ HeapGrows(b.heap, n.heap) /\ DOMAIN k.heap \subseteq DOMAIN n.heap
  <2>1. HeapOK(k.heap)
    BY <1>1, GrowsKeeps DEF Ready
  <2>2. DOMAIN k.heap \subseteq DOMAIN n.heap
    BY <1>1, <2>1, GrowsKeeps
  <2> QED BY <1>1, <2>1, <2>2, GrowsTrans DEF Ready
<1>3. \A u \in k.open : /\ n.heap[u].k = "upvalue" /\ n.heap[u].open = k.heap[u].open
                        /\ n.heap[u].slot = k.heap[u].slot /\ u \in DOMAIN n.heap
  <2>1. \A u \in k.open : Same(k.heap[u], n.heap[u]) /\ k.heap[u].k = "upvalue" /\ u \in DOMAIN n.heap
    BY <1>1, <1>2 DEF HeapGrows, Capturing
  <2> QED BY <2>1 DEF Same
<1> QED BY <1>2, <1>3 DEF Capturing, Quiet, Calm

\* capture_upvalue.
LEMMA CaptureUpvalueKeeps ==
    ASSUME NEW b, Ready(b), NEW k, NEW S, Capturing(b, k, S), NEW p \in S, p \in Int,
           NEW n, n = CaptureUpvalue(k, p).m
    PROVE  Capturing(b, n, S)
<1>1. CASE UpvaluesAt(k, p) # {}
  BY <1>1 DEF CaptureUpvalue
<1>2. CASE UpvaluesAt(k, p) = {}
  <2> DEFINE o == [k |-> "upvalue", open |-> TRUE, slot |-> p, val |-> VNull]
             u == Len(k.heap) + 1
             g == Append(k.heap, o)
  <2>1. n = [k EXCEPT !.heap = g, !.open = @ \union {u}]
    BY <1>2 DEF CaptureUpvalue, Alloc, Capturing, Fields
  <2>2. Object(o) /\ o.k = "upvalue" /\ o.open /\ o.slot = p
    BY DEF Object
  <2>3. HeapOK(k.heap)
    BY GrowsKeeps DEF Ready, Capturing
  <2> HIDE DEF o
  <2>4. HeapGrows(k.heap, g) /\ g[u] = o /\ u \in DOMAIN g /\ Len(k.heap) \in Nat
    BY <2>2, <2>3, GrowsAppend
  <2>5. HeapGrows(b.heap, g)
    BY <2>4, GrowsTrans DEF Ready, Capturing
  <2>6. DOMAIN k.heap \subseteq DOMAIN g /\ u \notin DOMAIN k.heap
    <3>1. IsSeq(k.heap)
      BY <2>3 DEF HeapOK
    <3>2. DOMAIN k.heap = 1 .. Len(k.heap)
      BY <3>1, SeqLen
    <3> QED BY <2>3, <2>4, <3>2, GrowsKeeps
  <2> HIDE DEF g, u
  <2>7. \A w \in k.open : /\ g[w].k = "upvalue" /\ g[w].open = k.heap[w].open
                          /\ g[w].slot = k.heap[w].slot /\ w \in DOMAIN g /\ w # u
                          /\ k.heap[w].slot # p
    <3>1. \A w \in k.open : Same(k.heap[w], g[w]) /\ k.heap[w].k = "upvalue" /\ w \in DOMAIN k.heap
      BY <2>4 DEF HeapGrows, Capturing
    <3>2. \A w \in k.open : k.heap[w].slot # p
      BY <1>2 DEF UpvaluesAt
    <3> QED BY <2>6, <3>1, <3>2 DEF Same
  <2>8. /\ Fields(n) /\ n.frames = k.frames /\ n.handlers = k.handlers /\ n.runs = k.runs
        /\ n.top = k.top /\ n.status = k.status /\ n.heap = g /\ n.open = k.open \union {u}
    BY <2>1 DEF Fields, Capturing
  <2>9. \A w \in n.open : /\ w \in DOMAIN n.heap /\ n.heap[w].k = "upvalue" /\ n.heap[w].open
                          /\ w \in b.open \/ n.heap[w].slot \in S
    BY <2>2, <2>4, <2>7, <2>8 DEF Capturing
  <2>10. \A w, x \in n.open : n.heap[w].slot = n.heap[x].slot => w = x
    BY <2>2, <2>4, <2>7, <2>8 DEF Capturing
  <2> QED BY <2>5, <2>8, <2>9, <2>10 DEF Capturing
<1> QED BY <1>1, <1>2

\* One of the upvalues of a new closure.
LEMMA CaptureKeeps ==
    ASSUME NEW b, Ready(b), NEW k, NEW S, Capturing(b, k, S), NEW id, NEW u,
           u.isLocal => Frame(b).slots + u.index \in S /\ Frame(b).slots + u.index \in Int,
           NEW n, n = Capture(k, id, u)
    PROVE  Capturing(b, n, S)
<1>1. PICK c, up : /\ n = [c EXCEPT !.heap[id].ups = Append(@, up)]
                   /\ c = (IF u.isLocal THEN CaptureUpvalue(k, Local(k, u.index)).m ELSE k)
  BY DEF Capture
<1>2. Capturing(b, c, S)
  <2>1. CASE u.isLocal
    <3>1. PICK p : p = Local(k, u.index)
      OBVIOUS
    <3>2. p \in S /\ p \in Int
      BY <2>1, <3>1 DEF Local, Frame, Capturing
    <3> QED BY <1>1, <2>1, <3>1, <3>2, CaptureUpvalueKeeps
  <2>2. CASE ~u.isLocal
    BY <1>1, <2>2
  <2> QED BY <2>1, <2>2
<1>3. Ready(c)
  BY <1>2, GrowsKeeps DEF Capturing, Ready
<1>4. PICK x : x = Append(c.heap[id].ups, up)
  OBVIOUS
<1>5. PICK h : h = [c.heap EXCEPT ![id].ups = x]
  OBVIOUS
<1>6. n = [c EXCEPT !.heap = h]
  BY <1>1, <1>4, <1>5
<1>7. HeapGrows(c.heap, h)
  BY <1>3, <1>5, GrowsField DEF Ready
<1>8. Quiet(c, n, c.top)
  BY <1>3, <1>6, <1>7, HeapQuiet
<1> QED BY <1>2, <1>8, CapturingQuiet

\* All of them.
Captures1(m, id, ups, n, f) == f = [i \in 0 .. n |-> IF i = 0 THEN m ELSE Capture(f[i - 1], id, ups[i])]

\* The recursive function of Captures exists.
LEMMA CapturesExist ==
    ASSUME NEW m, NEW id, NEW ups, Len(ups) \in Nat
    PROVE  \E f : Captures1(m, id, ups, Len(ups), f)
<1> DEFINE T == {n \in 0 .. Len(ups) : \E f : Captures1(m, id, ups, n, f)}
<1>1. 0 \in T
  <2> DEFINE f == [i \in 0 .. 0 |-> m]
  <2>1. \A i \in 0 .. 0 : i = 0
    OBVIOUS
  <2>2. f = [i \in 0 .. 0 |-> IF i = 0 THEN m ELSE Capture(f[i - 1], id, ups[i])]
    BY <2>1
  <2>3. Captures1(m, id, ups, 0, f)
    BY <2>2 DEF Captures1
  <2> QED BY <2>3
<1>2. ASSUME NEW n \in 0 .. Len(ups) - 1, n \in T
      PROVE  n + 1 \in T
  <2>1. PICK f : Captures1(m, id, ups, n, f)
    BY <1>2
  <2> DEFINE g == [i \in 0 .. n + 1 |-> IF i = n + 1 THEN Capture(f[n], id, ups[i]) ELSE f[i]]
  <2>2. ASSUME NEW i \in 0 .. n + 1
        PROVE  g[i] = IF i = 0 THEN m ELSE Capture(g[i - 1], id, ups[i])
    <3>1. CASE i = n + 1
      <4>1. i # 0 /\ i - 1 = n /\ n \in 0 .. n + 1 /\ n # n + 1
        BY <3>1
      <4>2. g[n] = f[n]
        BY <4>1
      <4> QED BY <3>1, <4>1, <4>2
    <3>2. CASE i = 0
      <4>1. 0 \in 0 .. n /\ 0 # n + 1
        OBVIOUS
      <4>2. f[0] = m
        BY <2>1, <4>1 DEF Captures1
      <4> QED BY <3>2, <4>1, <4>2
    <3>3. CASE i # 0 /\ i # n + 1
      <4>1. i \in 0 .. n /\ i - 1 \in 0 .. n + 1 /\ i - 1 # n + 1
        BY <3>3
      <4>2. f[i] = Capture(f[i - 1], id, ups[i])
        BY <2>1, <3>3, <4>1 DEF Captures1
      <4> QED BY <3>3, <4>1, <4>2
    <3> QED BY <3>1, <3>2, <3>3
  <2>3. g = [i \in 0 .. n + 1 |-> g[i]]
    OBVIOUS
  <2> HIDE DEF g
  <2>4. g = [i \in 0 .. n + 1 |-> IF i = 0 THEN m ELSE Capture(g[i - 1], id, ups[i])]
    BY <2>2, <2>3
  <2>5. Captures1(m, id, ups, n + 1, g)
    BY <2>4 DEF Captures1
  <2> QED BY <2>5
<1> HIDE DEF T
<1>3. \A n \in 0 .. Len(ups) : n \in T
  BY <1>1, <1>2, UpTo
<1>4. Len(ups) \in T
  BY <1>3
<1> QED BY <1>4 DEF T

\* Capturing keeps the open upvalues and adds slots of S.
LEMMA CapturesKeep ==
    ASSUME NEW b, Ready(b), NEW S, Capturing(b, b, S), NEW id, NEW ups, Len(ups) \in Nat,
           \A i \in 1 .. Len(ups) : ups[i].isLocal =>
               Frame(b).slots + ups[i].index \in S /\ Frame(b).slots + ups[i].index \in Int
    PROVE  Capturing(b, Captures(b, id, ups), S)
<1> DEFINE after == CHOOSE f : f = [i \in 0 .. Len(ups) |-> IF i = 0 THEN b ELSE Capture(f[i - 1], id, ups[i])]
<1>1. Captures(b, id, ups) = after[Len(ups)]
  BY DEF Captures
<1>2. Captures1(b, id, ups, Len(ups), after)
  <2>1. \E f : f = [i \in 0 .. Len(ups) |-> IF i = 0 THEN b ELSE Capture(f[i - 1], id, ups[i])]
    <3>1. \E f : Captures1(b, id, ups, Len(ups), f)
      BY CapturesExist
    <3> QED BY <3>1 DEF Captures1
  <2>2. after = [i \in 0 .. Len(ups) |-> IF i = 0 THEN b ELSE Capture(after[i - 1], id, ups[i])]
    BY <2>1
  <2> QED BY <2>2 DEF Captures1
<1> HIDE DEF after
<1> DEFINE T == {n \in 0 .. Len(ups) : Capturing(b, after[n], S)}
<1>3. 0 \in T
  BY <1>2 DEF Captures1
<1>4. ASSUME NEW n \in 0 .. Len(ups) - 1, n \in T
      PROVE  n + 1 \in T
  <2>1. n + 1 \in 1 .. Len(ups) /\ n + 1 \in 0 .. Len(ups) /\ n + 1 # 0 /\ n + 1 - 1 = n
    OBVIOUS
  <2>2. PICK k, w, u : k = after[n] /\ w = after[n + 1] /\ u = ups[n + 1]
    OBVIOUS
  <2>3. w = Capture(k, id, u)
    BY <1>2, <2>1, <2>2 DEF Captures1
  <2>4. Capturing(b, k, S)
    BY <1>4, <2>2
  <2>5. Capturing(b, w, S)
    BY <2>1, <2>2, <2>3, <2>4, CaptureKeeps
  <2> QED BY <2>1, <2>2, <2>5
<1> HIDE DEF T
<1>5. \A n \in 0 .. Len(ups) : n \in T
  BY <1>3, <1>4, UpTo
<1>6. Len(ups) \in T
  BY <1>5
<1> QED BY <1>1, <1>6 DEF T

\* OP_CLOSURE.
LEMMA ClosureOpGood ==
    ASSUME SoundCode, NEW G, code = Fns, Running(vm, G), ClosureOp
    PROVE  Good(vm')
<1> DEFINE N == Len(G)
           t == G[N].ip + 1
           H == Turn(G, t)
           p == Pt(G, N)
           at == PointAt[G[N].fn]
           ups == Fns[Instr.a].ups
           S == {G[N].slots + q : q \in Captured(Fns[Instr.a])}
<1>1. Instr.op = "CLOSURE" /\ vm.status = "running"
  BY DEF ClosureOp, Executing
<1>2. PICK a, b, id : /\ a = Ahead /\ b = PushNew(a, [k |-> "closure", fn |-> Instr.a, ups |-> <<>>])
                      /\ vm' = Captures(b, id, ups)
  BY DEF ClosureOp, Becomes
<1>3. /\ Struct(a, G) /\ a.handlers = vm.handlers /\ N = Len(a.frames) /\ Last(a.frames).ip = t
      /\ Len(vm.handlers) = Upto(G, N) /\ a.runs = vm.runs /\ a.top = vm.top
      /\ a.status = vm.status
  BY <1>2, AheadStruct
<1>4. /\ p \in Points /\ t \in DOMAIN at /\ Agrees(After(Fns, Instr, p), at[t])
      /\ vm.top = G[N].slots + p.height - 1 /\ G[N].slots \in Int /\ vm.top \in Int
      /\ CapturesFit(Fns, Fns[G[N].fn], Instr, p)
  <2>1. t \in Targets(Instr, G[N].ip)
    BY <1>1 DEF Targets
  <2>2. Sound(Fns, Fns[G[N].fn], Instr, p)
    BY Here
  <2>3. CapturesFit(Fns, Fns[G[N].fn], Instr, p)
    BY <1>1, <2>2 DEF Sound
  <2> QED BY <2>1, <2>3, Here
<1>5. /\ at[t].height = p.height + 1 /\ p.open \union Captured(Fns[Instr.a]) \subseteq at[t].open
      /\ at[t].handlers = p.handlers
  <2>1. Growth(Instr) = 1
    BY <1>1 DEF Growth
  <2> HIDE DEF p, at, t
  <2>2. p.height \in Nat
    BY <1>4 DEF Points
  <2>3. /\ After(Fns, Instr, p).height = p.height + Growth(Instr)
        /\ After(Fns, Instr, p).handlers = p.handlers
        /\ After(Fns, Instr, p).open = p.open \union Captured(Fns[Instr.a])
    BY <1>1 DEF After, Point
  <2> QED BY <1>4, <2>1, <2>2, <2>3 DEF Agrees
<1>6. Views(G) /\ N \in DOMAIN G /\ Ready(a) /\ HandlersKept(a.handlers, a.runs, G)
  BY <1>3, StructFacts DEF Struct, Body
<1>7. Instr.a \in DOMAIN Fns /\ IsSeq(ups) /\ Len(ups) \in Nat /\ DOMAIN ups = 1 .. Len(ups)
  <2>1. Instr.a \in DOMAIN Fns
    BY <1>4 DEF CapturesFit
  <2>2. IsSeq(ups)
    BY <2>1 DEF SoundCode
  <2> QED BY <2>1, <2>2, SeqLen
<1>8. Quiet(a, b, a.top + 1)
  <2>1. Object([k |-> "closure", fn |-> Instr.a, ups |-> <<>>])
    BY <1>7 DEF Object
  <2>2. PICK o : o = [k |-> "closure", fn |-> Instr.a, ups |-> <<>>]
    OBVIOUS
  <2> QED BY <1>2, <1>6, <2>1, <2>2, PushNewQuiet
<1>9. Struct(b, G) /\ Ready(b) /\ b.top = vm.top + 1 /\ b.status = "running" /\ b.frames = a.frames
      /\ b.handlers = a.handlers /\ b.runs = a.runs
  <2>1. Struct(b, G) /\ Ready(b)
    BY <1>3, <1>8, CalmStruct DEF Quiet
  <2> QED BY <1>1, <1>3, <1>8, <2>1 DEF Quiet, Calm
<1>10. Capturing(b, b, S)
  <2>1. HeapGrows(b.heap, b.heap) /\ OpenKept(b.open, b.heap, b.frames, G)
    BY <1>9, GrowsRefl DEF Ready, Struct
  <2> QED BY <1>9, <2>1 DEF Capturing, OpenKept, Ready
<1>11. Frame(b).slots = G[N].slots
  BY <1>3, <1>6, <1>9 DEF Frame, Last, Struct, Body, Framed
<1>12. ASSUME NEW i \in 1 .. Len(ups), ups[i].isLocal
       PROVE  G[N].slots + ups[i].index \in S /\ G[N].slots + ups[i].index \in Int
  <2>1. ups[i].index \in Captured(Fns[Instr.a])
    BY <1>7, <1>12 DEF Captured
  <2>2. ups[i].index \in 0 .. p.height - 1
    BY <1>4, <1>7, <1>12 DEF CapturesFit
  <2> QED BY <1>4, <2>1, <2>2
<1>13. Capturing(b, vm', S)
  <2>1. PICK us, T : us = ups /\ T = S
    OBVIOUS
  <2>2. \A i \in 1 .. Len(us) : us[i].isLocal =>
            Frame(b).slots + us[i].index \in T /\ Frame(b).slots + us[i].index \in Int
    BY <1>11, <1>12, <2>1
  <2>3. Capturing(b, Captures(b, id, us), T)
    <3>1. Capturing(b, b, T) /\ Len(us) \in Nat
      BY <1>7, <1>10, <2>1
    <3> HIDE DEF S, ups
    <3> QED BY <1>9, <2>2, <3>1, CapturesKeep
  <2> QED BY <1>2, <2>1, <2>3
<1>14. PICK n : n = vm'
  OBVIOUS
<1>15. /\ Fields(n) /\ n.frames = b.frames /\ n.handlers = b.handlers /\ n.runs = b.runs
       /\ n.top = vm.top + 1 /\ n.status = "running" /\ HeapGrows(b.heap, n.heap)
  BY <1>9, <1>13, <1>14 DEF Capturing
<1>16. Body(n.frames, n.handlers, n.runs, n.heap, G)
  <2>1. Body(b.frames, b.handlers, b.runs, n.heap, G)
    BY <1>9, <1>15, GrownStruct DEF Struct
  <2> QED BY <1>15, <2>1
<1>17. Len(H) = N /\ DOMAIN H = DOMAIN G /\ H[N].slots = G[N].slots /\ Pt(H, N) = at[t]
  BY <1>4, <1>6, TurnViews
<1>18. OpenKept(n.open, n.heap, n.frames, H)
  <2>1. ASSUME NEW u \in n.open
        PROVE  Owned(n.heap[u].slot, n.frames, H)
    <3>1. CASE u \in b.open
      <4>1. u \in DOMAIN b.heap /\ b.heap[u].k = "upvalue" /\ Owned(b.heap[u].slot, b.frames, G)
        BY <1>9, <3>1 DEF Struct, OpenKept
      <4>2. Same(b.heap[u], n.heap[u])
        BY <1>15, <4>1 DEF HeapGrows
      <4>3. n.heap[u].slot = b.heap[u].slot
        BY <4>1, <4>2 DEF Same
      <4>4. PICK s, fs : s = n.heap[u].slot /\ fs = n.frames
        OBVIOUS
      <4>5. Owned(s, fs, G)
        BY <1>15, <4>1, <4>3, <4>4
      <4>6. s - G[N].slots \in Pt(G, N).open => s - G[N].slots \in PointAt[G[N].fn][t].open
        BY <1>5
      <4>7. Owned(s, fs, Turn(G, t))
        BY <1>4, <1>6, <4>5, <4>6, TurnOwned
      <4> QED BY <4>4, <4>7
    <3>2. CASE u \notin b.open
      <4>1. n.heap[u].slot \in S
        BY <1>13, <1>14, <3>2 DEF Capturing
      <4>2. PICK q \in Captured(Fns[Instr.a]) : n.heap[u].slot = G[N].slots + q
        BY <4>1
      <4>3. q \in Int
        <5>1. PICK i \in DOMAIN ups : q = ups[i].index /\ ups[i].isLocal
          BY <4>2 DEF Captured
        <5>2. q \in 0 .. p.height - 1
          BY <1>4, <5>1 DEF CapturesFit
        <5> QED BY <5>2
      <4>4. n.heap[u].slot - G[N].slots = q
        BY <1>4, <4>2, <4>3
      <4>5. n.heap[u].slot - H[N].slots \in Pt(H, N).open
        BY <1>5, <1>17, <4>2, <4>4
      <4> HIDE DEF H
      <4> QED BY <1>6, <1>17, <4>5 DEF Owned
    <3> QED BY <3>1, <3>2
  <2>2. Capturing(b, n, S)
    BY <1>13, <1>14
  <2> HIDE DEF H, S
  <2> QED BY <2>1, <2>2 DEF OpenKept, Capturing
<1>19. HandlersKept(n.handlers, n.runs, H) /\ Len(n.handlers) = Upto(H, Len(G))
  <2>1. PICK hs, rs : hs = n.handlers /\ rs = n.runs
    OBVIOUS
  <2>2. at[t].handlers = HandlersOf(G, N) /\ Len(hs) = Upto(G, N) /\ HandlersKept(hs, rs, G)
    BY <1>3, <1>5, <1>6, <1>9, <1>15, <2>1 DEF HandlersOf
  <2>3. HandlersKept(hs, rs, Turn(G, t)) /\ Upto(Turn(G, t), Len(G)) = Upto(G, Len(G))
    BY <1>4, <1>6, <2>2, TurnKept
  <2> QED BY <2>1, <2>2, <2>3
<1>20. Poised(n, H)
  <2>1. PICK hs : hs = n.handlers
    OBVIOUS
  <2>2. /\ Fields(n) /\ Body(n.frames, hs, n.runs, n.heap, G) /\ Len(G) = Len(n.frames)
        /\ Last(n.frames).ip = t
    BY <1>3, <1>9, <1>15, <1>16, <2>1
  <2> QED BY <1>4, <1>18, <1>19, <2>2, TurnStep
<1>21. n.top = Rest(H, Len(H))
  <2>1. p.height \in Nat
    BY <1>4 DEF Points
  <2> HIDE DEF H, p, t, at
  <2> QED BY <1>4, <1>5, <1>15, <1>17, <2>1 DEF Rest
<1>22. \E X : Running(n, X)
  BY <1>20, <1>21 DEF Running
<1> QED BY <1>14, <1>15, <1>22 DEF Good

(* --------------------------- the lower frames ---------------------------- *)

\* H has the first n views of G.
Lower(G, n, H) ==
    /\ n \in DOMAIN G /\ Views(H) /\ Len(H) = n /\ DOMAIN H = 1 .. n
    /\ \A i \in 1 .. n : /\ i \in DOMAIN G /\ H[i] = G[i] /\ HandlersOf(H, i) = HandlersOf(G, i)
                         /\ Upto(H, i) = Upto(G, i) /\ Rest(H, i) = Rest(G, i) /\ Pt(H, i) = Pt(G, i)

\* The first views of G.
LEMMA LowerViews ==
    ASSUME NEW G, Views(G), NEW n \in DOMAIN G
    PROVE  Lower(G, n, SubSeq(G, 1, n))
<1> DEFINE H == SubSeq(G, 1, n)
<1>1. IsSeq(G) /\ Len(G) \in Nat /\ DOMAIN G = 1 .. Len(G)
  BY SeqLen DEF Views
<1>2. n \in 1 .. Len(G) /\ n \in 0 .. Len(G)
  BY <1>1
<1>3. IsSeq(H) /\ Len(H) = n /\ DOMAIN H = 1 .. n /\ \A i \in 1 .. n : H[i] = G[i]
  BY <1>1, <1>2, SeqPrefix
<1> HIDE DEF H
<1>4. H # <<>>
  BY <1>2, <1>3, SeqLen
<1>5. \A i \in 1 .. n : i \in DOMAIN G
  BY <1>1, <1>2
<1>6. Views(H)
  BY <1>3, <1>4, <1>5 DEF Views
<1>7. ASSUME NEW i \in 1 .. n
      PROVE  /\ HandlersOf(H, i) = HandlersOf(G, i)
             /\ Upto(H, i) = Upto(G, i) /\ Rest(H, i) = Rest(G, i) /\ Pt(H, i) = Pt(G, i)
  <2>1. H[i] = G[i]
    BY <1>3
  <2> QED BY <2>1, SameView
<1>8. Lower(G, n, H)
  BY <1>3, <1>5, <1>6, <1>7 DEF Lower
<1> QED BY <1>8 DEF H

\* The runs of these frames.
RunsOf(G, runs, n, H, news) ==
    RunsFit(runs, G) /\ Lower(G, n, H) /\ news = SubSeq(runs, 1, G[n].run)

\* The runs of the first frames.
LEMMA LowerRuns ==
    ASSUME NEW G, Views(G), NEW runs, NEW n, NEW H, NEW news, RunsOf(G, runs, n, H, news)
    PROVE  /\ RunsFit(news, H) /\ \A i \in 1 .. n : news[H[i].run] = runs[G[i].run]
           /\ Last(news) = runs[G[n].run]
<1> DEFINE q == G[n].run
<1>0. RunsFit(runs, G) /\ Lower(G, n, H) /\ news = SubSeq(runs, 1, G[n].run)
  BY DEF RunsOf
<1>1. IsSeq(runs) /\ Len(runs) \in Nat /\ DOMAIN runs = 1 .. Len(runs)
  BY <1>0, SeqLen DEF RunsFit
<1>2. n \in DOMAIN G /\ DOMAIN G = 1 .. Len(G) /\ Len(G) \in Nat
  BY <1>0, SeqLen DEF Lower, Views
<1>3. q \in 1 .. Len(runs) /\ q \in 0 .. Len(runs)
  BY <1>0, <1>1, <1>2 DEF RunsFit
<1>4. IsSeq(news) /\ Len(news) = q /\ DOMAIN news = 1 .. q /\ \A j \in 1 .. q : news[j] = runs[j]
  BY <1>0, <1>1, <1>3, SeqPrefix
<1>5. news # <<>>
  BY <1>3, <1>4, SeqLen
<1>6. /\ \A i \in 1 .. n : i \in DOMAIN G /\ H[i] = G[i]
      /\ Len(H) = n /\ DOMAIN H = 1 .. n
  BY <1>0 DEF Lower
<1>7. \A j \in 1 .. q : j \in DOMAIN runs
  BY <1>1, <1>3
<1>8. /\ \A j \in DOMAIN runs : RunOK(runs[j]) /\ runs[j].base < Len(G) /\ (j > 1 => runs[j].kind # "script")
      /\ \A j, k \in DOMAIN runs : j < k => runs[j].base < runs[k].base
      /\ \A i \in DOMAIN G : G[i].run \in DOMAIN runs
      /\ \A i \in DOMAIN G, j \in DOMAIN runs : runs[j].base < i <=> j <= G[i].run
      /\ runs[1].kind = "script" /\ runs[1].base = 0
  BY <1>0 DEF RunsFit
<1>9. \A j \in 1 .. q : RunOK(news[j]) /\ news[j].base < n /\ (j > 1 => news[j].kind # "script")
  <2>1. \A j \in 1 .. q : runs[j].base < n
    BY <1>2, <1>3, <1>7, <1>8
  <2> QED BY <1>4, <1>7, <1>8, <2>1
<1>10. \A i \in 1 .. n : H[i].run \in 1 .. q
  <2> TAKE i \in 1 .. n
  <2>1. i \in DOMAIN G /\ G[i].run \in DOMAIN runs /\ i <= n /\ i \in Int /\ n \in Int
    BY <1>2, <1>6, <1>8
  <2>2. runs[G[i].run].base < i /\ runs[G[i].run].base \in Nat
    BY <1>1, <1>8, <2>1 DEF RunOK
  <2>3. runs[G[i].run].base < n
    BY <2>1, <2>2
  <2>4. G[i].run <= q
    BY <1>2, <1>8, <2>1, <2>3
  <2> QED BY <1>1, <1>6, <2>1, <2>4
<1>11. \A i \in DOMAIN H, j \in DOMAIN news : news[j].base < i <=> j <= H[i].run
  BY <1>4, <1>6, <1>7, <1>8
<1>12. RunsFit(news, H)
  <2>1. news[1].kind = "script" /\ news[1].base = 0
    BY <1>3, <1>4, <1>8
  <2>2. \A j, k \in 1 .. q : j < k => news[j].base < news[k].base
    BY <1>4, <1>7, <1>8
  <2> HIDE DEF q
  <2> QED BY <1>4, <1>5, <1>6, <1>9, <1>10, <1>11, <2>1, <2>2 DEF RunsFit
<1>13. Last(news) = runs[q]
  BY <1>3, <1>4 DEF Last
<1> QED BY <1>4, <1>6, <1>10, <1>12, <1>13

\* The parts of the stack of the first frames.
LEMMA LowerLinked ==
    ASSUME SoundCode, NEW G, Views(G), NEW runs, Linked(runs, G), NEW n, NEW H, Lower(G, n, H),
           NEW news, \A i \in 1 .. n : news[H[i].run] = runs[G[i].run]
    PROVE  Linked(news, H)
<1>1. /\ Len(H) = n /\ DOMAIN H = 1 .. n /\ n \in DOMAIN G
      /\ \A i \in 1 .. n : /\ i \in DOMAIN G /\ H[i] = G[i] /\ HandlersOf(H, i) = HandlersOf(G, i)
                           /\ Rest(H, i) = Rest(G, i)
  BY DEF Lower
<1>2. DOMAIN G = 1 .. Len(G) /\ Len(G) \in Nat
  BY SeqLen DEF Views
<1>3. \A i, j \in DOMAIN H : i < j => H[i].slots <= H[j].slots
  BY <1>1 DEF Linked
<1>4. ASSUME NEW i \in DOMAIN H, i < n
      PROVE  /\ Rest(H, i) = H[i + 1].slots - (IF H[i + 1].run = H[i].run THEN 0
                                               ELSE Offset(news[H[i + 1].run]))
             /\ HandlersOf(H, i) # <<>> => H[i].slots + Last(HandlersOf(H, i)).height - 1 < H[i + 1].slots
  <2>1. i \in 1 .. n /\ i + 1 \in 1 .. n /\ i < Len(G)
    BY <1>1, <1>2, <1>4
  <2>2. /\ H[i] = G[i] /\ H[i + 1] = G[i + 1] /\ HandlersOf(H, i) = HandlersOf(G, i) /\ Rest(H, i) = Rest(G, i)
        /\ i \in DOMAIN G /\ news[H[i + 1].run] = runs[G[i + 1].run]
    BY <1>1, <2>1
  <2> QED BY <2>1, <2>2 DEF Linked
<1> QED BY <1>1, <1>3, <1>4 DEF Linked

\* The handlers of the first frames, below those of later runs.
LEMMA LowerHandlers ==
    ASSUME SoundCode, NEW G, Views(G), NEW handlers, NEW runs, HandlersKept(handlers, runs, G),
           NEW n, NEW H, Lower(G, n, H),
           NEW rs, \A i \in 1 .. n : rs[H[i].run] = runs[G[i].run],
           NEW news, Over(news, HandlerType), Upto(G, n) <= Len(news),
           \A k \in 1 .. Upto(G, n) : news[k] = handlers[k],
           \A k \in Upto(G, n) + 1 .. Len(news) : news[k].base > Last(rs).base
    PROVE  HandlersKept(news, rs, H)
<1>1. /\ Len(H) = n /\ DOMAIN H = 1 .. n /\ n \in DOMAIN G
      /\ \A i \in 1 .. n : /\ i \in DOMAIN G /\ H[i] = G[i] /\ HandlersOf(H, i) = HandlersOf(G, i)
                           /\ Upto(H, i) = Upto(G, i)
  BY DEF Lower
<1>2. DOMAIN G = 1 .. Len(G) /\ Len(G) \in Nat /\ n \in 1 .. Len(G)
  BY <1>1, SeqLen DEF Views
<1>3. /\ G[1].below = 0
      /\ \A i \in DOMAIN G : i < Len(G) => G[i + 1].below = Upto(G, i)
      /\ \A i, j \in DOMAIN G : i < j => Upto(G, i) <= G[j].below
      /\ \A i \in DOMAIN G : \A k \in DOMAIN HandlersOf(G, i) :
            handlers[G[i].below + k] = Handler(runs, G, i, k)
      /\ \A k \in 1 .. Upto(G, Len(G)) : \E i \in DOMAIN G : k - G[i].below \in DOMAIN HandlersOf(G, i)
  BY DEF HandlersKept
<1>4. \A i \in DOMAIN G : /\ G[i].below \in Nat /\ Upto(G, i) \in Nat
                          /\ DOMAIN HandlersOf(G, i) = 1 .. Len(HandlersOf(G, i))
                          /\ Len(HandlersOf(G, i)) \in Nat
                          /\ Upto(G, i) = G[i].below + Len(HandlersOf(G, i))
  BY ViewFacts DEF Upto
<1>5. \A i \in 1 .. n : Upto(G, i) <= Upto(G, n)
  <2> TAKE i \in 1 .. n
  <2>1. CASE i = n
    BY <1>1, <1>4, <2>1
  <2>2. CASE i < n
    <3>1. Upto(G, i) <= G[n].below
      BY <1>1, <1>3, <2>2
    <3> QED BY <1>1, <1>4, <3>1
  <2> QED BY <1>2, <2>1, <2>2
<1>6. H[1].below = 0
  BY <1>1, <1>2, <1>3
<1>7. \A i \in DOMAIN H : i < n => H[i + 1].below = Upto(H, i)
  <2> TAKE i \in DOMAIN H
  <2> HAVE i < n
  <2>1. i \in 1 .. n /\ i + 1 \in 1 .. n /\ i < Len(G)
    BY <1>1, <1>2
  <2> QED BY <1>1, <1>3, <2>1
<1>8. \A i, j \in DOMAIN H : i < j => Upto(H, i) <= H[j].below
  BY <1>1, <1>3
<1>9. ASSUME NEW i \in DOMAIN H, NEW k \in DOMAIN HandlersOf(H, i)
      PROVE  news[H[i].below + k] = Handler(rs, H, i, k)
  <2>1. /\ i \in 1 .. n /\ i \in DOMAIN G /\ H[i] = G[i] /\ HandlersOf(H, i) = HandlersOf(G, i)
        /\ k \in DOMAIN HandlersOf(G, i)
    BY <1>1, <1>9
  <2>2. handlers[G[i].below + k] = Handler(runs, G, i, k)
    BY <1>3, <2>1
  <2>3. Handler(rs, H, i, k) = Handler(runs, G, i, k)
    <3>1. rs[H[i].run] = runs[G[i].run]
      BY <2>1
    <3> QED BY <2>1, <3>1 DEF Handler
  <2>4. G[i].below + k \in 1 .. Upto(G, n)
    <3>1. k \in 1 .. Len(HandlersOf(G, i)) /\ Upto(G, i) <= Upto(G, n) /\ Upto(G, n) \in Nat
      BY <1>1, <1>4, <1>5, <2>1
    <3> QED BY <1>4, <2>1, <3>1
  <2> QED BY <2>1, <2>2, <2>3, <2>4
<1>10. ASSUME NEW k \in 1 .. Upto(H, n)
       PROVE  \E i \in DOMAIN H : k - H[i].below \in DOMAIN HandlersOf(H, i)
  <2>1. n \in 1 .. n /\ Len(G) \in DOMAIN G
    BY <1>2
  <2>2. Upto(H, n) = Upto(G, n) /\ Upto(G, n) \in Nat /\ Upto(G, Len(G)) \in Nat
    BY <1>1, <1>4, <2>1
  <2>3. Upto(G, n) <= Upto(G, Len(G))
    <3>1. CASE n = Len(G)
      BY <2>2, <3>1
    <3>2. CASE n < Len(G)
      <4>1. Upto(G, n) <= G[Len(G)].below
        BY <1>1, <1>3, <2>1, <3>2
      <4> QED BY <1>1, <1>4, <2>1, <4>1
    <3>3. n = Len(G) \/ n < Len(G)
      <4>1. PICK l : l = Len(G)
        OBVIOUS
      <4>2. l \in Nat /\ n \in 1 .. l
        BY <1>2, <4>1
      <4>3. n = l \/ n < l
        BY <4>2
      <4> QED BY <4>1, <4>3
    <3> QED BY <3>1, <3>2, <3>3
  <2>4. k \in 1 .. Upto(G, n) /\ k \in 1 .. Upto(G, Len(G))
    BY <2>2, <2>3
  <2>5. PICK i \in DOMAIN G : k - G[i].below \in DOMAIN HandlersOf(G, i)
    BY <1>3, <2>4
  <2>6. ~(n < i)
    <3>1. ASSUME n < i PROVE FALSE
      <4>1. Upto(G, n) <= G[i].below
        BY <1>1, <1>3, <3>1
      <4>2. k - G[i].below >= 1 /\ k <= Upto(G, n)
        BY <1>4, <2>4, <2>5
      <4> QED BY <1>1, <1>4, <2>4, <4>1, <4>2
    <3> QED BY <3>1
  <2>7. i \in 1 .. n
    BY <1>2, <2>6
  <2> QED BY <1>1, <2>5, <2>7
<1>11. Upto(H, n) = Upto(G, n)
  BY <1>1, <1>2
<1> QED BY <1>1, <1>6, <1>7, <1>8, <1>9, <1>10, <1>11 DEF HandlersKept

\* The frames that are left, all of them or the first n.
LEMMA LowerFramed ==
    ASSUME SoundCode, NEW G, Views(G), NEW frames, NEW heap, NEW runs, Framed(frames, heap, G),
           Linked(runs, G), NEW n, NEW H, Lower(G, n, H)
    PROVE  /\ Framed(SubSeq(frames, 1, n), heap, H) /\ Len(SubSeq(frames, 1, n)) = n
           /\ Last(SubSeq(frames, 1, n)) = frames[n]
           /\ n < Len(G) => Framed(frames, heap, H) /\ frames[n + 1].slots = G[n + 1].slots
<1> DEFINE fs == SubSeq(frames, 1, n)
<1>1. /\ Len(H) = n /\ DOMAIN H = 1 .. n /\ n \in DOMAIN G
      /\ \A i \in 1 .. n : i \in DOMAIN G /\ H[i] = G[i]
  BY DEF Lower
<1>2. DOMAIN G = 1 .. Len(G) /\ Len(G) \in Nat /\ n \in 1 .. Len(G)
  BY <1>1, SeqLen DEF Views
<1>3. Over(frames, FrameType) /\ IsSeq(frames) /\ Len(G) <= Len(frames) /\ Len(frames) \in Nat
  BY SeqLen DEF Framed, Over
<1>4. n \in 0 .. Len(frames)
  BY <1>2, <1>3
<1>5. Over(fs, FrameType)
  BY <1>3, <1>4, OverPrefix
<1>6. Len(fs) = n /\ \A i \in 1 .. n : fs[i] = frames[i]
  BY <1>3, <1>4, SeqPrefix
<1> HIDE DEF fs
<1>7. \A i \in 1 .. n : /\ frames[i].slots = H[i].slots
                        /\ frames[i].closure \in DOMAIN heap
                        /\ heap[frames[i].closure].k = "closure" /\ heap[frames[i].closure].fn = H[i].fn
                        /\ i < n => frames[i].ip = H[i].ip
  <2> TAKE i \in 1 .. n
  <2>1. i \in DOMAIN G /\ H[i] = G[i] /\ (i < n => i < Len(G))
    BY <1>1, <1>2
  <2> QED BY <2>1 DEF Framed
<1>8. Framed(fs, heap, H)
  BY <1>1, <1>5, <1>6, <1>7 DEF Framed
<1>9. Last(fs) = frames[n]
  BY <1>2, <1>6 DEF Last
<1>10. ASSUME n < Len(G)
       PROVE  Framed(frames, heap, H) /\ frames[n + 1].slots = G[n + 1].slots
  <2>1. n + 1 \in DOMAIN G /\ n < n + 1 /\ n \in 1 .. n
    BY <1>2, <1>10
  <2>2. frames[n + 1].slots = G[n + 1].slots /\ G[n].slots <= G[n + 1].slots /\ H[n] = G[n]
    BY <1>1, <2>1 DEF Framed, Linked
  <2>3. Len(H) <= Len(frames) /\ Len(H) < Len(frames)
    BY <1>1, <1>2, <1>3, <1>10
  <2> QED BY <1>1, <1>3, <1>7, <2>2, <2>3 DEF Framed
<1> QED BY <1>6, <1>8, <1>9, <1>10 DEF fs

\* Open upvalues of the lower frames.
Leaving(G, frames, heap, runs, n, H, slot) ==
    /\ Views(G) /\ Framed(frames, heap, G) /\ Linked(runs, G) /\ Lower(G, n, H)
    /\ slot \in Int /\ Owned(slot, frames, G)
\* An open upvalue belongs to a lower frame, or is above the slots of a later
\* one.
LEMMA LowerOwned ==
    ASSUME SoundCode, NEW G, NEW frames, NEW heap, NEW runs, NEW n, NEW H, NEW slot,
           Leaving(G, frames, heap, runs, n, H, slot)
    PROVE  /\ n < Len(G) => Owned(slot, frames, H)
           /\ (\A j \in n + 1 .. Len(frames) : slot < frames[j].slots)
                 => \E i \in DOMAIN H : slot - H[i].slots \in Pt(H, i).open
<1>0. /\ Views(G) /\ Framed(frames, heap, G) /\ Linked(runs, G) /\ Lower(G, n, H)
      /\ slot \in Int /\ Owned(slot, frames, G)
  BY DEF Leaving
<1>1. /\ Len(H) = n /\ DOMAIN H = 1 .. n /\ n \in DOMAIN G
      /\ \A i \in 1 .. n : i \in DOMAIN G /\ H[i] = G[i] /\ Pt(H, i) = Pt(G, i)
  BY <1>0 DEF Lower
<1>2. DOMAIN G = 1 .. Len(G) /\ Len(G) \in Nat /\ n \in 1 .. Len(G)
  BY <1>0, <1>1, SeqLen DEF Views
<1>3. Over(frames, FrameType) /\ Len(G) <= Len(frames) /\ Len(frames) \in Nat /\ DOMAIN frames = 1 .. Len(frames)
  BY <1>0, SeqLen DEF Framed, Over
<1>4. \A i \in DOMAIN G : G[i].slots \in Int /\ \A q \in Pt(G, i).open : q \in Nat
  BY <1>0, ViewFacts DEF Points
<1>5. \A i, j \in DOMAIN G : i < j => G[i].slots <= G[j].slots
  BY <1>0 DEF Linked
<1>6. CASE Len(G) < Len(frames) /\ slot >= frames[Len(G) + 1].slots
  <2>1. Len(G) + 1 \in n + 1 .. Len(frames) /\ Len(G) + 1 \in DOMAIN frames
    BY <1>2, <1>3, <1>6
  <2>2. frames[Len(G) + 1].slots \in Int
    BY <1>3, <2>1 DEF Over, FrameType
  <2>3. ~(\A j \in n + 1 .. Len(frames) : slot < frames[j].slots)
    BY <1>0, <1>6, <2>1, <2>2
  <2>4. ASSUME n < Len(G)
        PROVE  Owned(slot, frames, H)
    <3>1. n + 1 \in DOMAIN G /\ Len(G) \in DOMAIN G /\ n + 1 <= Len(G)
      BY <1>2, <2>4
    <3>2. G[n + 1].slots <= G[Len(G)].slots
      <4>1. CASE n + 1 = Len(G)
        BY <1>4, <3>1, <4>1
      <4>2. CASE n + 1 # Len(G)
        <5>1. PICK l : l = Len(G)
          OBVIOUS
        <5>2. l \in Nat /\ n \in 1 .. l /\ n + 1 <= l /\ n + 1 # l
          BY <1>2, <3>1, <4>2, <5>1
        <5>3. n + 1 < l
          BY <5>2
        <5> QED BY <1>5, <3>1, <5>1, <5>3
      <4> QED BY <4>1, <4>2
    <3>3. frames[n + 1].slots = G[n + 1].slots /\ G[Len(G)].slots <= frames[Len(G) + 1].slots
      BY <1>0, <1>6, <3>1 DEF Framed
    <3>4. slot >= frames[n + 1].slots
      BY <1>0, <1>4, <1>6, <2>2, <3>1, <3>2, <3>3
    <3> QED BY <1>1, <1>2, <1>3, <2>4, <3>4 DEF Owned
  <2> QED BY <2>3, <2>4
<1>7. CASE \E i \in DOMAIN G : slot - G[i].slots \in Pt(G, i).open
  <2>1. PICK i \in DOMAIN G : slot - G[i].slots \in Pt(G, i).open
    BY <1>7
  <2>2. CASE i <= n
    <3>1. i \in 1 .. n
      BY <1>2, <2>2
    <3>2. slot - H[i].slots \in Pt(H, i).open /\ i \in DOMAIN H
      BY <1>1, <2>1, <3>1
    <3> QED BY <3>2 DEF Owned
  <2>3. CASE ~(i <= n)
    <3>1. slot - G[i].slots \in Nat /\ G[i].slots \in Int
      BY <1>0, <1>4, <2>1
    <3>2. slot >= G[i].slots
      BY <1>0, <3>1
    <3>3. frames[i].slots = G[i].slots /\ i \in n + 1 .. Len(frames) /\ n + 1 \in DOMAIN G /\ n + 1 <= i
          /\ n < Len(G)
      BY <1>0, <1>2, <1>3, <2>3 DEF Framed
    <3>4. ~(\A j \in n + 1 .. Len(frames) : slot < frames[j].slots)
      BY <1>0, <3>1, <3>2, <3>3
    <3>5. G[n + 1].slots <= G[i].slots
      <4>1. CASE n + 1 = i
        BY <1>4, <4>1
      <4>2. CASE n + 1 # i
        BY <1>2, <1>5, <3>3, <4>2
      <4> QED BY <4>1, <4>2
    <3>6. frames[n + 1].slots = G[n + 1].slots
      BY <1>0, <3>3 DEF Framed
    <3>7. slot >= frames[n + 1].slots
      BY <1>0, <1>4, <3>2, <3>3, <3>5, <3>6
    <3>8. Len(H) < Len(frames)
      BY <1>1, <1>2, <1>3, <3>3
    <3> QED BY <1>1, <3>4, <3>7, <3>8 DEF Owned
  <2> QED BY <2>2, <2>3
<1> QED BY <1>0, <1>6, <1>7 DEF Owned

\* What stays open when the frames above are closed.
Closing(G, n, H, frames, heap, open, low, keep, g) ==
    /\ Lower(G, n, H) /\ Framed(frames, heap, G) /\ OpenKept(open, heap, frames, G) /\ low \in Int
    /\ \A j \in n + 1 .. Len(frames) : low <= frames[j].slots
    /\ keep = {u \in open : ~(heap[u].slot >= low)} /\ Shut(heap, g, keep)

\* They are of the lower frames.
LEMMA LowerOpen ==
    ASSUME SoundCode, NEW G, Views(G), NEW runs, Linked(runs, G),
           NEW n, NEW H, NEW frames, NEW heap, NEW open, NEW low, NEW keep, NEW g,
           HeapOK(heap), Closing(G, n, H, frames, heap, open, low, keep, g)
    PROVE  /\ \A fs : OpenKept(keep, g, fs, H)
           /\ \A u \in keep : g[u].slot \in Int /\ g[u].slot < low
<1>0. /\ Lower(G, n, H) /\ Framed(frames, heap, G) /\ OpenKept(open, heap, frames, G) /\ low \in Int
      /\ \A j \in n + 1 .. Len(frames) : low <= frames[j].slots
      /\ keep = {u \in open : ~(heap[u].slot >= low)} /\ Shut(heap, g, keep)
  BY DEF Closing
<1>1. ASSUME NEW fs, NEW u \in keep
      PROVE  /\ u \in DOMAIN g /\ g[u].k = "upvalue" /\ g[u].open /\ g[u].slot = heap[u].slot
             /\ Owned(g[u].slot, fs, H) /\ g[u].slot \in Int /\ g[u].slot < low
  <2>1. /\ u \in open /\ u \in DOMAIN heap /\ heap[u].k = "upvalue" /\ heap[u].open
        /\ Owned(heap[u].slot, frames, G) /\ ~(heap[u].slot >= low)
    BY <1>0 DEF OpenKept
  <2>2. heap[u].slot \in Int
    BY <2>1 DEF HeapOK, Object
  <2>3. g[u] = heap[u] /\ u \in DOMAIN g
    BY <1>0, <2>1 DEF Shut
  <2>4. PICK s : s = heap[u].slot
    OBVIOUS
  <2>5. s \in Int /\ s < low /\ Owned(s, frames, G)
    BY <1>0, <2>1, <2>2, <2>4
  <2>6. \A j \in n + 1 .. Len(frames) : s < frames[j].slots
    <3>1. Over(frames, FrameType) /\ DOMAIN frames = 1 .. Len(frames) /\ Len(frames) \in Nat
      BY <1>0, SeqLen DEF Framed, Over
    <3>2. n \in Nat
      <4>1. n \in DOMAIN G /\ DOMAIN G = 1 .. Len(G)
        BY <1>0, SeqLen DEF Lower, Views
      <4> QED BY <4>1
    <3> TAKE j \in n + 1 .. Len(frames)
    <3>3. j \in DOMAIN frames
      BY <3>1, <3>2
    <3>4. frames[j].slots \in Int
      BY <3>1, <3>3 DEF Over, FrameType
    <3> QED BY <1>0, <2>5, <3>4
  <2>7. \E i \in DOMAIN H : s - H[i].slots \in Pt(H, i).open
    <3>1. Leaving(G, frames, heap, runs, n, H, s)
      BY <1>0, <2>5 DEF Leaving
    <3> QED BY <2>6, <3>1, LowerOwned
  <2>8. Owned(s, fs, H)
    BY <2>7 DEF Owned
  <2> QED BY <2>1, <2>3, <2>4, <2>5, <2>8
<1>2. \A u, w \in keep : g[u].slot = g[w].slot => u = w
  <2>1. \A u \in keep : g[u].slot = heap[u].slot /\ u \in open
    BY <1>0, <1>1
  <2> QED BY <1>0, <2>1 DEF OpenKept
<1> QED BY <1>1, <1>2 DEF OpenKept

(* -------------------------- the end of a frame --------------------------- *)

\* What the C caller of a vm_run does with its result.
LEMMA EntersTrans ==
    ASSUME NEW m, NEW k, NEW n, NEW t, NEW s, NEW u, Ready(m), Quiet(m, k, u), Enters(k, n, t, s)
    PROVE  Enters(m, n, t, s)
BY SettlesTrans, EnteredTrans DEF Enters, Quiet

\* What the C caller of a vm_run does with a result.
LEMMA ResumedEnters ==
    ASSUME code = Fns, NEW m, Ready(m), m.status = "running", m.top \in Int, Len(m.frames) \in Nat,
           NEW r, RunOK(r), r.kind # "script", NEW result, NEW n, n = Resumed(m, r, result)
    PROVE  Enters(m, n, m.top + 1 - Offset(r), m.top + 1)
<1>1. Offset(r) \in Nat /\ r.argc \in Nat /\ r.kind \in Kinds
  BY OffsetNat DEF RunOK
<1>2. CASE r.kind = "gen"
  <2>1. PICK c, v : c = [m EXCEPT !.collector = r.i] /\ v = VRef(m.collector)
    OBVIOUS
  <2>2. n = Push(c, v) /\ Offset(r) = 0
    BY <1>2, <2>1 DEF Resumed, Offset
  <2>3. Quiet(m, c, m.top)
    BY <2>1, OtherQuiet
  <2>4. Ready(c) /\ c.top = m.top
    BY <2>3, CalmReady DEF Quiet
  <2>5. Quiet(c, n, c.top + 1)
    BY <2>2, <2>4, PushQuiet
  <2>6. Quiet(m, n, m.top + 1 - Offset(r))
    BY <2>2, <2>3, <2>4, <2>5, QuietTrans
  <2> QED BY <2>6, QuietSettles DEF Enters
<1>3. CASE r.kind \in {"==", "!="}
  <2>1. PICK v : n = Push(m, v)
    BY <1>3 DEF Resumed
  <2>2. Offset(r) = 0
    BY <1>3 DEF Offset
  <2>3. Quiet(m, n, m.top + 1 - Offset(r))
    BY <2>1, <2>2, PushQuiet
  <2> QED BY <2>3, QuietSettles DEF Enters
<1>4. CASE r.kind = "set"
  <2>1. n = m /\ Offset(r) = 1
    BY <1>4 DEF Resumed, Offset
  <2>2. Quiet(m, n, m.top + 1 - Offset(r))
    BY <2>1, CalmRefl DEF Quiet
  <2> QED BY <2>2, QuietSettles DEF Enters
<1>5. CASE r.kind = "len"
  <2>1. n = Replace(m, 2, result) /\ Offset(r) = 2
    BY <1>5 DEF Resumed, Offset
  <2>2. Quiet(m, n, m.top + 1 - Offset(r))
    <3>1. Quiet(m, n, m.top - 2 + 1)
      BY <2>1, ReplaceQuiet
    <3>2. m.top - 2 + 1 = m.top + 1 - Offset(r)
      BY <2>1
    <3> QED BY <3>1, <3>2
  <2> QED BY <2>2, QuietSettles DEF Enters
<1>6. CASE r.kind = "reduce"
  <2>1. PICK q : q = [r EXCEPT !.acc = result]
    OBVIOUS
  <2>2. RunOK(q) /\ q.kind \in Folds /\ Offset(q) = Offset(r)
    BY <1>6, <2>1 DEF RunOK, Offset, Folds
  <2>3. n = FoldStep(m, q)
    BY <1>6, <2>1 DEF Resumed
  <2>4. Enters(m, n, m.top - Offset(q) + 1, m.top + 1)
    BY <2>2, <2>3, FoldStepGoes
  <2>5. m.top - Offset(q) + 1 = m.top + 1 - Offset(r)
    BY <1>1, <2>2
  <2> QED BY <2>4, <2>5
<1>7. CASE r.kind \in {"map", "filter"}
  <2>1. PICK a, add, x, h, k : /\ a = r.acc[2]
                               /\ x = Append(m.heap[a].es, add)
                               /\ h = [m.heap EXCEPT ![a].es = x]
                               /\ k = [m EXCEPT !.heap = h]
                               /\ add = (IF r.kind = "map" THEN result ELSE r.item)
    OBVIOUS
  <2>2. n = FoldStep(k, r) \/ n = FoldStep(m, r)
    BY <1>7, <2>1 DEF Resumed
  <2>3. Quiet(m, k, m.top)
    <3>1. HeapOK(m.heap)
      BY DEF Ready
    <3>2. ASSUME a \in DOMAIN m.heap, m.heap[a].k = "list"
          PROVE  IsSeq(x)
      <4>1. IsSeq(m.heap[a].es)
        BY <3>1, <3>2 DEF HeapOK, Object
      <4> QED BY <2>1, <4>1, SeqAppend
    <3>3. HeapGrows(m.heap, h)
      BY <2>1, <3>1, <3>2, GrowsField
    <3> QED BY <2>1, <3>3, HeapQuiet
  <2>4. Ready(k) /\ k.top = m.top /\ k.status = "running" /\ k.frames = m.frames
    BY <2>3, CalmReady DEF Quiet, Calm
  <2>5. r.kind \in Folds
    BY <1>7 DEF Folds
  <2>6. m.top - Offset(r) + 1 = m.top + 1 - Offset(r)
    BY <1>1
  <2>7. CASE n = FoldStep(m, r)
    <3>1. Enters(m, n, m.top - Offset(r) + 1, m.top + 1)
      BY <2>5, <2>7, FoldStepGoes
    <3> QED BY <2>6, <3>1
  <2>8. CASE n = FoldStep(k, r)
    <3>1. Enters(k, n, k.top - Offset(r) + 1, k.top + 1)
      BY <2>4, <2>5, <2>8, FoldStepGoes
    <3>2. Enters(k, n, m.top + 1 - Offset(r), m.top + 1)
      BY <2>4, <2>6, <3>1
    <3> QED BY <2>3, <3>2, EntersTrans
  <2> QED BY <2>2, <2>7, <2>8
<1>8. r.kind = "gen" \/ r.kind \in {"==", "!="} \/ r.kind = "set" \/ r.kind = "len" \/ r.kind = "reduce"
      \/ r.kind \in {"map", "filter"}
  BY <1>1 DEF Kinds
<1> QED BY <1>2, <1>3, <1>4, <1>5, <1>6, <1>7, <1>8

\* What happens at a poised machine below.
LEMMA EntersGood ==
    ASSUME SoundCode, NEW m, NEW n, NEW G, Poised(m, G), NEW t, t = Rest(G, Len(G)), NEW s, Enters(m, n, t, s),
           HandlersOf(G, Len(G)) # <<>> => G[Len(G)].slots + Last(HandlersOf(G, Len(G))).height - 1 < s
    PROVE  Good(n)
BY SettlesGood, EnteredGood DEF Enters

\* The run of a lower frame: the last one, or the one before.
LEMMA RunBelow ==
    ASSUME NEW G, Views(G), NEW runs, RunsFit(runs, G), NEW n \in DOMAIN G
    PROVE  /\ Last(runs).base < n => G[n].run = Len(runs) /\ SubSeq(runs, 1, G[n].run) = runs
           /\ Last(runs).base = n => /\ Len(runs) > 1 /\ G[n].run = Len(runs) - 1
                                     /\ SubSeq(runs, 1, G[n].run) = Front(runs)
                                     /\ Last(runs).kind # "script"
           /\ Last(runs).base \in Nat /\ Last(runs).base < Len(G) /\ RunOK(Last(runs))
<1>1. IsSeq(runs) /\ runs # <<>>
  BY DEF RunsFit
<1>2. /\ Last(runs) = runs[Len(runs)] /\ Len(runs) \in Nat \ {0} /\ DOMAIN runs = 1 .. Len(runs)
      /\ Front(runs) = SubSeq(runs, 1, Len(runs) - 1) /\ Len(runs) \in DOMAIN runs
  BY <1>1, SeqFront, SeqLen
<1>3. /\ n \in Nat \ {0} /\ G[n].run \in 1 .. Len(runs)
      /\ \A j \in 1 .. Len(runs) : runs[j].base < n <=> j <= G[n].run
      /\ \A j \in 1 .. Len(runs) : RunOK(runs[j]) /\ runs[j].base < Len(G) /\ (j > 1 => runs[j].kind # "script")
      /\ \A j, k \in 1 .. Len(runs) : j < k => runs[j].base < runs[k].base
      /\ runs[1].base = 0
  <2>1. IsSeq(G)
    BY DEF Views
  <2>2. DOMAIN G = 1 .. Len(G) /\ Len(G) \in Nat
    BY <2>1, SeqLen
  <2>3. /\ \A j \in DOMAIN runs : runs[j].base < n <=> j <= G[n].run
        /\ G[n].run \in DOMAIN runs /\ runs[1].base = 0
        /\ \A j \in DOMAIN runs : RunOK(runs[j]) /\ runs[j].base < Len(G) /\ (j > 1 => runs[j].kind # "script")
        /\ \A j, k \in DOMAIN runs : j < k => runs[j].base < runs[k].base
    BY DEF RunsFit
  <2>4. n \in Nat \ {0}
    BY <2>2
  <2> QED BY <1>2, <2>3, <2>4
<1>4. RunOK(Last(runs)) /\ Last(runs).base \in Nat /\ Last(runs).base < Len(G)
  BY <1>2, <1>3 DEF RunOK
<1>5. SubSeq(runs, 1, Len(runs)) = runs
  <2>1. PICK S : runs \in Seq(S)
    BY <1>1 DEF IsSeq
  <2> QED BY <2>1
<1>6. ASSUME Last(runs).base < n
      PROVE  G[n].run = Len(runs) /\ SubSeq(runs, 1, G[n].run) = runs
  <2>1. Len(runs) <= G[n].run
    BY <1>2, <1>3, <1>6
  <2>2. G[n].run = Len(runs)
    BY <1>2, <1>3, <2>1
  <2> QED BY <1>5, <2>2
<1>7. ASSUME Last(runs).base = n
      PROVE  /\ Len(runs) > 1 /\ G[n].run = Len(runs) - 1
             /\ SubSeq(runs, 1, G[n].run) = Front(runs) /\ Last(runs).kind # "script"
  <2>1. Len(runs) # 1
    BY <1>2, <1>3, <1>7
  <2>2. Len(runs) > 1 /\ Len(runs) - 1 \in 1 .. Len(runs) /\ Len(runs) - 1 < Len(runs)
    BY <1>2, <2>1
  <2>3. runs[Len(runs) - 1].base < n
    BY <1>2, <1>3, <1>7, <2>2
  <2>4. Len(runs) - 1 <= G[n].run
    BY <1>3, <2>2, <2>3
  <2>5. ~(Len(runs) <= G[n].run)
    <3>1. ~(runs[Len(runs)].base < n)
      BY <1>2, <1>3, <1>7
    <3> QED BY <1>2, <1>3, <3>1
  <2>6. G[n].run = Len(runs) - 1
    <3>1. PICK l, g : l = Len(runs) /\ g = G[n].run
      OBVIOUS
    <3>2. l \in Nat /\ g \in Nat /\ l - 1 <= g /\ ~(l <= g)
      BY <1>2, <1>3, <2>4, <2>5, <3>1
    <3>3. g = l - 1
      BY <3>2
    <3> QED BY <3>1, <3>3
  <2>7. Last(runs).kind # "script"
    BY <1>2, <1>3, <2>2
  <2> QED BY <1>2, <2>2, <2>6, <2>7
<1> QED BY <1>4, <1>6, <1>7

\* What OP_RETURN and OP_YIELD start with.
LEMMA EndFacts ==
    ASSUME SoundCode, NEW G, code = Fns, Running(vm, G),
           NEW c, c = CloseUpvalues(Drop(Ahead, 1), G[Len(G)].slots)
    PROVE  /\ Ready(c) /\ c.frames = Ahead.frames /\ c.handlers = vm.handlers /\ c.runs = vm.runs
           /\ c.top = vm.top - 1 /\ c.status = vm.status /\ Len(c.frames) = Len(G)
           /\ c.open = {u \in vm.open : ~(vm.heap[u].slot >= G[Len(G)].slots)}
           /\ Shut(vm.heap, c.heap, c.open)
<1>1. PICK a, d, p : a = Ahead /\ d = Drop(a, 1) /\ p = G[Len(G)].slots
  OBVIOUS
<1>2. /\ Struct(a, G) /\ Len(G) = Len(a.frames) /\ a.handlers = vm.handlers /\ a.runs = vm.runs
      /\ a.open = vm.open /\ a.heap = vm.heap /\ a.top = vm.top /\ a.status = vm.status
  BY <1>1, AheadStruct
<1>3. Ready(a)
  BY <1>2, StructFacts
<1>4. Quiet(a, d, a.top - 1) /\ d.heap = a.heap
  BY <1>1, <1>3, DropQuiet DEF Drop, Ready, Fields
<1>5. Ready(d)
  BY <1>3, <1>4, CalmReady DEF Quiet
<1>6. c = CloseUpvalues(d, p)
  BY <1>1
<1>7. /\ Ready(c) /\ c.frames = d.frames /\ c.handlers = d.handlers /\ c.runs = d.runs
      /\ c.top = d.top /\ c.status = d.status
      /\ c.open = {u \in d.open : ~(d.heap[u].slot >= p)} /\ Shut(d.heap, c.heap, c.open)
  BY <1>5, <1>6, CloseFacts
<1> QED BY <1>1, <1>2, <1>4, <1>7 DEF Quiet, Calm

\* The machine without the last frame.
LEMMA FrameEnds ==
    ASSUME SoundCode, NEW G, code = Fns, Running(vm, G), HandlersOf(G, Len(G)) = <<>>, Len(G) >= 2,
           NEW c, c = CloseUpvalues(Drop(Ahead, 1), G[Len(G)].slots),
           NEW n, n = Len(G) - 1, NEW m, Fields(m), m.frames = Front(c.frames), m.handlers = c.handlers,
           m.heap = c.heap, m.open = c.open, m.runs = SubSeq(c.runs, 1, G[n].run)
    PROVE  /\ Poised(m, SubSeq(G, 1, n)) /\ Lower(G, n, SubSeq(G, 1, n)) /\ Len(m.frames) = n /\ n \in Nat
<1>1. /\ Ready(c) /\ c.frames = Ahead.frames /\ c.handlers = vm.handlers /\ c.runs = vm.runs
      /\ Len(c.frames) = Len(G)
      /\ c.open = {u \in vm.open : ~(vm.heap[u].slot >= G[Len(G)].slots)}
      /\ Shut(vm.heap, c.heap, c.open)
  BY EndFacts
<1>2. PICK frames, handlers, runs, heap, open, g, keep, low :
          /\ frames = Ahead.frames /\ handlers = vm.handlers /\ runs = vm.runs /\ heap = vm.heap
          /\ open = vm.open /\ g = c.heap /\ keep = c.open /\ low = G[Len(G)].slots
  OBVIOUS
<1>3. Body(frames, handlers, runs, heap, G) /\ OpenKept(open, heap, frames, G) /\ Len(frames) = Len(G)
      /\ Len(handlers) = Upto(G, Len(G))
  BY <1>2, AheadStruct
<1>4. /\ Views(G) /\ Framed(frames, heap, G) /\ RunsFit(runs, G) /\ Linked(runs, G) /\ HeapOK(heap)
      /\ HandlersKept(handlers, runs, G)
  BY <1>3 DEF Body
<1>5. IsSeq(G) /\ Len(G) \in Nat /\ DOMAIN G = 1 .. Len(G)
  BY <1>4, SeqLen DEF Views
<1>6. n \in DOMAIN G /\ n \in Nat \ {0} /\ n < Len(G) /\ n + 1 = Len(G) /\ Len(G) \in DOMAIN G
  BY <1>5
<1>7. PICK H : H = SubSeq(G, 1, n)
  OBVIOUS
<1>8. Lower(G, n, H)
  BY <1>4, <1>6, <1>7, LowerViews
<1>9. Shut(heap, g, keep) /\ keep = {u \in open : ~(heap[u].slot >= low)} /\ low \in Int
  BY <1>1, <1>2, <1>4, <1>6, ViewFacts
<1>10. Body(frames, handlers, runs, g, G)
  BY <1>3, <1>9, ShutBody
<1>11. PICK fs, rs : fs = SubSeq(frames, 1, n) /\ rs = SubSeq(runs, 1, G[n].run)
  OBVIOUS
<1>12. RunsFit(rs, H) /\ (\A i \in 1 .. n : rs[H[i].run] = runs[G[i].run])
  <2>1. RunsOf(G, runs, n, H, rs)
    BY <1>4, <1>8, <1>11 DEF RunsOf
  <2> QED BY <1>4, <2>1, LowerRuns
<1>13. Linked(rs, H)
  BY <1>4, <1>8, <1>12, LowerLinked
<1>14. Framed(fs, g, H) /\ Len(fs) = n /\ Last(fs) = frames[n]
  <2>1. Framed(frames, g, G)
    BY <1>10 DEF Body
  <2> QED BY <1>4, <1>8, <1>11, <2>1, LowerFramed
<1>15. Upto(G, n) = Len(handlers)
  <2>1. G[Len(G)].below = Upto(G, n)
    BY <1>4, <1>6 DEF HandlersKept
  <2>2. Len(HandlersOf(G, Len(G))) = 0 /\ G[Len(G)].below \in Nat
    BY <1>4, <1>6, ViewFacts
  <2> QED BY <1>3, <2>1, <2>2 DEF Upto
<1>16. HandlersKept(handlers, rs, H)
  <2>1. Over(handlers, HandlerType) /\ Len(handlers) \in Nat
    BY <1>4, SeqLen DEF HandlersKept, Over
  <2>2. Upto(G, n) <= Len(handlers) /\ Upto(G, n) + 1 .. Len(handlers) = {}
    BY <1>15, <2>1
  <2>3. \A k \in Upto(G, n) + 1 .. Len(handlers) : handlers[k].base > Last(rs).base
    BY <2>2
  <2> QED BY <1>4, <1>8, <1>12, <2>1, <2>2, <2>3, LowerHandlers
<1>17. OpenKept(keep, g, fs, H)
  <2>1. \A j \in n + 1 .. Len(frames) : low <= frames[j].slots
    <3>1. frames[Len(G)].slots = low
      BY <1>2, <1>4, <1>6 DEF Framed
    <3>2. \A j \in n + 1 .. Len(frames) : j = Len(G)
      BY <1>3, <1>6
    <3> QED BY <1>9, <3>1, <3>2
  <2>2. Closing(G, n, H, frames, heap, open, low, keep, g)
    BY <1>3, <1>4, <1>8, <1>9, <2>1 DEF Closing
  <2> QED BY <1>4, <2>2, LowerOpen
<1>18. m.frames = fs
  <2>1. frames # <<>> /\ IsSeq(frames)
    <3>1. Over(frames, FrameType) /\ IsSeq(frames)
      BY <1>4 DEF Framed, Over
    <3> QED BY <1>3, <1>6, <3>1, SeqLen
  <2>2. Front(frames) = SubSeq(frames, 1, Len(frames) - 1)
    BY <2>1, SeqFront
  <2> QED BY <1>1, <1>2, <1>3, <1>11, <2>2
<1>19. HeapOK(g) /\ Views(H) /\ Len(H) = n
  BY <1>8, <1>9 DEF Shut, Lower
<1>20. Struct(m, H)
  <2>1. m.handlers = handlers /\ m.runs = rs /\ m.heap = g /\ m.open = keep
    BY <1>1, <1>2, <1>11
  <2> QED BY <1>12, <1>13, <1>14, <1>16, <1>17, <1>18, <1>19, <2>1 DEF Struct, Body
<1>21. Last(m.frames).ip = Last(H).ip
  <2>1. frames[n].ip = G[n].ip
    BY <1>4, <1>6 DEF Framed
  <2>2. H[n] = G[n]
    BY <1>6, <1>8 DEF Lower
  <2> QED BY <1>14, <1>18, <1>19, <2>1, <2>2 DEF Last
<1>22. Len(m.handlers) = Upto(H, Len(H))
  <2>1. Upto(H, n) = Upto(G, n)
    BY <1>6, <1>8 DEF Lower
  <2> QED BY <1>1, <1>2, <1>15, <1>19, <2>1
<1>23. Poised(m, H)
  BY <1>14, <1>18, <1>19, <1>20, <1>21, <1>22 DEF Poised
<1> QED BY <1>6, <1>7, <1>8, <1>14, <1>18, <1>23

\* The frame below the last: its part of the stack, and its run.
Underneath(G, N, n, H, r) ==
    /\ Struct(vm, G) /\ N = Len(G) /\ n = N - 1 /\ n \in DOMAIN G
    /\ Lower(G, n, H) /\ r = Last(vm.runs)
\* The frame below goes on at the height the last one leaves.
LEMMA FrameBelow ==
    ASSUME SoundCode, NEW G, NEW N, NEW n, NEW H, NEW r, Underneath(G, N, n, H, r)
    PROVE  /\ r.base < n => Rest(H, Len(H)) = G[N].slots
           /\ r.base = n => Rest(H, Len(H)) = G[N].slots - Offset(r)
           /\ HandlersOf(H, Len(H)) # <<>>
                 => H[Len(H)].slots + Last(HandlersOf(H, Len(H))).height - 1 < G[N].slots
           /\ G[N].slots \in Int
<1>0. Struct(vm, G) /\ N = Len(G) /\ n = N - 1 /\ n \in DOMAIN G /\ Lower(G, n, H) /\ r = Last(vm.runs)
  BY DEF Underneath
<1>1. Views(G) /\ RunsFit(vm.runs, G) /\ Linked(vm.runs, G)
  BY <1>0 DEF Struct, Body
<1>2. N \in Nat \ {0} /\ DOMAIN G = 1 .. N /\ N \in DOMAIN G /\ G[N].slots \in Int
  BY <1>0, <1>1, StructFacts, ViewFacts
<1>3. n < N /\ n + 1 = N /\ n \in 1 .. n
  BY <1>0, <1>2
<1>4. /\ Len(H) = n /\ H[n] = G[n] /\ HandlersOf(H, n) = HandlersOf(G, n) /\ Rest(H, n) = Rest(G, n)
  BY <1>0, <1>3 DEF Lower
<1>5. /\ Rest(G, n) = G[N].slots - (IF G[N].run = G[n].run THEN 0 ELSE Offset(vm.runs[G[N].run]))
      /\ HandlersOf(G, n) # <<>> => G[n].slots + Last(HandlersOf(G, n)).height - 1 < G[N].slots
  BY <1>0, <1>1, <1>3 DEF Linked
<1>6. G[N].run = Len(vm.runs) /\ r = vm.runs[Len(vm.runs)] /\ Len(vm.runs) \in Nat
  BY <1>0, <1>1, LastRun
<1>7. ASSUME r.base < n
      PROVE  Rest(G, n) = G[N].slots
  <2>1. G[n].run = Len(vm.runs)
    BY <1>0, <1>1, <1>7, RunBelow
  <2> QED BY <1>2, <1>5, <1>6, <2>1
<1>8. ASSUME r.base = n
      PROVE  Rest(G, n) = G[N].slots - Offset(r)
  <2>1. G[n].run = Len(vm.runs) - 1
    BY <1>0, <1>1, <1>8, RunBelow
  <2>2. G[n].run # G[N].run
    BY <1>6, <2>1
  <2> QED BY <1>5, <1>6, <2>2
<1> QED BY <1>2, <1>4, <1>5, <1>7, <1>8

\* The machine m without its last frame; c has closed its upvalues.
Ended(G, c, m) ==
    /\ c = CloseUpvalues(Drop(Ahead, 1), G[Len(G)].slots) /\ HandlersOf(G, Len(G)) = <<>>
    /\ Fields(m) /\ m.frames = Front(c.frames) /\ m.handlers = c.handlers /\ m.heap = c.heap
    /\ m.open = c.open /\ m.top = G[Len(G)].slots - 1 /\ m.status = "running"

\* The last frame ends with a value for the frame below, of the same vm_run.
LEMMA EndsWithin ==
    ASSUME SoundCode, NEW G, code = Fns, Running(vm, G), Last(vm.runs).base < Len(G) - 1,
           NEW c, NEW m, Ended(G, c, m), m.runs = c.runs, NEW v
    PROVE  Good(Push(m, v))
<1> DEFINE x == Push(m, v)
<1>0. /\ c = CloseUpvalues(Drop(Ahead, 1), G[Len(G)].slots) /\ HandlersOf(G, Len(G)) = <<>>
      /\ Fields(m) /\ m.frames = Front(c.frames) /\ m.handlers = c.handlers /\ m.heap = c.heap
      /\ m.open = c.open /\ m.top = G[Len(G)].slots - 1 /\ m.status = "running"
  BY DEF Ended
<1>1. PICK N, n, H : N = Len(G) /\ n = N - 1 /\ H = SubSeq(G, 1, n)
  OBVIOUS
<1>2. Struct(vm, G)
  BY DEF Running, Poised
<1>3. Views(G) /\ N \in Nat \ {0} /\ DOMAIN G = 1 .. N /\ RunsFit(vm.runs, G) /\ N \in DOMAIN G
  BY <1>1, <1>2, StructFacts DEF Struct, Body
<1>4. Last(vm.runs).base \in Nat
  BY <1>3, RunBelow
<1>5. n \in DOMAIN G /\ N >= 2 /\ Last(vm.runs).base < n
  <2>1. PICK b : b = Last(vm.runs).base
    OBVIOUS
  <2>2. b \in Nat /\ b < n
    BY <1>1, <1>4, <2>1
  <2>3. n \in 1 .. N /\ N >= 2
    BY <1>1, <1>3, <2>2
  <2> QED BY <1>3, <2>1, <2>2, <2>3
<1>6. c.runs = vm.runs
  BY <1>0, EndFacts
<1>7. m.runs = SubSeq(c.runs, 1, G[n].run)
  BY <1>3, <1>5, <1>6, RunBelow
<1>8. Poised(m, H) /\ Lower(G, n, H)
  BY <1>0, <1>1, <1>5, <1>7, FrameEnds
<1>9. Rest(H, Len(H)) = G[N].slots /\ G[N].slots \in Int
  <2>1. PICK r : r = Last(vm.runs)
    OBVIOUS
  <2>2. Underneath(G, N, n, H, r)
    BY <1>1, <1>2, <1>5, <1>8, <2>1 DEF Underneath
  <2> QED BY <1>5, <2>1, <2>2, FrameBelow
<1>10. Ready(m)
  BY <1>8, StructFacts DEF Poised
<1>11. Quiet(m, x, m.top + 1)
  BY <1>10, PushQuiet
<1>12. m.top + 1 = Rest(H, Len(H))
  BY <1>0, <1>1, <1>9
<1>13. Settles(m, x, Rest(H, Len(H)))
  BY <1>11, <1>12, QuietSettles
<1> QED BY <1>8, <1>13, SettlesGood

\* The last frame of a vm_run ends, and its C caller goes on.
LEMMA EndsRun ==
    ASSUME SoundCode, NEW G, code = Fns, Running(vm, G),
           NEW r, r = Last(vm.runs), ~(Len(G) - 1 > r.base), r.kind # "script",
           NEW c, NEW m, Ended(G, c, m), m.runs = Front(c.runs), NEW v
    PROVE  Good(Resumed(m, r, v))
<1> DEFINE x == Resumed(m, r, v)
<1>0. /\ c = CloseUpvalues(Drop(Ahead, 1), G[Len(G)].slots) /\ HandlersOf(G, Len(G)) = <<>>
      /\ Fields(m) /\ m.frames = Front(c.frames) /\ m.handlers = c.handlers /\ m.heap = c.heap
      /\ m.open = c.open /\ m.top = G[Len(G)].slots - 1 /\ m.status = "running"
  BY DEF Ended
<1> HIDE DEF x
<1>1. PICK N, n, H : N = Len(G) /\ n = N - 1 /\ H = SubSeq(G, 1, n)
  OBVIOUS
<1>2. Struct(vm, G)
  BY DEF Running, Poised
<1>3. /\ Views(G) /\ N \in Nat \ {0} /\ DOMAIN G = 1 .. N /\ RunsFit(vm.runs, G) /\ N \in DOMAIN G
  BY <1>1, <1>2, StructFacts DEF Struct, Body
<1>4. r.base \in Nat /\ r.base < N /\ RunOK(r)
  BY <1>1, <1>3, RunBelow
<1>5. r.base = n
  <2>1. PICK b : b = r.base
    OBVIOUS
  <2>2. b \in Nat /\ b < N /\ ~(N - 1 > b)
    BY <1>1, <1>4, <2>1
  <2>3. b = n
    BY <1>1, <1>3, <2>2
  <2> QED BY <2>1, <2>3
<1>6. n # 0
  <2>1. r = vm.runs[Len(vm.runs)] /\ Len(vm.runs) \in Nat \ {0} /\ Len(vm.runs) \in DOMAIN vm.runs
    BY <1>3, LastRun
  <2>2. vm.runs[1].kind = "script" /\ vm.runs[1].base = 0 /\ DOMAIN vm.runs = 1 .. Len(vm.runs)
    BY <1>2, <1>3, StructFacts DEF RunsFit
  <2>3. Len(vm.runs) # 1
    BY <2>1, <2>2
  <2>4. 1 < Len(vm.runs) /\ 1 \in DOMAIN vm.runs
    BY <2>1, <2>2, <2>3
  <2>5. vm.runs[1].base < r.base
    BY <1>3, <2>1, <2>4 DEF RunsFit
  <2> QED BY <1>5, <2>2, <2>5
<1>7. n \in DOMAIN G /\ N >= 2
  <2>1. n \in 1 .. N /\ N >= 2
    BY <1>1, <1>3, <1>6
  <2> QED BY <1>3, <2>1
<1>8. c.runs = vm.runs
  BY <1>0, EndFacts
<1>9. m.runs = SubSeq(c.runs, 1, G[n].run)
  BY <1>3, <1>5, <1>7, <1>8, RunBelow
<1>10. Poised(m, H) /\ Lower(G, n, H) /\ Len(m.frames) = n /\ n \in Nat
  <2>1. n = Len(G) - 1 /\ Len(G) >= 2
    BY <1>1, <1>7
  <2>2. /\ Fields(m) /\ m.frames = Front(c.frames) /\ m.handlers = c.handlers
        /\ m.heap = c.heap /\ m.open = c.open /\ m.runs = SubSeq(c.runs, 1, G[n].run)
    BY <1>0, <1>9
  <2>3. c = CloseUpvalues(Drop(Ahead, 1), G[Len(G)].slots) /\ HandlersOf(G, Len(G)) = <<>>
    BY <1>0
  <2>4. /\ Poised(m, SubSeq(G, 1, n)) /\ Lower(G, n, SubSeq(G, 1, n)) /\ Len(m.frames) = n /\ n \in Nat
    BY <2>1, <2>2, <2>3, FrameEnds
  <2> QED BY <1>1, <2>4
<1>11. /\ Rest(H, Len(H)) = G[N].slots - Offset(r) /\ G[N].slots \in Int
       /\ HandlersOf(H, Len(H)) # <<>>
             => H[Len(H)].slots + Last(HandlersOf(H, Len(H))).height - 1 < G[N].slots
  <2>1. Underneath(G, N, n, H, r)
    BY <1>1, <1>2, <1>7, <1>10 DEF Underneath
  <2> QED BY <1>5, <2>1, FrameBelow
<1>12. Ready(m)
  BY <1>10, StructFacts DEF Poised
<1>13. m.top = G[N].slots - 1 /\ m.top \in Int
  BY <1>0, <1>1, <1>11
<1>14. Enters(m, x, m.top + 1 - Offset(r), m.top + 1)
  BY <1>0, <1>4, <1>10, <1>12, <1>13, ResumedEnters DEF x
<1>15. PICK s, t : s = G[N].slots /\ t = Rest(H, Len(H))
  OBVIOUS
<1>16. m.top + 1 - Offset(r) = t /\ m.top + 1 = s
  <2>1. Offset(r) \in Nat
    BY <1>4, OffsetNat
  <2> QED BY <1>11, <1>13, <1>15, <2>1
<1>17. Enters(m, x, t, s)
  BY <1>14, <1>16
<1>18. Good(x)
  BY <1>10, <1>11, <1>15, <1>17, EntersGood
<1> QED BY <1>18 DEF x

\* OP_RETURN.
LEMMA ReturnOpGood ==
    ASSUME SoundCode, NEW G, code = Fns, Running(vm, G), ReturnOp
    PROVE  Good(vm')
<1>1. Instr.op = "RETURN" /\ vm.status = "running"
  BY DEF ReturnOp, Executing
<1>2. HandlersOf(G, Len(G)) = <<>>
  <2>1. Sound(Fns, Fns[G[Len(G)].fn], Instr, Pt(G, Len(G)))
    BY Here
  <2> QED BY <1>1, <2>1 DEF Sound, HandlersOf
<1>3. PICK d, c, p, v, left, popped, r, next :
          /\ d = Drop(Ahead, 1) /\ p = G[Len(G)].slots /\ c = CloseUpvalues(d, p) /\ v = Peek(vm, 0)
          /\ left = [c EXCEPT !.frames = Front(@)] /\ popped = [left EXCEPT !.top = p - 1]
          /\ r = Last(vm.runs) /\ next = [popped EXCEPT !.runs = Front(@)]
  OBVIOUS
<1>4. /\ Ready(c) /\ c.frames = Ahead.frames /\ c.runs = vm.runs /\ c.status = vm.status /\ Len(c.frames) = Len(G)
  BY <1>3, EndFacts
<1>5. Frame(d).slots = p /\ RunOf(d) = r
  <2>1. /\ Struct(Ahead, G) /\ Len(G) = Len(Ahead.frames) /\ Fields(Ahead) /\ Ahead.runs = vm.runs
    BY AheadStruct
  <2>2. Len(G) \in DOMAIN G
    BY <2>1, StructFacts
  <2>3. Ahead.frames[Len(G)].slots = p
    BY <1>3, <2>1, <2>2 DEF Struct, Body, Framed
  <2>4. d.frames = Ahead.frames /\ d.runs = Ahead.runs
    BY <1>3, <2>1 DEF Drop, Fields
  <2> QED BY <1>3, <2>1, <2>3, <2>4 DEF Frame, RunOf, Last
<1>6. /\ left.frames = Front(c.frames) /\ Fields(left)
      /\ popped.frames = Front(c.frames) /\ popped.handlers = c.handlers /\ popped.heap = c.heap
      /\ popped.open = c.open /\ popped.runs = c.runs /\ popped.top = p - 1 /\ Fields(popped)
      /\ popped.status = c.status
  BY <1>3, <1>4 DEF Ready, Fields
<1>7. /\ next.frames = Front(c.frames) /\ next.handlers = c.handlers /\ next.heap = c.heap
      /\ next.open = c.open /\ next.runs = Front(c.runs) /\ next.top = p - 1 /\ Fields(next)
      /\ next.status = c.status
  BY <1>3, <1>6 DEF Fields
<1>8. Len(left.frames) = Len(G) - 1
  <2>1. IsSeq(c.frames) /\ Len(G) \in Nat \ {0}
    <3>1. Struct(Ahead, G)
      BY AheadStruct
    <3> QED BY <1>4, <3>1, StructFacts DEF Over
  <2>2. c.frames # <<>>
    BY <1>4, <2>1, SeqLen
  <2>3. Front(c.frames) = SubSeq(c.frames, 1, Len(G) - 1) /\ Len(G) - 1 \in 0 .. Len(c.frames)
    BY <1>4, <2>1, <2>2, SeqFront
  <2>4. PICK k : k = Len(G) - 1
    OBVIOUS
  <2>5. Len(SubSeq(c.frames, 1, k)) = k
    BY <2>1, <2>3, <2>4, SeqPrefix
  <2> QED BY <1>6, <2>3, <2>4, <2>5
<1>9. vm' = Returned(d, v)
  BY <1>3 DEF ReturnOp, Becomes
<1>13. r.base \in Nat /\ Len(G) \in Nat
  <2>1. Struct(vm, G)
    BY DEF Running, Poised
  <2>2. Views(G) /\ RunsFit(vm.runs, G) /\ Len(G) \in DOMAIN G /\ Len(G) \in Nat
    BY <2>1, StructFacts DEF Struct, Body
  <2> QED BY <1>3, <2>2, RunBelow
<1>14. Ended(G, c, popped) /\ Ended(G, c, next)
  BY <1>1, <1>2, <1>3, <1>4, <1>6, <1>7 DEF Ended
<1>10. CASE Len(left.frames) > r.base
  <2>1. vm' = Push(popped, v)
    <3>1. vm' = CASE Len(left.frames) > r.base -> Push(popped, v)
                  [] Len(left.frames) <= r.base /\ r.kind = "script" ->
                       [Drop(left, 1) EXCEPT !.runs = <<>>, !.status = "done"]
                  [] OTHER -> Resumed(next, r, v)
      BY <1>3, <1>5, <1>9 DEF Returned
    <3>2. ~(Len(left.frames) <= r.base)
      <4>1. PICK k, b : k = Len(left.frames) /\ b = r.base
        OBVIOUS
      <4>2. k \in Int /\ b \in Int /\ k > b
        BY <1>8, <1>10, <1>13, <4>1
      <4>3. ~(k <= b)
        BY <4>2
      <4> QED BY <4>1, <4>3
    <3> QED BY <1>10, <3>1, <3>2
  <2>2. r.base < Len(G) - 1
    BY <1>8, <1>10
  <2> QED BY <1>3, <1>6, <1>14, <2>1, <2>2, EndsWithin
<1>11. CASE ~(Len(left.frames) > r.base) /\ r.kind = "script"
  <2>1. vm' = [Drop(left, 1) EXCEPT !.runs = <<>>, !.status = "done"]
    <3>1. Len(left.frames) <= r.base
      <4>2. PICK k, b : k = Len(left.frames) /\ b = r.base
        OBVIOUS
      <4>3. k \in Int /\ b \in Int /\ ~(k > b)
        BY <1>8, <1>11, <1>13, <4>2
      <4>4. k <= b
        BY <4>3
      <4> QED BY <4>2, <4>4
    <3> QED BY <1>3, <1>5, <1>9, <1>11, <3>1 DEF Returned
  <2>2. vm'.status = "done"
    BY <1>6, <2>1 DEF Drop, Fields
  <2> QED BY <2>2 DEF Good
<1>12. CASE ~(Len(left.frames) > r.base) /\ r.kind # "script"
  <2>1. vm' = Resumed(next, r, v)
    BY <1>3, <1>5, <1>9, <1>12 DEF Returned
  <2>2. ~(Len(G) - 1 > r.base)
    BY <1>8, <1>12
  <2>3. next.runs = Front(c.runs)
    BY <1>7
  <2> QED BY <1>3, <1>12, <1>14, <2>1, <2>2, <2>3, EndsRun
<1> QED BY <1>10, <1>11, <1>12

\* OP_YIELD.
LEMMA YieldOpGood ==
    ASSUME SoundCode, NEW G, code = Fns, Running(vm, G), YieldOp
    PROVE  Good(vm')
<1>1. Instr.op = "YIELD" /\ vm.status = "running" /\ Straight(Instr.op) /\ Growth(Instr) = 0 - 1
  BY DEF YieldOp, Executing, Straight, Special, Growth
<1>2. PICK d, c, p, v, popped, r :
          /\ d = Drop(Ahead, 1) /\ p = G[Len(G)].slots /\ c = CloseUpvalues(d, p) /\ v = Peek(vm, 0)
          /\ popped = [c EXCEPT !.frames = Front(@), !.top = p - 1] /\ r = Last(vm.runs)
  OBVIOUS
<1>3. /\ G[Len(G)].fn \in DOMAIN Fns /\ Instr = Fns[G[Len(G)].fn].code[G[Len(G)].ip]
      /\ Frame(vm).slots = p /\ vm.top \in Int
  BY <1>2, Here
<1>4. /\ Struct(vm, G) /\ Len(G) = Len(vm.frames) /\ Views(G) /\ RunsFit(vm.runs, G)
      /\ Len(G) \in DOMAIN G /\ Len(G) \in Nat
  <2>1. Struct(vm, G) /\ Len(G) = Len(vm.frames)
    BY DEF Running, Poised
  <2> QED BY <2>1, StructFacts DEF Struct, Body
<1>5. HandlersOf(G, Len(G)) = <<>>
  <2>1. G[Len(G)].ip \in DOMAIN PointAt[G[Len(G)].fn]
    BY <1>4 DEF Views
  <2> QED BY <1>1, <1>3, <2>1 DEF SoundCode, HandlersOf, Pt
<1>6. /\ Ready(c) /\ c.runs = vm.runs /\ c.status = vm.status
  BY <1>2, EndFacts
<1>7. Ended(G, c, popped) /\ popped.runs = c.runs
  BY <1>1, <1>2, <1>5, <1>6 DEF Ended, Ready, Fields
<1>8. RunOf(vm) = r /\ r.base \in Nat
  BY <1>2, <1>4, RunBelow DEF RunOf
<1>9. CASE vm.collector # 0 /\ Function(vm).isGen
  <2>1. PICK a, x, h : a = vm.collector /\ x = Append(d.heap[a].es, v) /\ h = [d.heap EXCEPT ![a].es = x]
    OBVIOUS
  <2>2. Ready(Ahead) /\ Ahead.top = vm.top
    BY AheadStruct, StructFacts
  <2>3. Quiet(Ahead, d, vm.top - 1)
    BY <1>2, <2>2, DropQuiet
  <2>4. Ready(d) /\ d.top = vm.top - 1
    BY <2>2, <2>3, CalmReady DEF Quiet
  <2>5. vm' = [d EXCEPT !.heap = h]
    <3>1. vm' = [d EXCEPT !.heap[a].es = Append(@, v)]
      BY <1>2, <1>9, <2>1 DEF YieldOp, Becomes
    <3>2. "heap" \in DOMAIN d
      BY <2>4 DEF Ready, Fields
    <3> QED BY <2>1, <3>1, <3>2
  <2>6. HeapGrows(d.heap, h)
    <3>1. HeapOK(d.heap)
      BY <2>4 DEF Ready
    <3>2. ASSUME a \in DOMAIN d.heap, d.heap[a].k = "list"
          PROVE  IsSeq(x)
      <4>1. IsSeq(d.heap[a].es)
        BY <3>1, <3>2 DEF HeapOK, Object
      <4> QED BY <2>1, <4>1, SeqAppend
    <3> QED BY <2>1, <3>1, <3>2, GrowsField
  <2>7. Quiet(d, vm', vm.top - 1)
    BY <2>4, <2>5, <2>6, HeapQuiet
  <2>8. Quiet(Ahead, vm', vm.top - 1)
    BY <2>2, <2>3, <2>7, QuietTrans
  <2>9. Settles(Ahead, vm', vm.top + Growth(Instr))
    <3>1. vm.top - 1 = vm.top + Growth(Instr)
      BY <1>1, <1>3
    <3> QED BY <2>8, <3>1, QuietSettles
  <2> QED BY <1>1, <2>9, StraightGood
<1>10. CASE ~(vm.collector # 0 /\ Function(vm).isGen) /\ Len(vm.frames) > r.base + 1
  <2>1. vm' = Push(popped, v)
    BY <1>2, <1>3, <1>8, <1>10 DEF YieldOp, Becomes
  <2>2. r.base < Len(G) - 1
    BY <1>4, <1>8, <1>10
  <2> QED BY <1>2, <1>7, <2>1, <2>2, EndsWithin
<1>11. CASE ~(vm.collector # 0 /\ Function(vm).isGen) /\ ~(Len(vm.frames) > r.base + 1)
  <2>1. vm' = LeftOut(vm)
    BY <1>8, <1>11 DEF YieldOp, Becomes
  <2>2. vm'.status = "left out"
    <3>1. Ready(vm)
      BY <1>4, StructFacts
    <3> QED BY <2>1, <3>1, ThrowCalm
  <2> QED BY <2>2 DEF Good
<1> QED BY <1>9, <1>10, <1>11

(* ------------------------------ exceptions ------------------------------- *)

\* T has a number and the elements of a function above a position.
Above(a, b, f, d, T) ==
    /\ a \in Nat /\ b \in Nat /\ d \in Int /\ \A j \in a + 1 .. b : f[j] \in Int
    /\ \A x : x \in T <=> (x = d \/ \E j \in a + 1 .. b : x = f[j])

\* Such a set has a least element.
LEMMA LeastOf ==
    ASSUME NEW a, NEW b, NEW f, NEW d, NEW Q, Above(a, b, f, d, Q)
    PROVE  \E x \in Q : \A y \in Q : x <= y
<1>0. /\ a \in Nat /\ b \in Nat /\ d \in Int /\ \A j \in a + 1 .. b : f[j] \in Int
      /\ \A x : x \in Q <=> (x = d \/ \E j \in a + 1 .. b : x = f[j])
  BY DEF Above
<1> DEFINE S(k) == {f[j] : j \in a + 1 .. k} \union {d}
           T == {k \in 0 .. b : \E x \in S(k) : \A y \in S(k) : x <= y}
<1>1. 0 \in T
  <2>1. a + 1 .. 0 = {}
    BY <1>0
  <2>2. S(0) = {d}
    BY <2>1
  <2>3. \E x \in {d} : \A y \in {d} : x <= y
    BY <1>0
  <2> QED BY <1>0, <2>2, <2>3
<1>2. ASSUME NEW k \in 0 .. b - 1, k \in T
      PROVE  k + 1 \in T
  <2>0. k \in Nat /\ k + 1 \in 0 .. b
    BY <1>0
  <2>1. PICK x \in S(k) : \A y \in S(k) : x <= y
    BY <1>2
  <2>2. CASE k + 1 \in a + 1 .. b
    <3>1. a + 1 .. k + 1 = (a + 1 .. k) \union {k + 1}
      BY <1>0, <2>0, <2>2
    <3>2. S(k + 1) = S(k) \union {f[k + 1]}
      BY <3>1
    <3>3. a + 1 .. k \subseteq a + 1 .. b
      BY <1>0, <2>0
    <3>4. S(k) \subseteq Int /\ f[k + 1] \in Int
      BY <1>0, <2>2, <3>3
    <3> HIDE DEF S
    <3>5. \E z \in S(k) \union {f[k + 1]} : \A y \in S(k) \union {f[k + 1]} : z <= y
      <4>1. CASE x <= f[k + 1]
        BY <2>1, <4>1
      <4>2. CASE ~(x <= f[k + 1])
        <5>1. f[k + 1] < x
          BY <2>1, <3>4, <4>2
        <5>2. \A y \in S(k) : f[k + 1] <= y
          BY <2>1, <3>4, <5>1
        <5>3. f[k + 1] <= f[k + 1]
          BY <3>4
        <5> QED BY <5>2, <5>3
      <4> QED BY <4>1, <4>2
    <3> QED BY <2>0, <3>2, <3>5
  <2>3. CASE ~(k + 1 \in a + 1 .. b)
    <3>1. a + 1 .. k + 1 = {} /\ a + 1 .. k = {}
      BY <1>0, <2>0, <2>3
    <3>2. S(k + 1) = S(k)
      BY <3>1
    <3> HIDE DEF S
    <3> QED BY <2>0, <2>1, <3>2
  <2> QED BY <2>2, <2>3
<1>3. \A k \in 0 .. b : k \in T
  <2> HIDE DEF T
  <2> QED BY <1>0, <1>1, <1>2, UpTo
<1>4. b \in T
  <2>1. b \in 0 .. b
    BY <1>0
  <2> HIDE DEF T
  <2> QED BY <1>3, <2>1
<1>5. \A x : x \in S(b) <=> (x = d \/ \E j \in a + 1 .. b : x = f[j])
  OBVIOUS
<1> HIDE DEF S
<1>6. S(b) = Q
  BY <1>0, <1>5
<1> QED BY <1>4, <1>6

\* The handlers an exception may go to.
LEMMA FreshPrefix ==
    ASSUME Over(vm.handlers, HandlerType), NEW r, r = RunOf(vm)
    PROVE  \E c \in 0 .. Len(vm.handlers) :
              /\ FreshHandlers = SubSeq(vm.handlers, 1, c)
              /\ c > 0 => vm.handlers[c].base <= r.base
              /\ \A k \in c + 1 .. Len(vm.handlers) : ~(vm.handlers[k].base <= r.base)
<1> DEFINE is == {i \in 1 .. Len(vm.handlers) : vm.handlers[i].base <= r.base}
           c == IF is = {} THEN 0 ELSE Max(is)
<1>1. Len(vm.handlers) \in Nat
  BY SeqLen DEF Over
<1>2. FreshHandlers = SubSeq(vm.handlers, 1, c)
  BY DEF FreshHandlers
<1>3. CASE is = {}
  BY <1>1, <1>2, <1>3
<1>4. CASE is # {}
  <2>1. \E i \in is : \A j \in is : j <= i
    <3>1. IsFiniteSet(1 .. Len(vm.handlers)) /\ is \subseteq 1 .. Len(vm.handlers)
      BY <1>1, FS_Interval
    <3>2. is \subseteq Int
      OBVIOUS
    <3> HIDE DEF is
    <3>3. IsFiniteSet(is)
      BY <3>1, FS_Subset
    <3> QED BY <1>4, <3>2, <3>3, GreatestExists
  <2>2. \E i \in is : \A j \in is : i >= j
    BY <2>1
  <2>3. Max(is) \in is /\ \A j \in is : Max(is) >= j
    <3> HIDE DEF is
    <3> QED BY <2>2, MaxIs
  <2>4. PICK x : x = Max(is)
    OBVIOUS
  <2>5. x \in 1 .. Len(vm.handlers) /\ vm.handlers[x].base <= r.base /\ c = x
    BY <1>4, <2>3, <2>4
  <2>6. ASSUME NEW k \in x + 1 .. Len(vm.handlers)
        PROVE  ~(vm.handlers[k].base <= r.base)
    <3>1. k \in 1 .. Len(vm.handlers) /\ ~(x >= k)
      BY <1>1, <2>5
    <3>2. k \notin is
      BY <2>3, <2>4, <3>1
    <3> QED BY <3>1, <3>2
  <2> HIDE DEF is, c
  <2> QED BY <1>1, <1>2, <2>5, <2>6
<1> QED BY <1>3, <1>4

\* Those of the frames that are counted on.
LEMMA FreshKept ==
    ASSUME SoundCode, NEW G, Struct(vm, G)
    PROVE  FreshHandlers = SubSeq(vm.handlers, 1, Upto(G, Len(G)))
<1>1. PICK r, N, U : r = RunOf(vm) /\ N = Len(G) /\ U = Upto(G, N)
  OBVIOUS
<1>2. /\ Views(G) /\ RunsFit(vm.runs, G) /\ HandlersKept(vm.handlers, vm.runs, G) /\ r = Last(vm.runs)
      /\ Over(vm.handlers, HandlerType) /\ Len(vm.handlers) \in Nat /\ N \in DOMAIN G
  BY <1>1, StructFacts DEF Struct, Body, RunOf
<1>3. U \in Nat /\ U <= Len(vm.handlers)
  BY <1>1, <1>2, ViewFacts DEF HandlersKept
<1>4. /\ r = vm.runs[Len(vm.runs)] /\ Len(vm.runs) \in DOMAIN vm.runs /\ Len(vm.runs) \in Nat
      /\ DOMAIN vm.runs = 1 .. Len(vm.runs)
  BY <1>2, LastRun, StructFacts
<1>5. \A j \in DOMAIN vm.runs : vm.runs[j].base \in Nat /\ vm.runs[j].base <= r.base
  <2> TAKE j \in DOMAIN vm.runs
  <2>1. vm.runs[j].base \in Nat /\ r.base \in Nat
    BY <1>2, <1>4 DEF RunsFit, RunOK
  <2>2. CASE j = Len(vm.runs)
    BY <1>4, <2>1, <2>2
  <2>3. CASE j # Len(vm.runs)
    <3>1. j < Len(vm.runs)
      BY <1>4, <2>3
    <3>2. vm.runs[j].base < r.base
      BY <1>2, <1>4, <3>1 DEF RunsFit
    <3> QED BY <2>1, <3>2
  <2> QED BY <2>2, <2>3
<1>6. \A k \in U + 1 .. Len(vm.handlers) : vm.handlers[k].base > r.base
  BY <1>1, <1>2 DEF HandlersKept
<1>7. ASSUME U > 0
      PROVE  vm.handlers[U].base <= r.base
  <2>1. U \in 1 .. U
    BY <1>3, <1>7
  <2>2. PICK i \in DOMAIN G : U - G[i].below \in DOMAIN HandlersOf(G, i)
    BY <1>1, <1>2, <2>1 DEF HandlersKept
  <2>3. PICK k : k = U - G[i].below
    OBVIOUS
  <2>4. vm.handlers[G[i].below + k] = Handler(vm.runs, G, i, k)
    BY <1>2, <2>2, <2>3 DEF HandlersKept
  <2>5. G[i].below + k = U
    <3>1. G[i].below \in Nat
      BY <1>2, ViewFacts
    <3> QED BY <1>3, <2>3, <3>1
  <2>6. vm.handlers[U].base = vm.runs[G[i].run].base
    BY <2>4, <2>5 DEF Handler
  <2>7. G[i].run \in DOMAIN vm.runs
    BY <1>2 DEF RunsFit
  <2> QED BY <1>5, <2>6, <2>7
<1>8. PICK c \in 0 .. Len(vm.handlers) :
          /\ FreshHandlers = SubSeq(vm.handlers, 1, c)
          /\ c > 0 => vm.handlers[c].base <= r.base
          /\ \A k \in c + 1 .. Len(vm.handlers) : ~(vm.handlers[k].base <= r.base)
  BY <1>1, <1>2, FreshPrefix
<1>9. r.base \in Nat
  BY <1>4, <1>5
<1>10. ~(c > U)
  <2>1. ASSUME c > U PROVE FALSE
    <3>1. c \in U + 1 .. Len(vm.handlers) /\ c > 0
      BY <1>2, <1>3, <2>1
    <3>2. vm.handlers[c].base > r.base /\ vm.handlers[c].base <= r.base
      BY <1>6, <1>8, <3>1
    <3>3. vm.handlers[c].base \in Nat
      <4>1. c \in DOMAIN vm.handlers
        BY <1>2, <1>3, <3>1, StructFacts
      <4> QED BY <1>2, <4>1 DEF Over, HandlerType
    <3> QED BY <1>9, <3>2, <3>3
  <2> QED BY <2>1
<1>11. ~(c < U)
  <2>1. ASSUME c < U PROVE FALSE
    <3>1. U \in c + 1 .. Len(vm.handlers) /\ U > 0
      BY <1>2, <1>3, <2>1
    <3> QED BY <1>7, <1>8, <3>1
  <2> QED BY <2>1
<1>12. c = U
  BY <1>2, <1>3, <1>10, <1>11
<1> QED BY <1>1, <1>8, <1>12

\* The frame whose handler is on top.
CaughtBy(G, i, h) ==
    /\ i \in DOMAIN G /\ HandlersOf(G, i) # <<>> /\ Upto(G, i) = Upto(G, Len(G))
    /\ G[i].run = Len(vm.runs) /\ h.ip = Last(HandlersOf(G, i)).ip /\ h.frame = i
    /\ h.depth = G[i].slots + Last(HandlersOf(G, i)).height - 1

\* The handler on top is the last one of some frame.
LEMMA CatchTarget ==
    ASSUME SoundCode, NEW G, Struct(vm, G), NEW h, Upto(G, Len(G)) > 0,
           h = vm.handlers[Upto(G, Len(G))], h.base = Last(vm.runs).base
    PROVE  \E i : CaughtBy(G, i, h)
<1>1. PICK N, U : N = Len(G) /\ U = Upto(G, N)
  OBVIOUS
<1>2. /\ Views(G) /\ RunsFit(vm.runs, G) /\ HandlersKept(vm.handlers, vm.runs, G)
      /\ N \in DOMAIN G /\ DOMAIN G = 1 .. N /\ N \in Nat
  BY <1>1, StructFacts DEF Struct, Body
<1>3. U \in Nat /\ U > 0
  BY <1>1, <1>2, ViewFacts
<1>4. U \in 1 .. U
  BY <1>3
<1>5. PICK i \in DOMAIN G : U - G[i].below \in DOMAIN HandlersOf(G, i)
  BY <1>1, <1>2, <1>4 DEF HandlersKept
<1>6. PICK k, hs, l : k = U - G[i].below /\ hs = HandlersOf(G, i) /\ l = Len(hs)
  OBVIOUS
<1>7. /\ IsSeq(hs) /\ l \in Nat /\ DOMAIN hs = 1 .. l /\ G[i].below \in Nat
      /\ Upto(G, i) = G[i].below + l
  BY <1>2, <1>6, ViewFacts DEF Upto
<1>8. k \in 1 .. l
  BY <1>5, <1>6, <1>7
<1>9. Upto(G, i) <= U /\ Upto(G, i) \in Nat
  <2>1. Upto(G, i) \in Nat
    BY <1>7
  <2>2. CASE i = N
    BY <1>1, <2>1, <2>2
  <2>3. CASE i # N
    <3>1. i < N
      BY <1>2, <2>3
    <3>2. Upto(G, i) <= G[N].below
      BY <1>2, <3>1 DEF HandlersKept
    <3>3. G[N].below <= U /\ G[N].below \in Nat
      <4>1. G[N].below \in Nat /\ Len(HandlersOf(G, N)) \in Nat
        BY <1>2, ViewFacts
      <4> QED BY <1>1, <4>1 DEF Upto
    <3> QED BY <1>3, <2>1, <3>2, <3>3
  <2> QED BY <2>2, <2>3
<1>10. k = l /\ Upto(G, i) = U
  BY <1>3, <1>6, <1>7, <1>8, <1>9
<1>11. hs # <<>> /\ Last(hs) = hs[l]
  <2>1. hs # <<>>
    BY <1>7, <1>8, SeqLen
  <2> QED BY <1>6, <1>7, <2>1, SeqFront
<1>12. h = Handler(vm.runs, G, i, k)
  <2>1. vm.handlers[G[i].below + k] = Handler(vm.runs, G, i, k)
    BY <1>2, <1>5, <1>6 DEF HandlersKept
  <2>2. G[i].below + k = U
    BY <1>3, <1>6, <1>7
  <2> QED BY <1>1, <2>1, <2>2
<1>13. /\ h.ip = Last(hs).ip /\ h.frame = i /\ h.depth = G[i].slots + Last(hs).height - 1
       /\ h.base = vm.runs[G[i].run].base
  BY <1>6, <1>10, <1>11, <1>12 DEF Handler
<1>14. G[i].run = Len(vm.runs)
  <2>1. /\ Last(vm.runs) = vm.runs[Len(vm.runs)] /\ Len(vm.runs) \in DOMAIN vm.runs
        /\ DOMAIN vm.runs = 1 .. Len(vm.runs) /\ Len(vm.runs) \in Nat
    BY <1>2, LastRun, StructFacts
  <2>2. G[i].run \in DOMAIN vm.runs
    BY <1>2 DEF RunsFit
  <2>3. ASSUME G[i].run # Len(vm.runs) PROVE FALSE
    <3>1. G[i].run < Len(vm.runs)
      BY <2>1, <2>2, <2>3
    <3>2. vm.runs[G[i].run].base < vm.runs[Len(vm.runs)].base
      BY <1>2, <2>1, <2>2, <3>1 DEF RunsFit
    <3>3. PICK x, y : x = vm.runs[G[i].run].base /\ y = vm.runs[Len(vm.runs)].base
      OBVIOUS
    <3>4. x \in Nat /\ y \in Nat /\ x < y
      BY <1>2, <2>1, <2>2, <3>2, <3>3 DEF RunsFit, RunOK
    <3>5. x = y
      BY <1>13, <2>1, <3>3
    <3> QED BY <3>4, <3>5
  <2> QED BY <2>3
<1> QED BY <1>1, <1>6, <1>10, <1>11, <1>13, <1>14 DEF CaughtBy

\* The last frame goes on without its innermost handler.
LEMMA HandlerPopped ==
    ASSUME SoundCode, NEW G, Views(G), NEW handlers, NEW runs, HandlersKept(handlers, runs, G),
           Len(handlers) = Upto(G, Len(G)), NEW t \in DOMAIN PointAt[G[Len(G)].fn],
           HandlersOf(G, Len(G)) # <<>>,
           PointAt[G[Len(G)].fn][t].handlers = Front(HandlersOf(G, Len(G)))
    PROVE  /\ HandlersKept(Front(handlers), runs, Turn(G, t))
           /\ Len(Front(handlers)) = Upto(Turn(G, t), Len(G))
<1> DEFINE N == Len(G)
           H == Turn(G, t)
           hs == HandlersOf(G, N)
           news == Front(handlers)
           e == Len(hs) - 1
           below == G[N].below
<1>1. N \in DOMAIN G /\ Over(handlers, HandlerType)
  BY SeqLen DEF Views, HandlersKept
<1>2. /\ Views(H) /\ Len(H) = N /\ DOMAIN H = DOMAIN G /\ H[N].slots = G[N].slots /\ H[N].run = G[N].run
      /\ H[N].below = below /\ Pt(H, N) = PointAt[G[N].fn][t]
  BY <1>1, TurnViews
<1>3. /\ IsSeq(hs) /\ Len(hs) \in Nat \ {0} /\ DOMAIN hs = 1 .. Len(hs)
      /\ below \in Nat /\ Upto(G, N) = below + Len(hs)
  <2>1. /\ IsSeq(hs) /\ Len(hs) \in Nat /\ DOMAIN hs = 1 .. Len(hs)
        /\ below \in Nat /\ Upto(G, N) = below + Len(hs)
    BY <1>1, ViewFacts DEF Upto
  <2> HIDE DEF hs
  <2>2. hs # <<>>
    BY DEF hs
  <2> QED BY <2>1, <2>2, SeqLen
<1>4. HandlersOf(H, N) = Front(hs)
  BY <1>2 DEF HandlersOf
<1> HIDE DEF H
<1>5. /\ Len(HandlersOf(H, N)) = e /\ \A k \in 1 .. e : HandlersOf(H, N)[k] = hs[k]
  <2>1. hs # <<>>
    OBVIOUS
  <2> HIDE DEF hs
  <2>2. Front(hs) = SubSeq(hs, 1, e) /\ e \in 0 .. Len(hs)
    BY <1>3, <2>1, SeqFront
  <2> QED BY <1>3, <1>4, <2>2, SeqPrefix
<1>6. e \in Nat /\ Len(handlers) = below + e + 1 /\ IsSeq(handlers) /\ handlers # <<>>
  <2>1. e \in Nat /\ Len(handlers) = below + e + 1 /\ IsSeq(handlers)
    BY <1>1, <1>3 DEF Over
  <2> QED BY <1>3, <2>1, SeqLen
<1>7. PICK b, c, d : b = below /\ c = e /\ d = b + c
  OBVIOUS
<1>8. /\ Over(news, HandlerType) /\ IsSeq(news) /\ Len(news) = d
      /\ \A k \in 1 .. d : news[k] = handlers[k]
  <2>1. news = SubSeq(handlers, 1, Len(handlers) - 1) /\ Len(handlers) - 1 \in 0 .. Len(handlers)
    BY <1>6, SeqFront
  <2>2. Len(handlers) - 1 = d
    BY <1>3, <1>6, <1>7
  <2> HIDE DEF news
  <2>3. news = SubSeq(handlers, 1, d) /\ d \in 0 .. Len(handlers)
    BY <2>1, <2>2
  <2>4. Over(news, HandlerType)
    BY <1>1, <2>3, OverPrefix
  <2> QED BY <1>6, <2>3, <2>4, SeqPrefix
<1>9. b \in Nat /\ c \in Nat /\ d \in Nat
  BY <1>3, <1>6, <1>7
<1> HIDE DEF news
<1>10. ASSUME NEW k \in 1 .. c
       PROVE  news[b + k] = Handler(runs, H, N, k)
  <2>1. k \in DOMAIN hs /\ b + k \in 1 .. d
    <3>1. PICK l : l = Len(hs)
      OBVIOUS
    <3>2. l \in Nat /\ c = l - 1 /\ DOMAIN hs = 1 .. l
      BY <1>3, <1>7, <3>1
    <3>3. k \in 1 .. l /\ b + k \in 1 .. b + c
      BY <1>9, <3>2
    <3> QED BY <1>7, <3>2, <3>3
  <2>2. news[b + k] = handlers[b + k]
    BY <1>8, <2>1
  <2>3. handlers[b + k] = Handler(runs, G, N, k)
    BY <1>1, <1>7, <2>1 DEF HandlersKept
  <2>4. Handler(runs, G, N, k) = Handler(runs, H, N, k)
    <3>1. HandlersOf(G, N)[k] = HandlersOf(H, N)[k]
      BY <1>5, <1>7
    <3> QED BY <1>2, <3>1 DEF Handler
  <2> QED BY <2>2, <2>3, <2>4
<1>11. b + c + 1 .. Len(news) = {} /\ b + c <= Len(news) /\ 1 .. b \subseteq 1 .. d
  BY <1>7, <1>8, <1>9
<1>12. Handed(news, handlers, runs, G, t, b, c)
  <2>1. b = G[Len(G)].below /\ c = Len(HandlersOf(Turn(G, t), Len(G)))
    BY <1>5, <1>7 DEF H
  <2>2. \A k \in 1 .. b : news[k] = handlers[k]
    BY <1>8, <1>11
  <2>3. \A k \in 1 .. c : news[b + k] = Handler(runs, Turn(G, t), Len(G), k)
    BY <1>10 DEF H
  <2> QED BY <1>8, <1>11, <2>1, <2>2, <2>3 DEF Handed
<1>13. HandlersKept(news, runs, Turn(G, t))
  BY <1>12, TurnHandlers
<1>14. Len(news) = Upto(H, N)
  BY <1>2, <1>5, <1>7, <1>8 DEF Upto
<1> QED BY <1>13, <1>14 DEF H, news

\* The machine without the frames above the i-th, at its handlers: closed
\* down to low.
Cut(G, i, low, c, k) ==
    /\ c = CloseUpvalues(vm, low) /\ low \in Int
    /\ \A j \in i + 1 .. Len(vm.frames) : low <= vm.frames[j].slots
    /\ Fields(k) /\ k.frames = SubSeq(vm.frames, 1, i) /\ k.runs = vm.runs /\ k.heap = c.heap
    /\ k.open = c.open /\ k.handlers = SubSeq(vm.handlers, 1, Upto(G, Len(G)))

\* The machine without the frames above the one that catches.
LEMMA CutStruct ==
    ASSUME SoundCode, NEW G, Struct(vm, G), NEW i, NEW h, CaughtBy(G, i, h),
           NEW low, NEW c, NEW k, Cut(G, i, low, c, k)
    PROVE  /\ Struct(k, SubSeq(G, 1, i)) /\ Lower(G, i, SubSeq(G, 1, i)) /\ Len(k.frames) = i
           /\ Len(k.handlers) = Upto(SubSeq(G, 1, i), i)
           /\ \A u \in k.open : k.heap[u].slot \in Int /\ k.heap[u].slot < low
<1>0. /\ c = CloseUpvalues(vm, low) /\ low \in Int
      /\ \A j \in i + 1 .. Len(vm.frames) : low <= vm.frames[j].slots
      /\ Fields(k) /\ k.frames = SubSeq(vm.frames, 1, i) /\ k.runs = vm.runs /\ k.heap = c.heap
      /\ k.open = c.open /\ k.handlers = SubSeq(vm.handlers, 1, Upto(G, Len(G)))
  BY DEF Cut
<1>1. PICK frames, handlers, runs, heap, open, g, keep :
          /\ frames = vm.frames /\ handlers = vm.handlers /\ runs = vm.runs /\ heap = vm.heap
          /\ open = vm.open /\ g = c.heap /\ keep = c.open
  OBVIOUS
<1>2. Body(frames, handlers, runs, heap, G) /\ OpenKept(open, heap, frames, G) /\ Ready(vm)
  BY <1>1, StructFacts DEF Struct
<1>3. keep = {u \in open : ~(heap[u].slot >= low)} /\ Shut(heap, g, keep)
  BY <1>0, <1>1, <1>2, CloseFacts
<1>4. Body(frames, handlers, runs, g, G)
  BY <1>2, <1>3, ShutBody
<1>5. /\ Views(G) /\ Framed(frames, heap, G) /\ RunsFit(runs, G) /\ Linked(runs, G) /\ HeapOK(heap)
      /\ HandlersKept(handlers, runs, G) /\ HeapOK(g) /\ Framed(frames, g, G)
  BY <1>2, <1>4 DEF Body
<1>6. /\ i \in DOMAIN G /\ Upto(G, i) = Upto(G, Len(G)) /\ G[i].run = Len(runs)
  BY <1>1 DEF CaughtBy
<1>7. PICK H, fs, hs : H = SubSeq(G, 1, i) /\ fs = SubSeq(frames, 1, i) /\ hs = SubSeq(handlers, 1, Upto(G, i))
  OBVIOUS
<1>8. Lower(G, i, H)
  BY <1>5, <1>6, <1>7, LowerViews
<1>9. RunsFit(runs, H) /\ \A j \in 1 .. i : runs[H[j].run] = runs[G[j].run]
  <2>1. runs = SubSeq(runs, 1, G[i].run)
    <3>1. PICK S : runs \in Seq(S)
      BY <1>5 DEF RunsFit, IsSeq
    <3> QED BY <1>6, <3>1
  <2>2. RunsOf(G, runs, i, H, runs)
    BY <1>5, <1>8, <2>1 DEF RunsOf
  <2> QED BY <1>5, <2>2, LowerRuns
<1>10. Linked(runs, H)
  BY <1>5, <1>8, <1>9, LowerLinked
<1>11. Framed(fs, g, H) /\ Len(fs) = i
  <2>1. Views(G) /\ Framed(frames, g, G) /\ Linked(runs, G)
    BY <1>5
  <2>2. Framed(SubSeq(frames, 1, i), g, H) /\ Len(SubSeq(frames, 1, i)) = i
    BY <1>8, <2>1, LowerFramed
  <2> QED BY <1>7, <2>2
<1>12. Upto(G, i) \in Nat /\ Upto(G, i) \in 0 .. Len(handlers)
  <2>1. Upto(G, i) \in Nat
    BY <1>5, <1>6, ViewFacts
  <2>2. Upto(G, i) <= Len(handlers) /\ Len(handlers) \in Nat
    BY <1>5, <1>6, SeqLen DEF HandlersKept, Over
  <2> QED BY <2>1, <2>2
<1>13. Over(hs, HandlerType) /\ Len(hs) = Upto(G, i) /\ \A j \in 1 .. Upto(G, i) : hs[j] = handlers[j]
  <2>1. Over(handlers, HandlerType)
    BY <1>5 DEF HandlersKept
  <2>2. IsSeq(handlers)
    BY <2>1 DEF Over
  <2> QED BY <1>7, <1>12, <2>1, <2>2, OverPrefix, SeqPrefix
<1>14. HandlersKept(hs, runs, H)
  <2>1. Upto(G, i) <= Len(hs) /\ Upto(G, i) + 1 .. Len(hs) = {}
    BY <1>12, <1>13
  <2>2. \A j \in Upto(G, i) + 1 .. Len(hs) : hs[j].base > Last(runs).base
    BY <2>1
  <2> QED BY <1>5, <1>8, <1>9, <1>13, <2>1, <2>2, LowerHandlers
<1>15. OpenKept(keep, g, fs, H) /\ \A u \in keep : g[u].slot \in Int /\ g[u].slot < low
  <2>1. Closing(G, i, H, frames, heap, open, low, keep, g)
    BY <1>0, <1>1, <1>2, <1>3, <1>5, <1>8 DEF Closing
  <2> QED BY <1>5, <2>1, LowerOpen
<1>16. Views(H) /\ Len(H) = i /\ Upto(H, i) = Upto(G, i)
  <2>1. i \in 1 .. i
    <3>1. DOMAIN G = 1 .. Len(G) /\ Len(G) \in Nat
      BY <1>5, SeqLen DEF Views
    <3> QED BY <1>6, <3>1
  <2> QED BY <1>8, <2>1 DEF Lower
<1>17. Struct(k, H)
  <2>1. k.frames = fs /\ k.handlers = hs /\ k.runs = runs /\ k.heap = g /\ k.open = keep
    BY <1>0, <1>1, <1>6, <1>7
  <2> QED BY <1>0, <1>5, <1>9, <1>10, <1>11, <1>14, <1>15, <1>16, <2>1 DEF Struct, Body
<1> QED BY <1>0, <1>1, <1>6, <1>7, <1>8, <1>11, <1>13, <1>15, <1>16, <1>17

\* The handler of a frame goes on at a point with the exception on top of what
\* it restores.
LEMMA CaughtPoint ==
    ASSUME SoundCode, NEW H, Views(H), NEW i, i = Len(H), HandlersOf(H, i) # <<>>,
           NEW t, t = Last(HandlersOf(H, i)).ip
    PROVE  LET at == PointAt[H[i].fn]
               e == Last(HandlersOf(H, i))
           IN /\ t \in DOMAIN at /\ t \in Nat /\ e.height \in Nat /\ at[t].height = e.height + 1
              /\ at[t].handlers = Front(HandlersOf(H, i))
              /\ \A q \in Pt(H, i).open : q < e.height => q \in at[t].open
<1>1. H[i].fn \in DOMAIN Fns /\ H[i].ip \in DOMAIN PointAt[H[i].fn] /\ i \in DOMAIN H
  BY SeqLen DEF Views
<1>2. PICK at, p, f : at = PointAt[H[i].fn] /\ p = at[H[i].ip] /\ f = Fns[H[i].fn]
  OBVIOUS
<1>3. p = Pt(H, i) /\ p.handlers = HandlersOf(H, i)
  BY <1>2 DEF Pt, HandlersOf
<1>4. Shaped(Fns, f, at) /\ IsSeq(f.code)
  BY <1>1, <1>2 DEF SoundCode
<1>5. t \in DOMAIN at /\ Agrees(Caught(p), at[t])
  BY <1>1, <1>2, <1>3, <1>4 DEF Shaped
<1>6. t \in Nat
  <2>1. t \in DOMAIN f.code
    BY <1>4, <1>5 DEF Shaped
  <2> QED BY <1>4, <2>1, SeqLen
<1>7. PICK e : e = Last(p.handlers)
  OBVIOUS
<1>8. e.height \in Nat
  <2>1. IsSeq(HandlersOf(H, i)) /\ HandlersOf(H, i) # <<>>
    BY <1>1, ViewFacts
  <2>2. e = HandlersOf(H, i)[Len(HandlersOf(H, i))] /\ Len(HandlersOf(H, i)) \in DOMAIN HandlersOf(H, i)
    BY <1>3, <1>7, <2>1, SeqFront
  <2> QED BY <1>1, <2>2, ViewFacts
<1>9. Caught(p) = Point(e.height + 1, Front(p.handlers), {q \in p.open : q < e.height})
  BY <1>7 DEF Caught
<1>10. at[t].height = e.height + 1 /\ at[t].handlers = Front(p.handlers)
       /\ {q \in p.open : q < e.height} \subseteq at[t].open
  BY <1>5, <1>9 DEF Agrees, Point
<1> QED BY <1>2, <1>3, <1>5, <1>6, <1>7, <1>8, <1>10

\* flux_handle_exception with a handler.
LEMMA CaughtGood ==
    ASSUME SoundCode, NEW G, Struct(vm, G), NEW i, NEW h, CaughtBy(G, i, h),
           NEW low, NEW c, NEW k, Cut(G, i, low, c, k), low <= h.depth + 1,
           NEW m, Fields(m), m.frames = Goto(k, h.ip).frames, m.handlers = Front(k.handlers),
           m.runs = k.runs, m.heap = k.heap, m.open = k.open, m.top = h.depth + 1
    PROVE  \E X : Running(m, X)
<1>1. PICK H, t, e, p, at : /\ H = SubSeq(G, 1, i) /\ t = h.ip /\ e = Last(HandlersOf(H, i))
                            /\ p = Pt(H, i) /\ at = PointAt[H[i].fn]
  OBVIOUS
<1>2. /\ Struct(k, H) /\ Lower(G, i, H) /\ Len(k.frames) = i /\ Len(k.handlers) = Upto(H, i)
      /\ \A u \in k.open : k.heap[u].slot \in Int /\ k.heap[u].slot < low
  BY <1>1, CutStruct
<1>3. Views(H) /\ Len(H) = i /\ i \in DOMAIN H /\ i \in 1 .. i
  BY <1>2, StructFacts DEF Lower
<1>4. HandlersOf(H, i) = HandlersOf(G, i) /\ H[i] = G[i]
  BY <1>2, <1>3 DEF Lower
<1>5. /\ HandlersOf(H, i) # <<>> /\ t = e.ip /\ h.depth = H[i].slots + e.height - 1
  BY <1>1, <1>4 DEF CaughtBy
<1>6. /\ t \in DOMAIN at /\ t \in Nat /\ e.height \in Nat /\ at[t].height = e.height + 1
      /\ at[t].handlers = Front(HandlersOf(H, i))
      /\ \A q \in p.open : q < e.height => q \in at[t].open
  <2>1. t = Last(HandlersOf(H, i)).ip
    BY <1>1, <1>5
  <2>2. /\ t \in DOMAIN PointAt[H[i].fn] /\ t \in Nat /\ Last(HandlersOf(H, i)).height \in Nat
        /\ PointAt[H[i].fn][t].height = Last(HandlersOf(H, i)).height + 1
        /\ PointAt[H[i].fn][t].handlers = Front(HandlersOf(H, i))
        /\ \A q \in Pt(H, i).open : q < Last(HandlersOf(H, i)).height => q \in PointAt[H[i].fn][t].open
    BY <1>3, <1>5, <2>1, CaughtPoint
  <2> QED BY <1>1, <2>2
<1>7. PICK g : g = Goto(k, t)
  OBVIOUS
<1>8. /\ Struct(g, H) /\ Len(g.frames) = i /\ Last(g.frames).ip = t
      /\ g.heap = k.heap /\ g.handlers = k.handlers /\ g.open = k.open /\ g.runs = k.runs
  BY <1>2, <1>3, <1>6, <1>7, GotoStruct
<1>9. PICK hs, rs, fs, heap, open : hs = k.handlers /\ rs = k.runs /\ fs = g.frames /\ heap = k.heap /\ open = k.open
  OBVIOUS
<1>10. Body(fs, hs, rs, heap, H) /\ OpenKept(open, heap, fs, H) /\ HandlersKept(hs, rs, H)
  BY <1>8, <1>9 DEF Struct, Body
<1>11. HandlersKept(Front(hs), rs, Turn(H, t)) /\ Len(Front(hs)) = Upto(Turn(H, t), Len(H))
  <2>1. Len(hs) = Upto(H, Len(H)) /\ HandlersOf(H, Len(H)) # <<>> /\ t \in DOMAIN PointAt[H[Len(H)].fn]
        /\ PointAt[H[Len(H)].fn][t].handlers = Front(HandlersOf(H, Len(H)))
    BY <1>1, <1>2, <1>3, <1>5, <1>6, <1>9
  <2> QED BY <1>3, <1>10, <2>1, HandlerPopped
<1>12. H[i].slots \in Int
  BY <1>3, ViewFacts
<1>13. ASSUME NEW u \in open
       PROVE  heap[u].slot - H[Len(H)].slots \in Pt(H, Len(H)).open
                  => heap[u].slot - H[Len(H)].slots \in PointAt[H[Len(H)].fn][t].open
  <2>1. PICK s, q : s = heap[u].slot /\ q = s - H[i].slots
    OBVIOUS
  <2>2. s \in Int /\ s < low
    BY <1>2, <1>9, <2>1
  <2>3. low \in Int
    BY DEF Cut
  <2>4. q < e.height
    BY <1>5, <1>6, <1>12, <2>1, <2>2, <2>3
  <2>5. q \in p.open => q \in at[t].open
    BY <1>6, <2>4
  <2> QED BY <1>1, <1>3, <2>1, <2>5
<1>14. t \in DOMAIN PointAt[H[Len(H)].fn]
  BY <1>1, <1>3, <1>6
<1>15. OpenKept(open, heap, fs, Turn(H, t))
  BY <1>3, <1>10, <1>13, <1>14, TurnOpen
<1>16. m.frames = fs /\ m.handlers = Front(hs) /\ m.runs = rs /\ m.heap = heap /\ m.open = open
  BY <1>1, <1>7, <1>9
<1>17. Poised(m, Turn(H, t))
  <2>1. Body(m.frames, hs, m.runs, m.heap, H) /\ Len(H) = Len(m.frames) /\ Last(m.frames).ip = t
    BY <1>3, <1>8, <1>9, <1>10, <1>16
  <2>2. HandlersKept(m.handlers, m.runs, Turn(H, t)) /\ Len(m.handlers) = Upto(Turn(H, t), Len(H))
        /\ OpenKept(m.open, m.heap, m.frames, Turn(H, t))
    BY <1>11, <1>15, <1>16
  <2> QED BY <1>14, <2>1, <2>2, TurnStep
<1>18. m.top = Rest(Turn(H, t), Len(Turn(H, t)))
  <2>1. PICK X : X = Turn(H, t)
    OBVIOUS
  <2>2. Len(X) = i /\ X[i].slots = H[i].slots /\ Pt(X, i) = at[t]
    <3>1. /\ Len(Turn(H, t)) = Len(H) /\ Pt(Turn(H, t), Len(H)) = PointAt[H[Len(H)].fn][t]
          /\ \A j \in DOMAIN H : Turn(H, t)[j].slots = H[j].slots
      BY <1>3, <1>14, TurnViews
    <3> QED BY <1>1, <1>3, <2>1, <3>1
  <2>3. Rest(X, i) = H[i].slots + (e.height + 1) - 1
    BY <1>6, <2>2 DEF Rest
  <2>4. m.top = H[i].slots + e.height - 1 + 1
    BY <1>5
  <2>5. H[i].slots + e.height - 1 + 1 = H[i].slots + (e.height + 1) - 1
    BY <1>6, <1>12
  <2> QED BY <2>1, <2>2, <2>3, <2>4, <2>5
<1> QED BY <1>17, <1>18 DEF Running

\* The handler on top, or none.
LEMMA CatchGood ==
    ASSUME SoundCode, Good(vm), Catch
    PROVE  Good(vm')
<1>1. vm.status = "raised" /\ Handled
  BY DEF Catch
<1>a. PICK f : f = FreshHandlers
  OBVIOUS
<1>b. PICK h : h = Last(f)
  OBVIOUS
<1>c. PICK n : n = Min({h.frame, Len(vm.frames)})
  OBVIOUS
<1>d. PICK gone : gone = {vm.frames[j].slots : j \in n + 1 .. Len(vm.frames)}
  OBVIOUS
<1>e. PICK low : low = Min(gone \union {h.depth + 1})
  OBVIOUS
<1>f. PICK c : c = CloseUpvalues(vm, low)
  OBVIOUS
<1>g. PICK m : m = [c EXCEPT !.frames = SubSeq(@, 1, n), !.top = h.depth, !.handlers = Front(f),
                             !.status = "running"]
  OBVIOUS
<1>2. /\ f = FreshHandlers /\ h = Last(f) /\ n = Min({h.frame, Len(vm.frames)})
      /\ gone = {vm.frames[j].slots : j \in n + 1 .. Len(vm.frames)}
      /\ low = Min(gone \union {h.depth + 1}) /\ c = CloseUpvalues(vm, low)
      /\ m = [c EXCEPT !.frames = SubSeq(@, 1, n), !.top = h.depth, !.handlers = Front(f),
                       !.status = "running"]
  BY <1>a, <1>b, <1>c, <1>d, <1>e, <1>f, <1>g
<1>3. vm' = IF n = 0 THEN [vm EXCEPT !.status = "crashed"] ELSE Goto(Push(m, vm.exc), h.ip)
  BY <1>a, <1>b, <1>c, <1>d, <1>e, <1>f, <1>g DEF Catch, Becomes
<1>4. Over(vm.handlers, HandlerType) /\ Fields(vm) /\ (Fallen(vm) \/ \E G : Struct(vm, G))
  <2>1. Fallen(vm) \/ \E G : Struct(vm, G)
    BY <1>1 DEF Good
  <2>2. CASE Fallen(vm)
    BY <2>1, <2>2 DEF Fallen
  <2>3. CASE \E G : Struct(vm, G)
    <3>1. PICK G : Struct(vm, G)
      BY <2>3
    <3> QED BY <2>1, <3>1, StructFacts DEF Struct
  <2> QED BY <2>1, <2>2, <2>3
<1>5. f # <<>> /\ h.base = RunOf(vm).base
  BY <1>1, <1>2 DEF Handled
<1>6. h \in HandlerType
  <2>1. PICK x \in 0 .. Len(vm.handlers) : f = SubSeq(vm.handlers, 1, x)
    BY <1>2, <1>4, FreshPrefix
  <2>2. Over(f, HandlerType)
    BY <1>4, <2>1, OverPrefix
  <2>3. h = f[Len(f)] /\ Len(f) \in DOMAIN f
    BY <1>2, <1>5, <2>2, SeqFront DEF Over
  <2> QED BY <2>2, <2>3 DEF Over
<1>7. h.frame \in Nat \ {0} /\ h.depth \in Int /\ h.ip \in Nat
  BY <1>6 DEF HandlerType
<1>8. CASE Fallen(vm)
  <2>1. vm.frames = <<>>
    BY <1>8 DEF Fallen
  <2>2. Len(vm.frames) = 0
    BY <2>1
  <2>3. n = 0
    <3>1. PICK S : S = {h.frame, 0}
      OBVIOUS
    <3>2. n = Min(S)
      BY <1>2, <2>2, <3>1
    <3>3. \E x \in S : \A y \in S : x <= y
      BY <1>7, <3>1
    <3>4. n \in S /\ \A y \in S : n <= y
      BY <3>2, <3>3, MinIs
    <3> QED BY <1>7, <3>1, <3>4
  <2>4. vm'.status = "crashed"
    BY <1>3, <1>4, <2>3 DEF Fields
  <2> QED BY <2>4 DEF Good
<1>9. CASE \E G : Struct(vm, G)
  <2>1. PICK G : Struct(vm, G)
    BY <1>9
  <2>2. f = SubSeq(vm.handlers, 1, Upto(G, Len(G)))
    BY <1>2, <2>1, FreshKept
  <2>3. Upto(G, Len(G)) \in Nat /\ Upto(G, Len(G)) \in 0 .. Len(vm.handlers) /\ IsSeq(vm.handlers)
    <3>1. Views(G) /\ Len(G) \in DOMAIN G /\ Len(vm.handlers) \in Nat /\ IsSeq(vm.handlers)
      BY <2>1, StructFacts DEF Over
    <3>2. Upto(G, Len(G)) <= Len(vm.handlers)
      BY <2>1 DEF Struct, Body, HandlersKept
    <3>3. Upto(G, Len(G)) \in Nat
      BY <3>1, ViewFacts
    <3> QED BY <3>1, <3>2, <3>3
  <2>4. PICK U : U = Upto(G, Len(G))
    OBVIOUS
  <2>5. IsSeq(f) /\ Len(f) = U /\ \A j \in 1 .. U : f[j] = vm.handlers[j]
    BY <2>2, <2>3, <2>4, SeqPrefix
  <2>6. U > 0 /\ h = vm.handlers[U]
    <3>1. Len(f) \in Nat /\ Len(f) > 0 /\ h = f[Len(f)]
      BY <1>2, <1>5, <2>5, SeqFront, SeqLen
    <3> QED BY <2>5, <3>1
  <2>7. PICK i : CaughtBy(G, i, h)
    <3>1. h.base = Last(vm.runs).base
      BY <1>5 DEF RunOf
    <3> QED BY <2>1, <2>4, <2>6, <3>1, CatchTarget
  <2>8. /\ Len(vm.frames) \in Nat /\ i \in Nat \ {0} /\ i <= Len(vm.frames) /\ Over(vm.frames, FrameType)
        /\ DOMAIN vm.frames = 1 .. Len(vm.frames)
    <3>1. i \in DOMAIN G
      BY <2>7 DEF CaughtBy
    <3>2. DOMAIN G = 1 .. Len(G) /\ Len(G) \in Nat /\ Len(G) <= Len(vm.frames) /\ Len(vm.frames) \in Nat
      BY <2>1, StructFacts
    <3> QED BY <2>1, <3>1, <3>2, StructFacts
  <2>9. n = i
    <3>1. PICK S : S = {i, Len(vm.frames)}
      OBVIOUS
    <3>2. n = Min(S)
      BY <1>2, <2>7, <3>1 DEF CaughtBy
    <3>3. \E x \in S : \A y \in S : x <= y
      BY <2>8, <3>1
    <3>4. n \in S /\ \A y \in S : n <= y
      BY <3>2, <3>3, MinIs
    <3>5. n <= i
      BY <3>1, <3>4
    <3> QED BY <2>8, <3>1, <3>4, <3>5
  <2>10. low \in Int /\ low <= h.depth + 1 /\ \A j \in i + 1 .. Len(vm.frames) : low <= vm.frames[j].slots
    <3>1. PICK s, S : /\ s = [j \in 1 .. Len(vm.frames) |-> vm.frames[j].slots]
                      /\ S = {s[j] : j \in i + 1 .. Len(vm.frames)} \union {h.depth + 1}
      OBVIOUS
    <3>2. \A j \in i + 1 .. Len(vm.frames) : j \in 1 .. Len(vm.frames) /\ s[j] = vm.frames[j].slots /\ s[j] \in Int
      <4> TAKE j \in i + 1 .. Len(vm.frames)
      <4>1. j \in 1 .. Len(vm.frames)
        BY <2>8
      <4>2. vm.frames[j].slots \in Int
        BY <2>8, <4>1 DEF Over, FrameType
      <4> QED BY <3>1, <4>1, <4>2
    <3>3. gone \union {h.depth + 1} = S
      BY <1>2, <2>9, <3>1, <3>2
    <3>4. PICK d : d = h.depth + 1
      OBVIOUS
    <3>5. d \in Int
      BY <1>7, <3>4
    <3>6. \E x \in S : \A y \in S : x <= y
      <4>1. PICK b : b = Len(vm.frames)
        OBVIOUS
      <4>2. \A j \in i + 1 .. b : s[j] \in Int
        BY <3>2, <4>1
      <4>3. b \in Nat /\ i \in Nat
        BY <2>8, <4>1
      <4>4. \A x : x \in S <=> (x = d \/ \E j \in i + 1 .. b : x = s[j])
        BY <3>1, <3>4, <4>1
      <4>5. Above(i, b, s, d, S)
        BY <3>5, <4>2, <4>3, <4>4 DEF Above
      <4> QED BY <4>5, LeastOf
    <3>7. low \in S /\ \A y \in S : low <= y
      BY <1>2, <3>3, <3>6, MinIs
    <3>8. low \in Int
      BY <3>1, <3>2, <3>4, <3>5, <3>7
    <3>9. \A j \in i + 1 .. Len(vm.frames) : s[j] \in S
      BY <3>1
    <3> QED BY <3>1, <3>2, <3>7, <3>8, <3>9
  <2>11. PICK k : k = [c EXCEPT !.frames = SubSeq(@, 1, i), !.handlers = f]
    OBVIOUS
  <2>12. Ready(c) /\ c.frames = vm.frames /\ c.runs = vm.runs /\ c.handlers = vm.handlers
    BY <1>2, <2>1, StructFacts, CloseFacts
  <2>13. Cut(G, i, low, c, k)
    <3>1. /\ Fields(k) /\ k.frames = SubSeq(vm.frames, 1, i) /\ k.runs = vm.runs /\ k.heap = c.heap
          /\ k.open = c.open /\ k.handlers = f
      BY <2>11, <2>12 DEF Ready, Fields
    <3> QED BY <1>2, <2>2, <2>10, <3>1 DEF Cut
  <2>14. vm' = Goto(Push(m, vm.exc), h.ip)
    BY <1>3, <2>8, <2>9
  <2>15. /\ Fields(vm') /\ vm'.frames = Goto(k, h.ip).frames /\ vm'.handlers = Front(k.handlers)
         /\ vm'.runs = k.runs /\ vm'.heap = k.heap /\ vm'.open = k.open /\ vm'.top = h.depth + 1
         /\ vm'.status = "running"
    <3>1. /\ Fields(m) /\ m.frames = k.frames /\ m.handlers = Front(k.handlers) /\ m.runs = k.runs
          /\ m.heap = k.heap /\ m.open = k.open /\ m.top = h.depth /\ m.status = "running" /\ Fields(k)
      BY <1>2, <2>9, <2>11, <2>12 DEF Ready, Fields
    <3>2. PICK q : q = Push(m, vm.exc)
      OBVIOUS
    <3>3. /\ Fields(q) /\ q.frames = k.frames /\ q.handlers = Front(k.handlers) /\ q.runs = k.runs
          /\ q.heap = k.heap /\ q.open = k.open /\ q.top = h.depth + 1 /\ q.status = "running"
      BY <3>1, <3>2 DEF Push, Fields
    <3>4. vm' = Goto(q, h.ip)
      BY <2>14, <3>2
    <3> QED BY <3>1, <3>3, <3>4 DEF Goto, Fields
  <2>16. \E X : Running(vm', X)
    <3>1. PICK w : w = vm'
      OBVIOUS
    <3>2. \E X : Running(w, X)
      BY <2>1, <2>7, <2>10, <2>13, <2>15, <3>1, CaughtGood
    <3> QED BY <3>1, <3>2
  <2> QED BY <2>15, <2>16 DEF Good
<1> QED BY <1>4, <1>8, <1>9

\* Handlers that are not below those of the first frames belong to later runs.
LEMMA HandlersAbove ==
    ASSUME SoundCode, NEW G, Views(G), NEW runs, RunsFit(runs, G), NEW handlers,
           HandlersKept(handlers, runs, G), NEW b \in DOMAIN G, Last(runs).base = b
    PROVE  /\ Upto(G, b) <= Len(handlers) /\ Over(handlers, HandlerType) /\ Len(handlers) \in Nat
           /\ \A k \in Upto(G, b) + 1 .. Len(handlers) : handlers[k].base > Last(Front(runs)).base
<1>1. PICK N, R : N = Len(G) /\ R = Len(runs)
  OBVIOUS
<1>2. /\ N \in Nat \ {0} /\ DOMAIN G = 1 .. N /\ N \in DOMAIN G
      /\ \A i \in DOMAIN G : /\ G[i].below \in Nat /\ Upto(G, i) \in Nat
                             /\ DOMAIN HandlersOf(G, i) = 1 .. Len(HandlersOf(G, i))
                             /\ Len(HandlersOf(G, i)) \in Nat
                             /\ Upto(G, i) = G[i].below + Len(HandlersOf(G, i))
  <2>1. N \in Nat \ {0} /\ DOMAIN G = 1 .. N /\ N \in DOMAIN G
    BY <1>1, ViewFacts
  <2> QED BY <2>1, ViewFacts DEF Upto
<1>3. b < N /\ b \in 1 .. N
  BY <1>1, <1>2, RunBelow
<1>4. /\ Over(handlers, HandlerType) /\ Upto(G, N) <= Len(handlers)
      /\ \A i, j \in DOMAIN G : i < j => Upto(G, i) <= G[j].below
      /\ \A i \in DOMAIN G : \A k \in DOMAIN HandlersOf(G, i) :
            handlers[G[i].below + k] = Handler(runs, G, i, k)
      /\ \A k \in 1 .. Upto(G, N) : \E i \in DOMAIN G : k - G[i].below \in DOMAIN HandlersOf(G, i)
      /\ \A k \in Upto(G, N) + 1 .. Len(handlers) : handlers[k].base > b
  BY <1>1 DEF HandlersKept
<1>5. Len(handlers) \in Nat /\ DOMAIN handlers = 1 .. Len(handlers)
  BY <1>4, SeqLen DEF Over
<1>6. /\ Upto(G, b) <= G[N].below /\ Upto(G, N) = G[N].below + Len(HandlersOf(G, N))
      /\ Upto(G, b) \in Nat /\ Upto(G, N) \in Nat /\ G[N].below \in Nat /\ Len(HandlersOf(G, N)) \in Nat
  BY <1>2, <1>3, <1>4
<1>7. Upto(G, b) <= Upto(G, N) /\ Upto(G, b) <= Len(handlers)
  BY <1>4, <1>5, <1>6
<1>8. /\ R > 1 /\ R \in Nat /\ Last(Front(runs)) = runs[R - 1] /\ R - 1 \in DOMAIN runs /\ R \in DOMAIN runs
      /\ runs[R].base = b /\ runs[R - 1].base \in Nat /\ runs[R - 1].base < b
  <2>1. IsSeq(runs) /\ runs # <<>> /\ R > 1 /\ R \in Nat /\ DOMAIN runs = 1 .. R
    <3>1. IsSeq(runs) /\ runs # <<>>
      BY DEF RunsFit
    <3>2. Len(runs) > 1
      BY RunBelow
    <3> QED BY <1>1, <3>1, <3>2, SeqLen
  <2>2. Front(runs) = SubSeq(runs, 1, R - 1) /\ Last(runs) = runs[R]
    BY <1>1, <2>1, SeqFront
  <2>3. R - 1 \in 0 .. Len(runs) /\ R - 1 \in 1 .. R - 1 /\ R - 1 \in DOMAIN runs /\ R \in DOMAIN runs /\ R - 1 < R
    BY <1>1, <2>1
  <2>4. Len(Front(runs)) = R - 1 /\ Front(runs)[R - 1] = runs[R - 1]
    BY <2>1, <2>2, <2>3, SeqPrefix
  <2>5. Last(Front(runs)) = runs[R - 1]
    BY <2>4 DEF Last
  <2>6. runs[R - 1].base < runs[R].base /\ runs[R - 1].base \in Nat
    BY <2>3 DEF RunsFit, RunOK
  <2> QED BY <2>1, <2>2, <2>3, <2>5, <2>6
<1>9. ASSUME NEW k \in Upto(G, b) + 1 .. Len(handlers)
      PROVE  handlers[k].base > runs[R - 1].base
  <2>0. k \in Nat /\ k > Upto(G, b) /\ k <= Len(handlers) /\ k \in DOMAIN handlers
    BY <1>5, <1>6, <1>9
  <2>1. CASE k <= Upto(G, N)
    <3>1. k \in 1 .. Upto(G, N)
      BY <1>6, <2>0, <2>1
    <3>2. PICK i \in DOMAIN G : k - G[i].below \in DOMAIN HandlersOf(G, i)
      BY <1>4, <3>1
    <3>3. PICK j : j = k - G[i].below
      OBVIOUS
    <3>4. G[i].below + j = k /\ k <= Upto(G, i)
      <4>1. PICK w, l : w = G[i].below /\ l = Len(HandlersOf(G, i))
        OBVIOUS
      <4>2. w \in Nat /\ l \in Nat /\ j \in 1 .. l /\ Upto(G, i) = w + l /\ j = k - w
        BY <1>2, <3>2, <3>3, <4>1
      <4>3. w + j = k /\ k <= w + l
        BY <2>0, <4>2
      <4> QED BY <4>1, <4>2, <4>3
    <3>5. handlers[k].base = runs[G[i].run].base
      <4>1. handlers[G[i].below + j] = Handler(runs, G, i, j)
        BY <1>4, <3>2, <3>3
      <4> QED BY <3>4, <4>1 DEF Handler
    <3>6. b < i
      <4>1. ASSUME ~(b < i) PROVE FALSE
        <5>1. i <= b /\ i \in Nat
          BY <1>2, <1>3, <4>1
        <5>2. Upto(G, i) <= Upto(G, b)
          <6>1. CASE i = b
            BY <1>2, <6>1
          <6>2. CASE i # b
            <7>1. i < b
              BY <1>3, <5>1, <6>2
            <7>2. Upto(G, i) <= G[b].below
              BY <1>4, <7>1
            <7>3. G[b].below \in Nat /\ Len(HandlersOf(G, b)) \in Nat /\ Upto(G, i) \in Nat
                  /\ Upto(G, b) = G[b].below + Len(HandlersOf(G, b))
              BY <1>2
            <7> QED BY <7>2, <7>3
          <6> QED BY <6>1, <6>2
        <5>3. Upto(G, i) \in Nat
          BY <1>2
        <5> QED BY <1>6, <2>0, <3>4, <5>2, <5>3
      <4> QED BY <4>1
    <3>7. G[i].run = R
      <4>1. R <= G[i].run /\ G[i].run \in DOMAIN runs /\ DOMAIN runs = 1 .. R
        <5>1. IsSeq(runs)
          BY DEF RunsFit
        <5> QED BY <1>1, <1>8, <3>6, <5>1, SeqLen DEF RunsFit
      <4> QED BY <1>8, <4>1
    <3> QED BY <1>8, <3>5, <3>7
  <2>2. CASE ~(k <= Upto(G, N))
    <3>1. k \in Upto(G, N) + 1 .. Len(handlers)
      BY <1>5, <1>6, <2>0, <2>2
    <3>2. handlers[k].base > b
      BY <1>4, <3>1
    <3>3. handlers[k].base \in Nat /\ b \in Nat
      BY <1>3, <1>4, <2>0 DEF Over, HandlerType
    <3> QED BY <1>8, <3>2, <3>3
  <2> QED BY <2>1, <2>2
<1> QED BY <1>4, <1>5, <1>7, <1>8, <1>9

\* A call of vm_run is given up: its frames are not counted on any more.
LEMMA RunFails ==
    ASSUME SoundCode, NEW G, Struct(vm, G), Last(vm.runs).kind # "script",
           NEW m, Fields(m), m.frames = vm.frames, m.handlers = vm.handlers, m.heap = vm.heap,
           m.open = vm.open, m.runs = Front(vm.runs)
    PROVE  \E H : Struct(m, H)
<1>1. PICK frames, handlers, runs, heap, open, b :
          /\ frames = vm.frames /\ handlers = vm.handlers /\ runs = vm.runs /\ heap = vm.heap
          /\ open = vm.open /\ b = Last(vm.runs).base
  OBVIOUS
<1>2. Body(frames, handlers, runs, heap, G) /\ OpenKept(open, heap, frames, G)
  BY <1>1 DEF Struct
<1>3. /\ Views(G) /\ Framed(frames, heap, G) /\ RunsFit(runs, G) /\ Linked(runs, G) /\ HeapOK(heap)
      /\ HandlersKept(handlers, runs, G)
  BY <1>2 DEF Body
<1>4. IsSeq(G) /\ Len(G) \in Nat /\ DOMAIN G = 1 .. Len(G)
  BY <1>3, SeqLen DEF Views
<1>5. b \in Nat /\ b < Len(G)
  <2>1. G # <<>>
    BY <1>3 DEF Views
  <2>2. Len(G) \in DOMAIN G
    BY <1>4, <2>1, SeqLen
  <2> QED BY <1>1, <1>3, <2>2, RunBelow
<1>6. b # 0
  <2>1. Last(runs) = runs[Len(runs)] /\ Len(runs) \in Nat \ {0} /\ Len(runs) \in DOMAIN runs
    BY <1>3, LastRun
  <2>2. runs[1].kind = "script" /\ runs[1].base = 0 /\ DOMAIN runs = 1 .. Len(runs)
    <3>1. IsSeq(runs)
      BY <1>3 DEF RunsFit
    <3> QED BY <1>3, <3>1, SeqLen DEF RunsFit
  <2>3. Len(runs) # 1
    BY <1>1, <2>1, <2>2
  <2>4. 1 < Len(runs) /\ 1 \in DOMAIN runs
    BY <2>1, <2>2, <2>3
  <2>5. runs[1].base < runs[Len(runs)].base
    BY <1>3, <2>1, <2>4 DEF RunsFit
  <2> QED BY <1>1, <2>1, <2>2, <2>5
<1>7. b \in DOMAIN G
  BY <1>4, <1>5, <1>6
<1>8. PICK H, rs : H = SubSeq(G, 1, b) /\ rs = SubSeq(runs, 1, G[b].run)
  OBVIOUS
<1>9. Lower(G, b, H) /\ rs = Front(runs)
  BY <1>1, <1>3, <1>7, <1>8, LowerViews, RunBelow
<1>10. RunsFit(rs, H) /\ (\A i \in 1 .. b : rs[H[i].run] = runs[G[i].run])
  <2>1. RunsOf(G, runs, b, H, rs)
    BY <1>3, <1>8, <1>9 DEF RunsOf
  <2> QED BY <1>3, <2>1, LowerRuns
<1>11. Linked(rs, H)
  BY <1>3, <1>9, <1>10, LowerLinked
<1>12. Framed(frames, heap, H)
  BY <1>3, <1>5, <1>9, LowerFramed
<1>13. HandlersKept(handlers, rs, H)
  <2>1. /\ Upto(G, b) <= Len(handlers) /\ Over(handlers, HandlerType)
        /\ \A k \in Upto(G, b) + 1 .. Len(handlers) : handlers[k].base > Last(rs).base
    BY <1>1, <1>3, <1>7, <1>9, HandlersAbove
  <2> QED BY <1>3, <1>9, <1>10, <2>1, LowerHandlers
<1>14. OpenKept(open, heap, frames, H)
  <2>1. ASSUME NEW u \in open
        PROVE  Owned(heap[u].slot, frames, H)
    <3>1. PICK s : s = heap[u].slot
      OBVIOUS
    <3>2. u \in DOMAIN heap /\ heap[u].k = "upvalue" /\ Owned(s, frames, G)
      BY <1>2, <3>1 DEF OpenKept
    <3>3. s \in Int
      BY <1>3, <3>1, <3>2 DEF HeapOK, Object
    <3>4. Leaving(G, frames, heap, runs, b, H, s)
      BY <1>3, <1>9, <3>2, <3>3 DEF Leaving
    <3> QED BY <1>5, <3>1, <3>4, LowerOwned
  <2> QED BY <1>2, <2>1 DEF OpenKept
<1>15. Struct(m, H)
  <2>1. m.frames = frames /\ m.handlers = handlers /\ m.runs = rs /\ m.heap = heap /\ m.open = open
    BY <1>1, <1>9
  <2>2. Views(H)
    BY <1>9 DEF Lower
  <2> QED BY <1>3, <1>10, <1>11, <1>12, <1>13, <1>14, <2>1, <2>2 DEF Struct, Body
<1> QED BY <1>15

\* What every good machine with an exception or a failure has.
LEMMA FailingFacts ==
    ASSUME Good(vm), vm.status \in {"raised", "failed"}
    PROVE  /\ Fields(vm) /\ HeapOK(vm.heap) /\ Over(vm.handlers, HandlerType)
           /\ Fallen(vm) \/ \E G : Struct(vm, G)
<1>1. Fallen(vm) \/ \E G : Struct(vm, G)
  BY DEF Good
<1>2. CASE Fallen(vm)
  BY <1>1, <1>2 DEF Fallen
<1>3. CASE \E G : Struct(vm, G)
  <2>1. PICK G : Struct(vm, G)
    BY <1>3
  <2> QED BY <1>1, <2>1, StructFacts DEF Struct, Ready
<1> QED BY <1>1, <1>2, <1>3

\* vm_run returns without a frame.
LEMMA UnhandledGood ==
    ASSUME Good(vm), Unhandled
    PROVE  Good(vm')
<1>1. vm.status = "raised"
  BY DEF Unhandled
<1>2. Fields(vm) /\ HeapOK(vm.heap) /\ Over(vm.handlers, HandlerType)
  BY <1>1, FailingFacts
<1>3. PICK f : f = FreshHandlers
  OBVIOUS
<1>4. PICK c \in 0 .. Len(vm.handlers) : f = SubSeq(vm.handlers, 1, c)
  BY <1>2, <1>3, FreshPrefix
<1>5. Over(f, HandlerType)
  BY <1>2, <1>4, OverPrefix
<1>6. vm' = [vm EXCEPT !.handlers = f, !.top = 0, !.frames = <<>>, !.open = {}, !.status = "failed"]
  BY <1>3 DEF Unhandled, Becomes
<1>7. /\ Fields(vm') /\ vm'.frames = <<>> /\ vm'.handlers = f /\ vm'.heap = vm.heap
      /\ vm'.status = "failed"
  BY <1>2, <1>6 DEF Fields
<1>8. Fallen(vm')
  BY <1>2, <1>5, <1>7 DEF Fallen
<1> QED BY <1>7, <1>8 DEF Good

\* The caller of a vm_run that failed.
LEMMA FailureGood ==
    ASSUME SoundCode, Good(vm), Failure
    PROVE  Good(vm')
<1>1. vm.status = "failed"
  BY DEF Failure
<1>2. /\ Fields(vm) /\ HeapOK(vm.heap) /\ Over(vm.handlers, HandlerType)
      /\ Fallen(vm) \/ \E G : Struct(vm, G)
  BY <1>1, FailingFacts
<1>3. PICK r : r = Last(vm.runs)
  OBVIOUS
<1>4. PICK s : s = (CASE r.kind = "script" -> "error"
                      [] r.kind \in {"==", "!="} -> "failed"
                      [] OTHER -> "raised")
  OBVIOUS
<1>5. /\ Fields(vm') /\ vm'.frames = vm.frames /\ vm'.handlers = vm.handlers /\ vm'.heap = vm.heap
      /\ vm'.open = vm.open /\ vm'.runs = Front(vm.runs) /\ vm'.status = s
  BY <1>2, <1>3, <1>4 DEF Failure, Becomes, RunOf, Fields
<1>6. s # "running"
  BY <1>4
<1>7. CASE r.kind = "script"
  <2>1. s = "error"
    BY <1>4, <1>7
  <2> QED BY <1>5, <2>1 DEF Good
<1>8. CASE r.kind # "script"
  <2>1. CASE Fallen(vm)
    <3>1. Fallen(vm')
      BY <1>5, <2>1 DEF Fallen
    <3> QED BY <1>5, <1>6, <3>1 DEF Good
  <2>2. CASE \E G : Struct(vm, G)
    <3>1. PICK G : Struct(vm, G)
      BY <2>2
    <3>2. \E H : Struct(vm', H)
      <4>1. PICK m : m = vm'
        OBVIOUS
      <4>2. \E H : Struct(m, H)
        BY <1>3, <1>5, <1>8, <3>1, <4>1, RunFails
      <4> QED BY <4>1, <4>2
    <3> QED BY <1>5, <1>6, <3>2 DEF Good
  <2> QED BY <1>2, <2>1, <2>2
<1> QED BY <1>7, <1>8

(* ------------------------------ the theorems ----------------------------- *)

\* The heights at the point of a frame.
LEMMA PointFacts ==
    ASSUME SoundCode, NEW G, Views(G), NEW i \in DOMAIN G
    PROVE  /\ Pt(G, i).height \in Nat \ {0} /\ \A q \in Pt(G, i).open : q \in Nat /\ q < Pt(G, i).height
           /\ \A k \in DOMAIN HandlersOf(G, i) :
                 /\ HandlersOf(G, i)[k].height <= Pt(G, i).height
                 /\ k > 1 => HandlersOf(G, i)[k - 1].height < HandlersOf(G, i)[k].height
<1>1. PICK f, at, ip : f = Fns[G[i].fn] /\ at = PointAt[G[i].fn] /\ ip = G[i].ip
  OBVIOUS
<1>2. G[i].fn \in DOMAIN Fns /\ ip \in DOMAIN at /\ Pt(G, i) = at[ip]
  BY <1>1, ViewFacts DEF Pt
<1>3. Shaped(Fns, f, at)
  BY <1>1, <1>2 DEF SoundCode
<1>4. Sound(Fns, f, f.code[ip], at[ip])
  BY <1>2, <1>3 DEF Shaped
<1>5. PICK p : p = at[ip]
  OBVIOUS
<1>6. p \in Points /\ (\A q \in p.open : q < p.height) /\ HandlersFit(p)
  BY <1>4, <1>5 DEF Sound
<1>7. p.height \in Nat \ {0} /\ \A q \in p.open : q \in Nat
  BY <1>6 DEF Points
<1> QED BY <1>2, <1>5, <1>6, <1>7 DEF HandlersFit, HandlersOf

\* No frame has anything above the top of the stack.
LEMMA BelowTop ==
    ASSUME SoundCode, NEW G, Running(vm, G), NEW i \in DOMAIN G
    PROVE  Rest(G, i) \in Int /\ vm.top \in Int /\ Rest(G, i) <= vm.top
<1>1. PICK N, runs : N = Len(G) /\ runs = vm.runs
  OBVIOUS
<1>2. /\ Views(G) /\ RunsFit(runs, G) /\ Linked(runs, G) /\ vm.top = Rest(G, N)
      /\ N \in Nat \ {0} /\ DOMAIN G = 1 .. N /\ N \in DOMAIN G
  BY <1>1, StructFacts DEF Running, Poised, Struct, Body
<1>3. \A j \in DOMAIN G : /\ G[j].slots \in Int /\ Rest(G, j) \in Int /\ Pt(G, j).height \in Nat \ {0}
                          /\ Rest(G, j) = G[j].slots + Pt(G, j).height - 1
  BY <1>2, ViewFacts, PointFacts DEF Rest
<1>4. CASE i = N
  BY <1>2, <1>3, <1>4
<1>5. CASE i # N
  <2>1. i < N /\ i + 1 \in DOMAIN G
    BY <1>2, <1>5
  <2>2. PICK o : o = IF G[i + 1].run = G[i].run THEN 0 ELSE Offset(runs[G[i + 1].run])
    OBVIOUS
  <2>3. Rest(G, i) = G[i + 1].slots - o
    BY <1>1, <1>2, <2>1, <2>2 DEF Linked
  <2>4. o \in Nat
    <3>1. RunOK(runs[G[i + 1].run])
      BY <1>2, <2>1 DEF RunsFit
    <3> QED BY <2>2, <3>1, OffsetNat
  <2>5. G[i + 1].slots <= G[N].slots
    <3>1. CASE i + 1 = N
      BY <1>3, <2>1, <3>1
    <3>2. CASE i + 1 # N
      <4>1. i + 1 < N
        BY <1>2, <2>1, <3>2
      <4> QED BY <1>2, <2>1, <4>1 DEF Linked
    <3> QED BY <3>1, <3>2
  <2>6. PICK s, t, h : s = G[i + 1].slots /\ t = G[N].slots /\ h = Pt(G, N).height
    OBVIOUS
  <2>7. s \in Int /\ t \in Int /\ h \in Nat \ {0} /\ Rest(G, N) = t + h - 1 /\ s <= t /\ Rest(G, i) = s - o
    BY <1>2, <1>3, <2>1, <2>3, <2>5, <2>6
  <2>8. s - o <= t + h - 1
    BY <2>4, <2>7
  <2> QED BY <1>2, <1>3, <2>7, <2>8
<1> QED BY <1>4, <1>5

\* A running machine keeps the promise about upvalues.
LEMMA RunningUpvalues ==
    ASSUME SoundCode, NEW G, Running(vm, G)
    PROVE  UpvaluesLive
<1>1. Struct(vm, G) /\ Len(G) = Len(vm.frames)
  BY DEF Running, Poised
<1>2. Views(G) /\ HeapOK(vm.heap) /\ Len(G) \in Nat
  BY <1>1, StructFacts DEF Ready
<1>3. ASSUME NEW u \in vm.open
      PROVE  vm.heap[u].open /\ vm.heap[u].slot <= vm.top
  <2>1. PICK s : s = vm.heap[u].slot
    OBVIOUS
  <2>2. u \in DOMAIN vm.heap /\ vm.heap[u].k = "upvalue" /\ vm.heap[u].open /\ Owned(s, vm.frames, G)
    BY <1>1, <2>1 DEF Struct, OpenKept
  <2>3. s \in Int
    BY <1>2, <2>1, <2>2 DEF HeapOK, Object
  <2>4. PICK i \in DOMAIN G : s - G[i].slots \in Pt(G, i).open
    BY <1>1, <1>2, <2>2 DEF Owned
  <2>5. PICK a, q, h : a = G[i].slots /\ q = s - G[i].slots /\ h = Pt(G, i).height
    OBVIOUS
  <2>6. a \in Int /\ q \in Nat /\ h \in Nat /\ q < h /\ Rest(G, i) = a + h - 1 /\ s = a + q
    <3>1. a \in Int
      BY <1>2, <2>5, ViewFacts
    <3>2. q \in Nat /\ h \in Nat /\ q < h
      BY <1>2, <2>4, <2>5, PointFacts
    <3>3. Rest(G, i) = a + h - 1
      BY <2>5 DEF Rest
    <3>4. s = a + q
      BY <2>3, <2>5, <3>1
    <3> QED BY <3>1, <3>2, <3>3, <3>4
  <2>7. s <= a + h - 1
    BY <2>6
  <2>8. Rest(G, i) <= vm.top /\ vm.top \in Int
    BY BelowTop
  <2> QED BY <2>1, <2>2, <2>3, <2>6, <2>7, <2>8
<1>4. \A u, w \in vm.open : vm.heap[u].slot = vm.heap[w].slot => u = w
  BY <1>1 DEF Struct, OpenKept
<1> QED BY <1>3, <1>4 DEF UpvaluesLive

\* The stack a handler restores is above the one the handler below restores.
LEMMA HandlersRise ==
    ASSUME SoundCode, NEW G, Running(vm, G), NEW i \in DOMAIN G, NEW k \in DOMAIN HandlersOf(G, i),
           G[i].below + k > 1
    PROVE  vm.handlers[G[i].below + k - 1].depth < vm.handlers[G[i].below + k].depth
<1>1. PICK N, runs, hs : N = Len(G) /\ runs = vm.runs /\ hs = vm.handlers
  OBVIOUS
<1>2. /\ Views(G) /\ Linked(runs, G) /\ HandlersKept(hs, runs, G) /\ DOMAIN G = 1 .. N /\ N \in Nat \ {0}
      /\ N \in DOMAIN G
  BY <1>1, StructFacts DEF Running, Poised, Struct, Body
<1>3. \A j \in DOMAIN G : /\ G[j].below \in Nat /\ G[j].slots \in Int
                          /\ DOMAIN HandlersOf(G, j) = 1 .. Len(HandlersOf(G, j))
                          /\ Len(HandlersOf(G, j)) \in Nat /\ IsSeq(HandlersOf(G, j))
                          /\ Upto(G, j) = G[j].below + Len(HandlersOf(G, j)) /\ Upto(G, j) \in Nat
                          /\ \A l \in DOMAIN HandlersOf(G, j) : HandlersOf(G, j)[l].height \in Nat \ {0}
  BY <1>2, ViewFacts DEF Upto
<1>4. \A j \in DOMAIN G : \A l \in DOMAIN HandlersOf(G, j) :
          hs[G[j].below + l].depth = G[j].slots + HandlersOf(G, j)[l].height - 1
  <2> TAKE j \in DOMAIN G
  <2> TAKE l \in DOMAIN HandlersOf(G, j)
  <2>1. hs[G[j].below + l] = Handler(runs, G, j, l)
    BY <1>2 DEF HandlersKept
  <2> QED BY <2>1 DEF Handler
<1>5. PICK b, a, x : b = G[i].below /\ a = G[i].slots /\ x = HandlersOf(G, i)[k].height
  OBVIOUS
<1>6. /\ b \in Nat /\ a \in Int /\ x \in Nat \ {0} /\ k \in Nat \ {0} /\ hs[b + k].depth = a + x - 1
      /\ b + k > 1
  BY <1>3, <1>4, <1>5
<1>7. CASE k > 1
  <2>1. k - 1 \in DOMAIN HandlersOf(G, i)
    BY <1>3, <1>7
  <2>2. PICK y : y = HandlersOf(G, i)[k - 1].height
    OBVIOUS
  <2>3. y \in Nat /\ y < x /\ hs[b + (k - 1)].depth = a + y - 1
    BY <1>2, <1>3, <1>4, <1>5, <1>7, <2>1, <2>2, PointFacts
  <2>4. b + (k - 1) = b + k - 1
    BY <1>6
  <2>5. a + y - 1 < a + x - 1
    BY <1>6, <2>3
  <2> QED BY <1>1, <1>5, <1>6, <2>3, <2>4, <2>5
<1>8. CASE k = 1
  <2>1. b \in Nat \ {0}
    BY <1>6, <1>8
  <2>2. b \in 1 .. Upto(G, N)
    <3>1. Upto(G, i) <= Upto(G, N)
      <4>1. CASE i = N
        BY <1>3, <4>1
      <4>2. CASE i # N
        <5>1. i < N
          BY <1>2, <4>2
        <5>2. Upto(G, i) <= G[N].below
          BY <1>2, <5>1 DEF HandlersKept
        <5> QED BY <1>2, <1>3, <5>2
      <4> QED BY <4>1, <4>2
    <3>2. b <= Upto(G, i) /\ Upto(G, i) \in Nat /\ Upto(G, N) \in Nat
      BY <1>2, <1>3, <1>5
    <3> QED BY <2>1, <3>1, <3>2
  <2>3. PICK j \in DOMAIN G : b - G[j].below \in DOMAIN HandlersOf(G, j)
    BY <1>1, <1>2, <2>2 DEF HandlersKept
  <2>4. PICK c, l : c = G[j].below /\ l = Len(HandlersOf(G, j))
    OBVIOUS
  <2>5. c \in Nat /\ l \in Nat /\ b - c \in 1 .. l /\ Upto(G, j) = c + l
    BY <1>3, <2>3, <2>4
  <2>6. j < i
    <3>1. j # i
      BY <1>5, <1>6, <2>4, <2>5
    <3>2. ~(i < j)
      <4>1. ASSUME i < j PROVE FALSE
        <5>1. Upto(G, i) <= c
          BY <1>2, <2>4, <4>1 DEF HandlersKept
        <5>2. b <= Upto(G, i) /\ Upto(G, i) \in Nat
          BY <1>3, <1>5
        <5> QED BY <1>6, <2>5, <5>1, <5>2
      <4> QED BY <4>1
    <3> QED BY <1>2, <3>1, <3>2
  <2>7. b = c + l
    <3>1. c + l <= b
      BY <1>2, <1>5, <2>5, <2>6 DEF HandlersKept
    <3> QED BY <1>6, <2>5, <3>1
  <2>8. l \in DOMAIN HandlersOf(G, j) /\ HandlersOf(G, j) # <<>> /\ Last(HandlersOf(G, j)) = HandlersOf(G, j)[l]
    <3>1. l \in DOMAIN HandlersOf(G, j)
      BY <1>3, <2>4, <2>5
    <3>2. HandlersOf(G, j) # <<>>
      BY <1>3, <2>4, <2>5, SeqLen
    <3> QED BY <1>3, <2>4, <3>1, <3>2, SeqFront
  <2>9. PICK d, z, e : d = G[j].slots /\ z = HandlersOf(G, j)[l].height /\ e = G[j + 1].slots
    OBVIOUS
  <2>10. hs[b].depth = d + z - 1 /\ d + z - 1 < e /\ d \in Int /\ z \in Nat
    <3>1. hs[c + l].depth = d + z - 1
      BY <1>4, <2>4, <2>8, <2>9
    <3>2. j < N
      BY <1>2, <2>6
    <3>3. d + z - 1 < e
      BY <1>1, <1>2, <2>8, <2>9, <3>2 DEF Linked
    <3> QED BY <1>3, <2>7, <2>8, <2>9, <3>1, <3>3
  <2>11. e <= a /\ e \in Int
    <3>1. j + 1 \in DOMAIN G
      BY <1>2, <2>6
    <3>2. CASE j + 1 = i
      BY <1>3, <1>5, <1>6, <2>9, <3>1, <3>2
    <3>3. CASE j + 1 # i
      <4>1. j + 1 < i
        BY <1>2, <2>6, <3>3
      <4> QED BY <1>2, <1>3, <1>5, <2>9, <3>1, <4>1 DEF Linked
    <3> QED BY <3>2, <3>3
  <2>12. d + z - 1 < a + x - 1
    BY <1>6, <2>10, <2>11
  <2>13. b + k - 1 = b
    BY <1>6, <1>8
  <2> QED BY <1>1, <1>5, <1>6, <2>10, <2>12, <2>13
<1> QED BY <1>6, <1>7, <1>8

\* A running machine keeps the promise about handlers.
LEMMA RunningHandlers ==
    ASSUME SoundCode, NEW G, Running(vm, G)
    PROVE  HandlersLive
<1>1. PICK N, runs, hs, frames : N = Len(G) /\ runs = vm.runs /\ hs = vm.handlers /\ frames = vm.frames
  OBVIOUS
<1>2. /\ Views(G) /\ RunsFit(runs, G) /\ HandlersKept(hs, runs, G) /\ DOMAIN G = 1 .. N /\ N \in Nat \ {0}
      /\ N \in DOMAIN G /\ Len(frames) = N /\ Len(hs) = Upto(G, N) /\ DOMAIN hs = 1 .. Len(hs)
      /\ \A i \in DOMAIN G : frames[i].slots = G[i].slots
  BY <1>1, StructFacts DEF Running, Poised, Struct, Body, Framed
<1>3. ASSUME NEW n \in DOMAIN hs
      PROVE  /\ hs[n].frame \in hs[n].base + 1 .. N
             /\ hs[n].depth \in frames[hs[n].frame].slots .. vm.top
             /\ \E r \in DOMAIN runs : runs[r].base = hs[n].base
             /\ n > 1 => hs[n - 1].depth < hs[n].depth
  <2>1. PICK i \in DOMAIN G : n - G[i].below \in DOMAIN HandlersOf(G, i)
    BY <1>1, <1>2 DEF HandlersKept
  <2>2. PICK k : k = n - G[i].below
    OBVIOUS
  <2>3. G[i].below + k = n /\ k \in DOMAIN HandlersOf(G, i) /\ n \in Nat
    <3>1. G[i].below \in Nat /\ n \in Nat
      BY <1>2, ViewFacts
    <3> QED BY <2>1, <2>2, <3>1
  <2>4. hs[n] = Handler(runs, G, i, k)
    BY <1>2, <2>3 DEF HandlersKept
  <2>5. PICK a, x, h : a = G[i].slots /\ x = HandlersOf(G, i)[k].height /\ h = Pt(G, i).height
    OBVIOUS
  <2>6. hs[n].frame = i /\ hs[n].base = runs[G[i].run].base /\ hs[n].depth = a + x - 1
    BY <2>4, <2>5 DEF Handler
  <2>7. a \in Int /\ x \in Nat \ {0} /\ h \in Nat /\ x <= h /\ Rest(G, i) = a + h - 1
    <3>1. a \in Int /\ x \in Nat \ {0}
      BY <1>2, <2>3, <2>5, ViewFacts
    <3>2. x <= h /\ h \in Nat
      BY <1>2, <2>3, <2>5, PointFacts
    <3> QED BY <2>5, <3>1, <3>2 DEF Rest
  <2>8. Rest(G, i) <= vm.top /\ vm.top \in Int
    BY BelowTop
  <2>9. a + x - 1 \in a .. vm.top
    BY <2>7, <2>8
  <2>10. G[i].run \in DOMAIN runs /\ runs[G[i].run].base < i /\ runs[G[i].run].base \in Nat /\ i \in 1 .. N
    <3>1. G[i].run \in DOMAIN runs /\ G[i].run \in Nat
      BY <1>2, ViewFacts DEF RunsFit
    <3>2. runs[G[i].run].base < i
      BY <1>2, <3>1 DEF RunsFit
    <3> QED BY <1>2, <3>1, <3>2 DEF RunsFit, RunOK
  <2>11. hs[n].frame \in hs[n].base + 1 .. N
    BY <1>2, <2>6, <2>10
  <2>12. ASSUME n > 1 PROVE hs[n - 1].depth < hs[n].depth
    <3>1. G[i].below + k > 1
      BY <2>3, <2>12
    <3>2. vm.handlers[G[i].below + k - 1].depth < vm.handlers[G[i].below + k].depth
      BY <2>3, <3>1, HandlersRise
    <3>3. G[i].below + k - 1 = n - 1
      <4>1. G[i].below \in Nat /\ k \in Nat
        BY <1>2, <2>1, <2>2, ViewFacts
      <4>2. PICK b : b = G[i].below
        OBVIOUS
      <4>3. b \in Nat /\ b + k = n
        BY <2>3, <4>1, <4>2
      <4>4. b + k - 1 = n - 1
        BY <2>3, <4>1, <4>3
      <4> QED BY <4>2, <4>4
    <3>4. vm.handlers[n - 1].depth < vm.handlers[n].depth
      BY <2>3, <3>2, <3>3
    <3> QED BY <1>1, <3>4
  <2>13. hs[n].depth \in frames[hs[n].frame].slots .. vm.top
    BY <1>2, <2>5, <2>6, <2>9
  <2> QED BY <2>6, <2>10, <2>11, <2>12, <2>13
<1> QED BY <1>1, <1>2, <1>3 DEF HandlersLive

\* Sequences of one element and of none.
LEMMA SeqOne ==
    ASSUME NEW x
    PROVE  IsSeq(<<x>>) /\ Len(<<x>>) = 1 /\ DOMAIN <<x>> = {1} /\ <<x>>[1] = x /\ <<x>> # <<>>
<1>1. <<x>> \in Seq({x})
  OBVIOUS
<1>2. IsSeq(<<x>>)
  BY <1>1 DEF IsSeq
<1>3. Len(<<x>>) = 1 /\ DOMAIN <<x>> = 1 .. 1 /\ <<x>>[1] = x
  OBVIOUS
<1> QED BY <1>2, <1>3

\* The empty sequence.
LEMMA SeqNone == IsSeq(<<>>) /\ Len(<<>>) = 0 /\ DOMAIN <<>> = {}
<1>1. <<>> \in Seq({})
  OBVIOUS
<1> QED BY <1>1 DEF IsSeq

\* The machine that is about to run the script.
LEMMA ScriptRunning ==
    ASSUME SoundCode, NEW n, n = Len(Fns), NEW m, m = Execute(n)
    PROVE  m.status = "running" /\ \E G : Running(m, G)
<1>1. PICK f, at : f = Fns[n] /\ at = PointAt[n]
  OBVIOUS
<1>2. n \in DOMAIN Fns /\ n \in Nat
  BY SeqLen DEF SoundCode
<1>3. Shaped(Fns, f, at) /\ f.arity = 0
  BY <1>1, <1>2 DEF SoundCode
<1>4. 1 \in DOMAIN at /\ at[1].height = 1 /\ at[1].handlers = <<>>
  BY <1>3 DEF Shaped, Agrees, Entry, Point
<1>5. PICK v, G : v = [fn |-> n, ip |-> 1, slots |-> 1, run |-> 1, below |-> 0] /\ G = <<v>>
  OBVIOUS
<1>6. IsSeq(G) /\ Len(G) = 1 /\ DOMAIN G = {1} /\ G[1] = v /\ G # <<>>
  BY <1>5, SeqOne
<1>7. v.fn = n /\ v.ip = 1 /\ v.slots = 1 /\ v.run = 1 /\ v.below = 0 /\ v \in View
  BY <1>2, <1>5 DEF View
<1>8. Pt(G, 1) = at[1] /\ HandlersOf(G, 1) = <<>> /\ Upto(G, 1) = 0 /\ Rest(G, 1) = 1
  BY <1>1, <1>4, <1>6, <1>7 DEF Pt, HandlersOf, Upto, Rest
<1>9. PICK c, r, o : /\ c = [closure |-> 1, ip |-> 1, slots |-> 1] /\ r = Plain("script")
                     /\ o = [k |-> "closure", fn |-> n, ups |-> <<>>]
  OBVIOUS
<1>10. /\ Fields(m) /\ m.frames = <<c>> /\ m.handlers = <<>> /\ m.runs = <<r>> /\ m.heap = <<o>>
       /\ m.open = {} /\ m.top = 1 /\ m.status = "running"
  BY <1>9 DEF Execute, Fields
<1>11. r.kind = "script" /\ r.base = 0 /\ RunOK(r)
  BY <1>9 DEF Plain, Run, RunOK, Kinds
<1>12. c \in FrameType /\ c.closure = 1 /\ c.ip = 1 /\ c.slots = 1
  BY <1>9 DEF FrameType
<1>13. Object(o) /\ o.k = "closure" /\ o.fn = n
  BY <1>2, <1>9 DEF Object
<1>14. Views(G)
  BY <1>1, <1>2, <1>4, <1>6, <1>7 DEF Views
<1>15. HeapOK(<<o>>)
  BY <1>13, SeqOne DEF HeapOK
<1>16. Framed(<<c>>, <<o>>, G)
  <2>1. Over(<<c>>, FrameType)
    BY <1>12, SeqOne DEF Over
  <2> QED BY <1>6, <1>7, <1>12, <1>13, <2>1 DEF Framed
<1>17. RunsFit(<<r>>, G)
  <2>1. IsSeq(<<r>>) /\ <<r>> # <<>>
    BY SeqOne
  <2> QED BY <1>6, <1>7, <1>11, <2>1 DEF RunsFit
<1>18. Linked(<<r>>, G)
  BY <1>6, <1>7 DEF Linked
<1>19. HandlersKept(<<>>, <<r>>, G)
  <2>1. Over(<<>>, HandlerType) /\ Len(<<>>) = 0
    BY SeqNone DEF Over
  <2>2. DOMAIN HandlersOf(G, 1) = {}
    BY <1>8
  <2>3. /\ \A i, j \in DOMAIN G : ~(i < j)
        /\ \A i \in DOMAIN G : ~(i < Len(G)) /\ DOMAIN HandlersOf(G, i) = {}
    BY <1>6, <2>2
  <2>4. Upto(G, Len(G)) = 0 /\ 1 .. 0 = {} /\ 0 + 1 .. 0 = {}
    BY <1>6, <1>8
  <2> QED BY <1>6, <1>7, <2>1, <2>3, <2>4 DEF HandlersKept
<1>20. OpenKept({}, <<o>>, <<c>>, G)
  BY DEF OpenKept
<1>21. Struct(m, G)
  BY <1>10, <1>14, <1>15, <1>16, <1>17, <1>18, <1>19, <1>20 DEF Struct, Body
<1>22. Poised(m, G)
  <2>1. Last(m.frames) = c /\ Last(G) = v /\ Len(m.frames) = 1 /\ Len(m.handlers) = 0
    BY <1>6, <1>10 DEF Last
  <2> QED BY <1>6, <1>7, <1>8, <1>12, <1>21, <2>1 DEF Poised
<1> QED BY <1>6, <1>8, <1>10, <1>22 DEF Running

\* SoundProgram, in the words of these proofs.
LEMMA SoundIs ==
    ASSUME SoundProgram(Fns, PointAt)
    PROVE  SoundCode
<1>1. ASSUME NEW s, Listed(s)
      PROVE  IsSeq(s) /\ DOMAIN s = 1 .. Len(s)
  <2>1. PICK n : n = Len(s)
    OBVIOUS
  <2>2. n \in Int /\ s = [i \in 1 .. n |-> s[i]]
    BY <1>1, <2>1 DEF Listed
  <2> QED BY <2>1, <2>2, SeqListed
<1> HIDE DEF IsSeq
<1> QED BY <1>1 DEF SoundProgram, SoundCode

\* What every step keeps.
Sane == code = Fns /\ Good(vm)

\* vm_execute of the script is sane.
LEMMA StartSane ==
    ASSUME SoundCode, code = Fns, vm = Execute(Len(Fns))
    PROVE  Sane
<1>1. PICK m, n : n = Len(Fns) /\ m = Execute(n)
  OBVIOUS
<1>2. m.status = "running" /\ \E G : Running(m, G)
  BY <1>1, ScriptRunning
<1>3. Good(m)
  BY <1>2 DEF Good
<1> QED BY <1>1, <1>3 DEF Sane

\* A step of a running machine.
LEMMA RunningStep ==
    ASSUME SoundCode, Sane, vm.status = "running", Next
    PROVE  Good(vm')
<1>1. PICK G : Running(vm, G)
  BY DEF Sane, Good
<1>2. code = Fns
  BY DEF Sane
<1>3. CASE Literal
  BY <1>1, <1>2, <1>3, LiteralGood
<1>4. CASE LocalVariable
  BY <1>1, <1>2, <1>4, LocalVariableGood
<1>5. CASE GlobalVariable
  BY <1>1, <1>2, <1>5, GlobalVariableGood
<1>6. CASE UpvalueVariable
  BY <1>1, <1>2, <1>6, UpvalueVariableGood
<1>7. CASE CloseUpvalue
  BY <1>1, <1>2, <1>7, CloseUpvalueGood
<1>8. CASE GetAttr
  BY <1>1, <1>2, <1>8, GetAttrGood
<1>9. CASE SetAttr
  BY <1>1, <1>2, <1>9, SetAttrGood
<1>10. CASE GetIndex
  BY <1>1, <1>2, <1>10, GetIndexGood
<1>11. CASE SetIndex
  BY <1>1, <1>2, <1>11, SetIndexGood
<1>12. CASE SliceOp
  BY <1>1, <1>2, <1>12, SliceOpGood
<1>13. CASE GetIter
  BY <1>1, <1>2, <1>13, GetIterGood
<1>14. CASE PopOrDup
  BY <1>1, <1>2, <1>14, PopOrDupGood
<1>15. CASE Operator
  BY <1>1, <1>2, <1>15, OperatorGood
<1>16. CASE JumpOp
  BY <1>1, <1>2, <1>16, JumpOpGood
<1>17. CASE Collection
  BY <1>1, <1>2, <1>17, CollectionGood
<1>18. CASE CallOp
  BY <1>1, <1>2, <1>18, CallOpGood
<1>19. CASE ReturnOp
  BY <1>1, <1>2, <1>19, ReturnOpGood
<1>20. CASE ClosureOp
  BY <1>1, <1>2, <1>20, ClosureOpGood
<1>21. CASE ClassOp
  BY <1>1, <1>2, <1>21, ClassOpGood
<1>22. CASE Inherit
  BY <1>1, <1>2, <1>22, InheritGood
<1>23. CASE IsInstance
  BY <1>1, <1>2, <1>23, IsInstanceGood
<1>24. CASE GetSuperOp
  BY <1>1, <1>2, <1>24, GetSuperOpGood
<1>25. CASE YieldOp
  BY <1>1, <1>2, <1>25, YieldOpGood
<1>26. CASE PushHandler
  BY <1>1, <1>2, <1>26, PushHandlerGood
<1>27. CASE PopHandler
  BY <1>1, <1>2, <1>27, PopHandlerGood
<1>28. CASE RaiseOp
  BY <1>1, <1>2, <1>28, RaiseOpGood
<1>29. CASE Catch \/ Unhandled \/ Failure
  BY <1>29 DEF Catch, Unhandled, Failure
<1> QED BY <1>3, <1>4, <1>5, <1>6, <1>7, <1>8, <1>9, <1>10, <1>11, <1>12, <1>13, <1>14, <1>15, <1>16, <1>17, <1>18, <1>19, <1>20, <1>21, <1>22, <1>23, <1>24, <1>25, <1>26, <1>27, <1>28, <1>29 DEF Next

\* Only these three go on from an exception or a failure.
LEMMA FailingStep ==
    ASSUME SoundCode, Sane, vm.status # "running", Next
    PROVE  Good(vm')
<1>1. Catch \/ Unhandled \/ Failure
  BY DEF Next, Executing, Literal, LocalVariable, GlobalVariable, UpvalueVariable, CloseUpvalue, GetAttr,
         SetAttr, GetIndex, SetIndex, SliceOp, GetIter, PopOrDup, Operator, JumpOp, Collection, CallOp,
         ReturnOp, ClosureOp, ClassOp, Inherit, IsInstance, GetSuperOp, YieldOp, PushHandler, PopHandler,
         RaiseOp
<1>2. Good(vm)
  BY DEF Sane
<1> QED BY <1>1, <1>2, CatchGood, UnhandledGood, FailureGood

\* No step writes the code.
LEMMA CodeStays ==
    ASSUME Next
    PROVE  code' = code
BY DEF Next, Becomes, Yields, Literal, LocalVariable, GlobalVariable, UpvalueVariable, CloseUpvalue, GetAttr,
       SetAttr, GetIndex, SetIndex, SliceOp, GetIter, PopOrDup, Operator, JumpOp, Collection, CallOp,
       ReturnOp, ClosureOp, ClassOp, Inherit, IsInstance, GetSuperOp, YieldOp, PushHandler, PopHandler,
       RaiseOp, Catch, Unhandled, Failure

\* Every step keeps this.
LEMMA SaneStep ==
    ASSUME SoundCode, Sane, [Next]_machineVars
    PROVE  Sane'
<1>1. code = Fns /\ Good(vm)
  BY DEF Sane
<1>2. CASE Next
  <2>1. Good(vm')
    BY <1>2, RunningStep, FailingStep
  <2>2. code' = Fns
    BY <1>1, <1>2, CodeStays
  <2> QED BY <2>1, <2>2 DEF Sane
<1>3. CASE UNCHANGED machineVars
  BY <1>1, <1>3 DEF Sane, machineVars
<1> QED BY <1>2, <1>3

\* What the properties need of a state.
LEMMA SaneLive ==
    ASSUME SoundCode, Sane
    PROVE  UpvaluesLive /\ HandlersLive
<1>1. CASE vm.status = "running"
  <2>1. PICK G : Running(vm, G)
    BY <1>1 DEF Sane, Good
  <2> QED BY <2>1, RunningUpvalues, RunningHandlers
<1>2. CASE vm.status # "running"
  BY <1>2 DEF UpvaluesLive, HandlersLive
<1> QED BY <1>1, <1>2

\* A machine that runs sound functions stays sane.
LEMMA AlwaysSane ==
    ASSUME SoundProgram(Fns, PointAt)
    PROVE  MachineSpec(Fns) => []Sane
<1>1. SoundCode
  BY SoundIs
<1>2. code = Fns /\ vm = Execute(Len(Fns)) => Sane
  BY <1>1, StartSane
<1>3. Sane /\ [Next]_machineVars => Sane'
  BY <1>1, SaneStep
<1> QED BY <1>2, <1>3, PTL DEF MachineSpec

\* Open upvalues (capture_upvalue, close_upvalues, OP_CLOSURE, OP_RETURN,
\* OP_YIELD, flux_handle_exception): while a program with sound code runs,
\* whatever it does, each is of a slot that is still in use, and there is one
\* for a slot.
THEOREM OpenUpvaluesAreLive ==
    ASSUME SoundProgram(Fns, PointAt)
    PROVE  MachineSpec(Fns) => []UpvaluesLive
<1>1. SoundCode
  BY SoundIs
<1>2. Sane => UpvaluesLive
  BY <1>1, SaneLive
<1>3. MachineSpec(Fns) => []Sane
  BY AlwaysSane
<1> QED BY <1>2, <1>3, PTL

\* Exception handlers (OP_PUSH_HANDLER, OP_POP_HANDLER,
\* flux_handle_exception): while a program with sound code runs, each is of a
\* frame that is there and of the call of vm_run that runs it, and restores a
\* height this frame has.
THEOREM HandlersAreLive ==
    ASSUME SoundProgram(Fns, PointAt)
    PROVE  MachineSpec(Fns) => []HandlersLive
<1>1. SoundCode
  BY SoundIs
<1>2. Sane => HandlersLive
  BY <1>1, SaneLive
<1>3. MachineSpec(Fns) => []Sane
  BY AlwaysSane
<1> QED BY <1>2, <1>3, PTL
=============================================================================
