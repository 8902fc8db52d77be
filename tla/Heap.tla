-------------------------------- MODULE Heap --------------------------------
(* Strings, dicts and the garbage collector (object.c, gc.c), under the      *)
(* opcodes and dict methods that use them.  An object is what lies at an     *)
(* address, and an address that was freed may be given out again.  Hash      *)
(* collisions, tombstones, growth and the interning of strings are modelled; *)
(* the other kinds of objects, which the collector treats like dicts, and    *)
(* the byte counter that starts a collection are left out: a collection may  *)
(* start at any allocation.                                                  *)
EXTENDS Integers, Sequences, FiniteSets

CONSTANTS Addr,            \* the memory the instance has
          Chars,           \* the strings a script makes
          Hash,            \* hash_string of each of them
          Null, True,      \* the values null and true
          Empty, Gone,     \* NULL and the tombstone in the tables
          InitialCap,      \* FLUX_INITIAL_CAPACITY
          StackMax,        \* bound on the value stack
          FilledMax,       \* bound on the dicts that have slots at a time
          Reuses,          \* whether scripts store into a dict after clear()
          MainHolds        \* whether the main script awaits with objects on
                           \* its stack, and not only in globals

ASSUME HeapAssumption ==
    /\ IsFiniteSet(Addr)
    /\ Hash \in [Chars -> Nat]
    /\ InitialCap \in Nat /\ InitialCap >= 2
    /\ StackMax \in Nat /\ FilledMax \in Nat
    /\ Reuses \in BOOLEAN /\ MainHolds \in BOOLEAN
    /\ Addr \cap {Null, True, Empty, Gone} = {}
    /\ Empty # Gone
    /\ Null # True

\* A string is no address, no other value and no NULL, nor is NULL a value.
ASSUME ValuesApart ==
    /\ Chars \cap (Addr \cup {Null, True, Empty, "dict"}) = {}
    /\ Empty \notin {Null, True}

VARIABLES heap,      \* the object at each address
          strings,   \* the intern table: capacity, slots, count
          stack,     \* the value stack
          saved,     \* the stack of the main script while it awaits a coroutine
                     \* and the VM runs that one, as a sequence of 0 or 1 stacks
          pc,        \* where the VM is: running, marking or allocating
          request,   \* what it allocates after the collection
          marked,    \* the objects marked so far
          grey       \* those of them whose references are still to be marked

vars == <<heap, strings, stack, saved, pc, request, marked, grey>>

Free == [kind |-> "free"]
Live == {a \in Addr : heap[a] # Free}
IsString(a) == a \in Addr /\ heap[a].kind = "string"
IsDict(a) == a \in Addr /\ heap[a].kind = "dict"

Least(S) == CHOOSE n \in S : \A m \in S : n <= m

(* -------------------------------- probing -------------------------------- *)

\* The slot after i steps, and the steps at which a probing finds one of slots.
Slot(h, cap, i) == (h + i) % cap
Steps(h, cap, slots) == {i \in 0 .. cap - 1 : Slot(h, cap, i) \in slots}
FirstOf(h, cap, slots) == Slot(h, cap, Least(Steps(h, cap, slots)))

\* FLUX_GROW_CAPACITY.
GrowCapacity(cap) == IF cap < InitialCap THEN InitialCap ELSE cap * 2

\* As IsFull, but when no slot is left.
IsFullAtLast(t) == t.count + 1 > t.cap

\* The load at which both tables grow.
IsFull(t) == t.count + 1 > (t.cap * 3) \div 4

(* ---------------------------- the intern table --------------------------- *)

SlotsHolding(t, c) ==
    {i \in 0 .. t.cap - 1 : IsString(t.data[i]) /\ heap[t.data[i]].chars = c}
EmptySlots(t) == {i \in 0 .. t.cap - 1 : t.data[i] = Empty}

\* string_table_find: the string before the first empty slot, or Empty.
StringTableFind(t, c) ==
    IF t.cap = 0 THEN Empty
    ELSE t.data[FirstOf(Hash[c], t.cap, SlotsHolding(t, c) \cup EmptySlots(t))]

\* string_table_grow: the strings move to a table without tombstones.
FreshTable(cap) == [cap |-> cap, data |-> [i \in 0 .. cap - 1 |-> Empty], count |-> 0]
StringTablePlace(u, s) ==
    [u EXCEPT !.data[FirstOf(Hash[heap[s].chars], u.cap, EmptySlots(u))] = s,
              !.count = @ + 1]
StringTableGrow(t) ==
    LET moved[n \in 0 .. t.cap] ==
            IF n = 0 THEN FreshTable(GrowCapacity(t.cap))
            ELSE IF t.data[n - 1] \in {Empty, Gone} THEN moved[n - 1]
            ELSE StringTablePlace(moved[n - 1], t.data[n - 1])
    IN moved[t.cap]

\* As StringTableSet, but a tombstone that is used again is counted again.
StringTableSetCounts(t, a, c) ==
    LET u == IF IsFull(t) THEN StringTableGrow(t) ELSE t
        i == FirstOf(Hash[c], u.cap, {j \in 0 .. u.cap - 1 : u.data[j] \in {Empty, Gone}})
    IN [u EXCEPT !.data[i] = a, !.count = @ + 1]

\* string_table_set of the string c at address a: the first slot that is
\* empty or a tombstone.
StringTableSet(t, a, c) ==
    LET u == IF IsFull(t) THEN StringTableGrow(t) ELSE t
        i == FirstOf(Hash[c], u.cap, {j \in 0 .. u.cap - 1 : u.data[j] \in {Empty, Gone}})
    IN [u EXCEPT !.data[i] = a, !.count = IF u.data[i] = Empty THEN @ + 1 ELSE @]

\* Where string_table_remove ends for the string at a.
StringTableSlot(t, a) ==
    FirstOf(Hash[heap[a].chars], t.cap,
            {i \in 0 .. t.cap - 1 : t.data[i] \in {a, Empty}})

\* As StringTableRemove, but without tombstones.
StringTableRemoveClean(t, gone) ==
    [t EXCEPT !.data = [i \in DOMAIN @ |-> IF @[i] \in gone THEN Empty ELSE @[i]]]

\* string_table_remove of each of gone: nothing when an empty slot comes first.
StringTableRemove(t, gone) ==
    [t EXCEPT !.data = [i \in DOMAIN @ |->
        IF @[i] \in gone /\ StringTableSlot(t, @[i]) = i THEN Gone ELSE @[i]]]

(* --------------------------------- dicts --------------------------------- *)

NoEntry == [key |-> Empty, val |-> Null]
FreshDict(cap) ==
    [kind |-> "dict", cap |-> cap, count |-> 0, entries |-> [i \in 0 .. cap - 1 |-> NoEntry]]
NewDict == FreshDict(0)

\* A slot without a key is free when its value is null, and else a tombstone.
FreeSlots(d) == {i \in 0 .. d.cap - 1 : d.entries[i] = NoEntry}
KeySlots(d, k) == {i \in 0 .. d.cap - 1 : d.entries[i].key = k}
KeyHash(k) == Hash[heap[k].chars]
ProbingEnds(d, k) == FreeSlots(d) \cup KeySlots(d, k) # {}

\* As FindEntry, but a tombstone ends the search.
FindEntryAtTombstone(d, k) ==
    FirstOf(KeyHash(k), d.cap, FreeSlots(d) \cup KeySlots(d, k) \cup KeySlots(d, Empty))

\* dict_find_entry: the entry of the key, or else the first tombstone on the
\* way to the free slot, or that slot.  Keys are compared by address.
FindEntry(d, k) ==
    LET h == KeyHash(k)
        n == Least(Steps(h, d.cap, FreeSlots(d) \cup KeySlots(d, k)))
        tombs == {i \in Steps(h, d.cap, KeySlots(d, Empty)) : i < n}
    IN IF Slot(h, d.cap, n) \in KeySlots(d, k) \/ tombs = {} THEN Slot(h, d.cap, n)
       ELSE Slot(h, d.cap, Least(tombs))

\* dict_grow: the entries with a key move to slots that are all free.
DictPlace(e, entry) ==
    [e EXCEPT !.entries[FirstOf(KeyHash(entry.key), e.cap, FreeSlots(e))] = entry,
              !.count = @ + 1]
DictGrow(d) ==
    LET moved[n \in 0 .. d.cap] ==
            IF n = 0 THEN FreshDict(GrowCapacity(d.cap))
            ELSE IF d.entries[n - 1].key = Empty THEN moved[n - 1]
            ELSE DictPlace(moved[n - 1], d.entries[n - 1])
    IN moved[d.cap]

\* dict_get: Empty when there is no entry, and without looking when the count
\* is 0.
DictGet(d, k) ==
    IF d.count = 0 \/ d.entries[FindEntry(d, k)].key = Empty THEN Empty
    ELSE d.entries[FindEntry(d, k)].val

\* dict_set: a tombstone that is used again was counted before.
DictSet(d, k, v) ==
    LET e == IF IsFull(d) THEN DictGrow(d) ELSE d
        i == FindEntry(e, k)
    IN [e EXCEPT !.entries[i] = [key |-> k, val |-> v],
                 !.count = IF e.entries[i] = NoEntry THEN @ + 1 ELSE @]

DictDelete(d, k) ==
    IF DictGet(d, k) = Empty THEN d
    ELSE [d EXCEPT !.entries[FindEntry(d, k)] = [key |-> Empty, val |-> True]]

\* dict_clear_fn: the keys go, the values stay.
DictClear(d) ==
    [d EXCEPT !.entries = [i \in DOMAIN @ |-> [@[i] EXCEPT !.key = Empty]], !.count = 0]

(* ------------------------------- references ------------------------------ *)

\* As References, but of the keys only.
ReferencesOfKeys(a) ==
    IF IsDict(a) THEN {heap[a].entries[i].key : i \in 0 .. heap[a].cap - 1} \cap Addr ELSE {}

\* What blacken_object marks from an object: slots without a key are passed over.
References(a) ==
    IF IsDict(a)
    THEN (UNION {{heap[a].entries[i].key, heap[a].entries[i].val} :
                   i \in (0 .. heap[a].cap - 1) \ KeySlots(heap[a], Empty)}) \cap Addr
    ELSE {}

\* What a script gets from an object: the keys and values of a dict.
EntriesOf(d) == {e \in {d.entries[i] : i \in 0 .. d.cap - 1} : e.key # Empty}
Gets(a) ==
    IF IsDict(a) THEN {v \in Addr : \E e \in EntriesOf(heap[a]) : v = e.key \/ v = e.val}
    ELSE {}

\* All that a script can get at, now or when an await is over.
Held == UNION {{s[i] : i \in DOMAIN s} : s \in {stack} \cup {saved[j] : j \in DOMAIN saved}}
Reachable ==
    LET reach[n \in 0 .. Cardinality(Addr)] ==
          IF n = 0 THEN Held \cap Addr
          ELSE reach[n - 1] \cup UNION {Gets(a) : a \in reach[n - 1]}
    IN reach[Cardinality(Addr)]

(* -------------------------------- opcodes -------------------------------- *)

\* The operands of an opcode are locals of the running script, of which the
\* compiled code pushes copies first; a result is stored in a new local.
Locals == {stack[i] : i \in DOMAIN stack}
WholeStack == IF saved = <<>> THEN stack ELSE saved[1] \o stack
MayPush == Len(WholeStack) < StackMax
Becomes(s) == stack' = s /\ UNCHANGED <<strings, saved, pc, request, marked, grey>>
Runs == pc = "run"

Init ==
    /\ heap = [a \in Addr |-> Free]
    /\ strings = FreshTable(0)
    /\ stack = <<>> /\ saved = <<>> /\ pc = "run" /\ request = <<>>
    /\ marked = {} /\ grey = {}

\* gc_alloc_object: a collection comes first or, while an address is free, none.
\* Its roots are the value stack and, outside the model, what never holds one of
\* these objects; a stack put aside by an await is none.
CollectOrNot ==
    \/ Live' # Addr /\ pc' = "alloc" /\ UNCHANGED <<marked, grey>>
    \/ /\ pc' = "mark"
       /\ marked' = marked \cup (Locals \cap Addr)
       /\ grey' = marked' \ marked

\* The bound on memory: one address is left when all garbage is gone.
MemoryLeft == Reachable # Addr

Allocating(what) ==
    /\ MemoryLeft
    /\ request' = what
    /\ UNCHANGED <<heap, strings, stack, saved>>
    /\ CollectOrNot

\* object_string_copy of a string that a script computes.
String(c) ==
    /\ Runs /\ MayPush
    /\ LET s == StringTableFind(strings, c)
       IN \/ s # Empty /\ Becomes(Append(stack, s)) /\ UNCHANGED heap
          \/ s = Empty /\ Allocating(<<c>>)

\* OP_CREATE_DICT without entries makes two dicts and drops the first.
CreateDict == Runs /\ MayPush /\ Allocating(<<"dict", "dict">>)

\* OP_POP: the last local goes out of scope.
Pop ==
    /\ Runs /\ stack # <<>>
    /\ Becomes(SubSeq(stack, 1, Len(stack) - 1))
    /\ UNCHANGED heap

\* A dict and a key of it; a probing that does not end hangs the VM.
Entry(d, k) == Runs /\ d \in Locals /\ k \in Locals /\ IsDict(d) /\ IsString(k)
Returns(d, k) == heap[d].count = 0 \/ ProbingEnds(heap[d], k)
Filled == {d \in Live : IsDict(d) /\ heap[d].cap > 0}

\* OP_SET_INDEX.  Only clear() leaves slots and a count of 0.
SetIndex(d, k) ==
    /\ Entry(d, k)
    /\ d \in Filled \/ Cardinality(Filled) < FilledMax
    /\ Reuses \/ heap[d].cap = 0 \/ heap[d].count > 0
    /\ ProbingEnds(heap[d], k) \/ IsFull(heap[d])
    /\ \E v \in Locals : heap' = [heap EXCEPT ![d] = DictSet(@, k, v)]
    /\ Becomes(stack)

\* OP_GET_INDEX; a missing key raises an exception.
GetIndex(d, k) ==
    /\ Entry(d, k) /\ MayPush /\ Returns(d, k)
    /\ DictGet(heap[d], k) # Empty
    /\ Becomes(Append(stack, DictGet(heap[d], k)))
    /\ UNCHANGED heap

\* dict_pop_fn, without a default.
DictPop(d, k) ==
    /\ Entry(d, k) /\ MayPush /\ Returns(d, k)
    /\ heap' = [heap EXCEPT ![d] = DictDelete(@, k)]
    /\ LET v == DictGet(heap[d], k)
       IN Becomes(Append(stack, IF v = Empty THEN Null ELSE v))

Clear(d) ==
    /\ Runs /\ d \in Locals /\ IsDict(d)
    /\ heap' = [heap EXCEPT ![d] = DictClear(@)]
    /\ Becomes(stack)

\* OP_AWAIT in the main script: vm_scheduler_run_step puts the stack aside and
\* runs the coroutine, and puts it back when that one has returned.
Await ==
    /\ Runs /\ MayPush /\ saved = <<>>
    /\ MainHolds \/ Held \cap Addr = {}
    /\ saved' = <<stack>> /\ stack' = <<>>
    /\ UNCHANGED <<heap, strings, pc, request, marked, grey>>
Return ==
    /\ Runs /\ saved # <<>> /\ stack # <<>>
    /\ stack' = Append(saved[1], stack[Len(stack)]) /\ saved' = <<>>
    /\ UNCHANGED <<heap, strings, pc, request, marked, grey>>

(* ------------------------------- collection ------------------------------ *)

\* trace_references: one grey object; which comes first is left open.
Blacken ==
    /\ pc = "mark"
    /\ \E a \in grey :
          /\ marked' = marked \cup References(a)
          /\ grey' = (grey \ {a}) \cup (References(a) \ marked)
    /\ UNCHANGED <<heap, strings, stack, saved, pc, request>>

\* As Sweep, but what survives stays marked.
SweepKeepingMarks ==
    /\ pc = "mark" /\ grey = {}
    /\ strings' = StringTableRemove(strings, {a \in Live \ marked : IsString(a)})
    /\ heap' = [a \in Addr |-> IF a \in Live \ marked THEN Free ELSE heap[a]]
    /\ pc' = "alloc"
    /\ UNCHANGED <<stack, saved, request, marked, grey>>

\* sweep.
Sweep ==
    /\ pc = "mark" /\ grey = {}
    /\ LET gone == Live \ marked
       IN /\ strings' = StringTableRemove(strings, {a \in gone : IsString(a)})
          /\ heap' = [a \in Addr |-> IF a \in gone THEN Free ELSE heap[a]]
    /\ marked' = {} /\ pc' = "alloc"
    /\ UNCHANGED <<stack, saved, request, grey>>

\* An object at a free address; the last one of a request goes on the stack.
Allocate ==
    /\ pc = "alloc"
    /\ \E a \in Addr \ Live :
          LET c == Head(request)
          IN /\ heap' = [heap EXCEPT ![a] =
                    IF c = "dict" THEN NewDict ELSE [kind |-> "string", chars |-> c]]
             /\ strings' = IF c = "dict" THEN strings ELSE StringTableSet(strings, a, c)
             /\ stack' =
                    IF Len(request) = 1 THEN Append(stack, a) ELSE stack
    /\ request' = Tail(request)
    /\ IF Len(request) = 1 THEN pc' = "run" /\ UNCHANGED <<marked, grey>>
       ELSE CollectOrNot
    /\ UNCHANGED saved

Next ==
    \/ \E c \in Chars : String(c)
    \/ CreateDict \/ Pop
    \/ \E d, k \in Addr : SetIndex(d, k) \/ GetIndex(d, k) \/ DictPop(d, k)
    \/ \E d \in Addr : Clear(d)
    \/ Await \/ Return
    \/ Blacken \/ Sweep \/ Allocate

Spec == Init /\ [][Next]_vars

(* ------------------------------ properties ------------------------------- *)

IsValue(v) == v \in Addr \cup {Null, True}
TableCorrect(t) ==
    /\ t.cap \in Nat /\ t.count = t.cap - Cardinality(EmptySlots(t))
    /\ t.data \in [0 .. t.cap - 1 -> Addr \cup {Empty, Gone}]
DictCorrect(d) ==
    /\ d.cap \in Nat /\ d.count \in 0 .. d.cap
    /\ DOMAIN d.entries = 0 .. d.cap - 1
    /\ \A i \in 0 .. d.cap - 1 :
          d.entries[i].key \in Addr \cup {Empty} /\ IsValue(d.entries[i].val)

\* Every variable has its type, and the count of the intern table is that of
\* the slots in use, tombstones included.
TypeOK ==
    /\ \A a \in Addr : \/ heap[a] = Free
                       \/ IsString(a) /\ heap[a].chars \in Chars
                       \/ IsDict(a) /\ DictCorrect(heap[a])
    /\ TableCorrect(strings)
    /\ \A i \in DOMAIN stack : IsValue(stack[i])
    /\ Len(saved) < 2 /\ \A j \in DOMAIN saved : \A i \in DOMAIN saved[j] : IsValue(saved[j][i])
    /\ pc \in {"run", "mark", "alloc"}
    /\ \A i \in DOMAIN request : request[i] \in Chars \cup {"dict"}
    /\ marked \in SUBSET Addr /\ grey \in SUBSET marked

\* Interning: the table finds every live string (so no two of them have the
\* same characters, and comparing addresses compares strings), and it holds no
\* string that was freed, whatever was removed or moved in between.
Interned ==
    /\ \A a \in Live : IsString(a) => StringTableFind(strings, heap[a].chars) = a
    /\ \A i \in 0 .. strings.cap - 1 : strings.data[i] \in Live \cup {Empty, Gone}

\* A search for what is not there ends: the intern table and every dict keep
\* an empty slot that is no tombstone.
ProbesEnd ==
    /\ strings.cap > 0 => EmptySlots(strings) # {}
    /\ \A a \in Live : IsDict(a) /\ heap[a].cap > 0 => FreeSlots(heap[a]) # {}

\* No object is freed while the stack, the stack of a main script that awaits
\* or a dict refers to it.
NothingDangles ==
    /\ Held \cap Addr \subseteq Live
    /\ \A a \in Live : Gets(a) \subseteq Live

\* A collection frees whatever cannot be reached, cycles and the values of
\* removed entries included, and nothing else.
AllGarbageGoes == [][pc = "mark" /\ pc' = "alloc" => Live' = Reachable]_vars

\* What scripts see of all this is ObjectStore: strings that are their
\* characters and dicts that are maps, in a memory without limits.  A main
\* script that awaits and the coroutine share one stack there.
ContentsOf(v) == IF IsString(v) THEN heap[v].chars ELSE v
EntrySlots(d, c) ==
    {i \in 0 .. d.cap - 1 : IsString(d.entries[i].key) /\ heap[d.entries[i].key].chars = c}
Contents(d) ==
    [c \in Chars |-> IF EntrySlots(d, c) = {} THEN Empty
                     ELSE ContentsOf(d.entries[Least(EntrySlots(d, c))].val)]
Store == INSTANCE ObjectStore WITH
    Ids <- Addr, Absent <- Empty,
    stack <- [i \in DOMAIN WholeStack |-> ContentsOf(WholeStack[i])],
    dicts <- [a \in {b \in Reachable : IsDict(b)} |-> Contents(heap[a])]
StorePromise == Store!Spec
=============================================================================
