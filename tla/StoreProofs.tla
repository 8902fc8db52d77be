----------------------------- MODULE StoreProofs -----------------------------
(***************************************************************************)
(* Heap implements ObjectStore: with all its addresses, tables, tombstones *)
(* and collections, what a script sees are strings that are their          *)
(* characters and dicts that are maps.  This holds for every memory, hash  *)
(* function and bound, and for the scripts that HeapProofs is about: those *)
(* whose main part awaits with no objects on its stack and that do not     *)
(* store into a dict after clear().                                        *)
(***************************************************************************)
EXTENDS HeapProofs

USE HeapAssumption

(* ------------------------ what the abstract store reaches ----------------- *)

\* The store counts as the heap does.
LEMMA SameCardinality == \A S : Store!Cardinality(S) = Cardinality(S)
BY Zenon DEF Store!Cardinality, Cardinality

\* The dicts that s reaches through the contents m: those on s, those in what
\* is reached, and no others.
ReachedIs(R, s, m) ==
    /\ R \subseteq DOMAIN m
    /\ \A i \in DOMAIN s : s[i] \in DOMAIN m => s[i] \in R
    /\ \A d \in R, c \in Chars : m[d][c] \in DOMAIN m => m[d][c] \in R
    /\ \A S : /\ \A i \in DOMAIN s : s[i] \in DOMAIN m => s[i] \in S
              /\ \A d \in S \cap DOMAIN m, c \in Chars :
                     m[d][c] \in DOMAIN m => m[d][c] \in S
              => R \subseteq S

\* As many steps as there are dicts come to all of them.
LEMMA ReachedRight ==
    ASSUME NEW s, NEW m, IsFiniteSet(DOMAIN m)
    PROVE  ReachedIs(Store!Reached(s, m), s, m)
<1> DEFINE D == DOMAIN m
           N == Cardinality(D)
           base == {s[i] : i \in DOMAIN s} \cap D
           In(d) == {m[d][c] : c \in Chars}
           Step(S) == S \cup ((UNION {In(d) : d \in S}) \cap D)
           reach[n \in 0 .. N] ==
               IF n = 0 THEN base
               ELSE reach[n - 1] \cup
                    ((UNION {In(d) : d \in reach[n - 1]}) \cap D)
           G == [S \in SUBSET D |-> Step(S)]
           F == [n \in 1 .. N |-> G]
<1>1. N \in Nat /\ base \in SUBSET D
  BY FS_CardinalityType
<1>2. Store!Reached(s, m) = reach[N]
  BY SameCardinality DEF Store!Reached
<1>3. /\ G \in [SUBSET D -> SUBSET D] /\ \A S \in SUBSET D : S \subseteq G[S]
      /\ \A S \in SUBSET D : G[S] = Step(S)
  OBVIOUS
<1>4. F \in [1 .. N -> [SUBSET D -> SUBSET D]] /\ \A n \in 1 .. N : F[n] = G
  <2> HIDE DEF G
  <2> QED BY <1>3
<1> HIDE DEF F, G
<1>5. PICK f : Iterates(f, N, SUBSET D, base, F)
  <2> HIDE DEF base, N, D
  <2> QED BY <1>1, <1>4, Recursion
<1>6. f = [n \in 0 .. N |->
              IF n = 0 THEN base
              ELSE f[n - 1] \cup ((UNION {In(d) : d \in f[n - 1]}) \cap D)]
  <2>1. ASSUME NEW n \in 1 .. N
        PROVE  f[n] = f[n - 1] \cup ((UNION {In(d) : d \in f[n - 1]}) \cap D)
    <3>1. n - 1 \in 0 .. N /\ f[n] = F[n][f[n - 1]] /\ f[n - 1] \in SUBSET D
      <4> HIDE DEF base, N, D
      <4> QED BY <1>1, <1>5 DEF Iterates
    <3>2. F[n][f[n - 1]] = Step(f[n - 1])
      <4> HIDE DEF Step
      <4> QED BY <1>3, <1>4, <3>1
    <3> QED BY <3>1, <3>2
  <2> HIDE DEF base, N, D, In
  <2> QED BY <1>1, <1>5, <2>1 DEF Iterates
<1>7. reach = [n \in 0 .. N |->
                  IF n = 0 THEN base
                  ELSE reach[n - 1] \cup
                       ((UNION {In(d) : d \in reach[n - 1]}) \cap D)]
  <2> HIDE DEF base, N, D, In
  <2> QED BY <1>6, Zenon
<1> HIDE DEF reach
<1>8. Grows(reach, D, base, G)
  <2> HIDE DEF base, D, In
  <2>1. reach[0] = base
    BY <1>1, <1>7
  <2>2. ASSUME NEW n \in 1 .. N, reach[n - 1] \in SUBSET D
        PROVE  reach[n] = G[reach[n - 1]]
    <3>1. n \in 0 .. N /\ n # 0
      BY <1>1
    <3>2. reach[n] = Step(reach[n - 1])
      <4> HIDE DEF N
      <4> QED BY <1>7, <3>1
    <3> HIDE DEF Step
    <3> QED BY <1>3, <2>2, <3>2
  <2> QED BY <2>1, <2>2 DEF Grows
<1>9. IsClosure(reach[N], D, base, G)
  <2> HIDE DEF Step, D, base
  <2> QED BY <1>1, <1>3, <1>8, Closure DEF D
<1> HIDE DEF N
<1>10. /\ reach[N] \subseteq D
       /\ \A i \in DOMAIN s : s[i] \in D => s[i] \in reach[N]
  BY <1>9 DEF IsClosure
<1>11. ASSUME NEW d \in reach[N], NEW c \in Chars, m[d][c] \in D
       PROVE  m[d][c] \in reach[N]
  <2>1. Step(reach[N]) = reach[N]
    BY <1>3, <1>9 DEF IsClosure
  <2> QED BY <1>11, <2>1
<1>12. ASSUME NEW S,
              \A i \in DOMAIN s : s[i] \in D => s[i] \in S,
              \A d \in S \cap D, c \in Chars : m[d][c] \in D => m[d][c] \in S
       PROVE  reach[N] \subseteq S
  <2>1. base \subseteq S
    BY <1>12
  <2>2. ASSUME NEW R \in SUBSET D, R \subseteq S
        PROVE  G[R] \subseteq S
    <3>1. G[R] = Step(R)
      BY <1>3
    <3> QED BY <1>12, <2>2, <3>1
  <2> QED BY <1>9, <2>1, <2>2 DEF IsClosure
<1> QED BY <1>2, <1>10, <1>11, <1>12 DEF ReachedIs

(* -------------------------- what the heap stands for ---------------------- *)

\* What HeapProofs shows of these scripts.
HeapRight == Typed /\ TableRight /\ MarkingRight /\ DictsRight

DictContents(a) == Contents(heap[a])

\* A string stands for its characters, any other value for itself, and neither
\* for no entry.
LEMMA ContentsOfValue ==
    ASSUME Typed, NEW v \in Values
    PROVE  /\ v \notin Addr => ContentsOf(v) = v
           /\ IsString(v) => ContentsOf(v) = heap[v].chars /\ ContentsOf(v) \in Chars
           /\ ContentsOf(v) \in Addr => v = ContentsOf(v) /\ ~ IsString(v)
           /\ ~ IsString(v) => ContentsOf(v) = v
           /\ ContentsOf(v) # Empty
<1>1. IsString(v) => v \in Addr /\ heap[v].chars \in Chars
  BY ObjectIs DEF IsString
<1> QED BY <1>1, ValuesApart DEF ContentsOf, IsString, Values

\* A dict stands for the map that its entries are.
ContentsAre(a) ==
    /\ DictContents(a) = [c \in Chars |-> DictContents(a)[c]]
    /\ \A e \in EntriesOf(heap[a]) :
           /\ e.val \in Values /\ IsString(e.key) /\ heap[e.key].chars \in Chars
           /\ DictContents(a)[heap[e.key].chars] = ContentsOf(e.val)
    /\ \A c \in Chars :
           (\A e \in EntriesOf(heap[a]) : heap[e.key].chars # c) =>
               DictContents(a)[c] = Empty

ContentsRight == \A a \in Addr : IsDict(a) => ContentsAre(a)

\* In a right heap every dict does.
LEMMA HeapContents == HeapRight => ContentsRight
<1> SUFFICES ASSUME HeapRight, NEW a \in Addr, IsDict(a)
             PROVE  ContentsAre(a)
  BY DEF ContentsRight
<1> DEFINE d == heap[a]
<1>1. /\ Typed /\ TableRight /\ d.cap \in Nat /\ d \in DictsOf(d.cap)
      /\ KeysPlaced(d) /\ \A e \in EntriesOf(d) : IsString(e.key)
  BY ObjectIs DEF HeapRight, DictsRight
<1>2. /\ DictContents(a) = [c \in Chars |-> DictContents(a)[c]]
      /\ \A c \in Chars :
             DictContents(a)[c] =
                 IF EntrySlots(d, c) = {} THEN Empty
                 ELSE ContentsOf(d.entries[Least(EntrySlots(d, c))].val)
  BY DEF DictContents, Contents
<1> HIDE DEF d
<1>3. ASSUME NEW e \in EntriesOf(d)
      PROVE  /\ e.val \in Values /\ IsString(e.key) /\ heap[e.key].chars \in Chars
             /\ DictContents(a)[heap[e.key].chars] = ContentsOf(e.val)
  <2> DEFINE c == heap[e.key].chars
             S == EntrySlots(d, c)
  <2>1. IsString(e.key) /\ e.key \in Addr
    BY <1>1 DEF IsString
  <2>2. c \in Chars
    BY <1>1, <2>1, ObjectIs
  <2>3. PICK i \in 0 .. d.cap - 1 : e = d.entries[i]
    BY DEF EntriesOf
  <2>4. e.val \in Values
    BY <1>1, <2>3 DEF DictsOf, EntryRecords, Values
  <2>5. i \in S /\ S \in SUBSET Nat
    BY <1>1, <2>1, <2>3 DEF EntrySlots
  <2>6. Least(S) \in S
    <3> HIDE DEF S
    <3> QED BY <2>5, LeastExists
  <2> DEFINE f == d.entries[Least(S)]
  <2>7. IsString(f.key) /\ heap[f.key].chars = c /\ Least(S) \in 0 .. d.cap - 1
    BY <2>6 DEF EntrySlots
  <2>8. f.key \in Addr /\ f.key # Empty
    BY <2>7 DEF IsString
  <2>9. f.key = e.key
    BY <1>1, <2>1, <2>7, <2>8 DEF TableRight
  <2>10. f \in EntriesOf(d)
    BY <2>7, <2>8 DEF EntriesOf
  <2> HIDE DEF f
  <2>11. f = e
    BY <1>1, <2>9, <2>10, OneEntryPerKey
  <2> QED BY <1>2, <2>1, <2>2, <2>4, <2>5, <2>11 DEF f
<1>4. ASSUME NEW c \in Chars, \A e \in EntriesOf(d) : heap[e.key].chars # c
      PROVE  DictContents(a)[c] = Empty
  <2>1. ASSUME NEW i \in EntrySlots(d, c) PROVE FALSE
    <3>1. /\ i \in 0 .. d.cap - 1 /\ IsString(d.entries[i].key)
          /\ heap[d.entries[i].key].chars = c
      BY DEF EntrySlots
    <3>2. d.entries[i].key # Empty
      BY <3>1 DEF IsString
    <3>3. d.entries[i] \in EntriesOf(d)
      BY <3>1, <3>2 DEF EntriesOf
    <3> QED BY <1>4, <3>1, <3>3
  <2> QED BY <1>2, <2>1
<1> QED BY <1>2, <1>3, <1>4 DEF ContentsAre, d

\* What StorePromise puts in the place of the stack and the dicts of the store.
BarStack == [i \in DOMAIN WholeStack |-> ContentsOf(WholeStack[i])]
Dicts == {b \in Reachable : IsDict(b)}
BarDicts == [a \in Dicts |-> DictContents(a)]

\* The stack put aside and the stack of the coroutine are one.
LEMMA WholeIs ==
    ASSUME Typed
    PROVE  /\ WholeStack \in Seq(Values)
           /\ saved = <<>> => WholeStack = stack
           /\ saved # <<>> => /\ WholeStack = saved[1] \o stack
                              /\ saved[1] \in Seq(Values)
           /\ Held = {WholeStack[i] : i \in DOMAIN WholeStack}
<1>1. stack \in Seq(Values)
  BY DEF Typed
<1>2. CASE saved = <<>>
  <2>1. WholeStack = stack
    BY <1>2 DEF WholeStack
  <2>2. {stack} \cup {saved[j] : j \in DOMAIN saved} = {stack}
    BY <1>2
  <2>3. Held = {stack[i] : i \in DOMAIN stack}
    BY <2>2 DEF Held
  <2> QED BY <1>1, <1>2, <2>1, <2>3
<1>3. CASE saved # <<>>
  <2> DEFINE old == saved[1]
  <2>1. saved = <<old>> /\ old \in Seq(Values)
    BY <1>3 DEF Typed
  <2>2. WholeStack = old \o stack
    BY <1>3 DEF WholeStack
  <2>3. {stack} \cup {saved[j] : j \in DOMAIN saved} = {stack, old}
    <3>1. DOMAIN saved = {1}
      BY <2>1
    <3> QED BY <3>1
  <2> HIDE DEF old
  <2>4. Held = {stack[i] : i \in DOMAIN stack} \cup {old[i] : i \in DOMAIN old}
    BY <2>3 DEF Held
  <2>5. /\ old \o stack \in Seq(Values)
        /\ Len(old) \in Nat /\ Len(stack) \in Nat
        /\ DOMAIN old = 1 .. Len(old) /\ DOMAIN stack = 1 .. Len(stack)
        /\ DOMAIN (old \o stack) = 1 .. Len(old) + Len(stack)
        /\ \A i \in 1 .. Len(old) + Len(stack) :
               (old \o stack)[i] = IF i <= Len(old) THEN old[i]
                                   ELSE stack[i - Len(old)]
    BY <1>1, <2>1, ConcatProperties
  <2> DEFINE whole == old \o stack
             all == {whole[i] : i \in DOMAIN whole}
  <2> HIDE DEF whole
  <2>6. ASSUME NEW i \in DOMAIN stack PROVE stack[i] \in all
    <3>1. Len(old) + i \in DOMAIN whole /\ whole[Len(old) + i] = stack[i]
      BY <2>5 DEF whole
    <3> QED BY <3>1
  <2>7. ASSUME NEW i \in DOMAIN old PROVE old[i] \in all
    <3>1. i \in DOMAIN whole /\ whole[i] = old[i]
      BY <2>5 DEF whole
    <3> QED BY <3>1
  <2>8. ASSUME NEW i \in DOMAIN whole PROVE whole[i] \in Held
    <3>1. \/ i \in DOMAIN old /\ whole[i] = old[i]
          \/ i - Len(old) \in DOMAIN stack /\ whole[i] = stack[i - Len(old)]
      BY <2>5 DEF whole
    <3> QED BY <2>4, <3>1
  <2>9. Held = all
    BY <2>4, <2>6, <2>7, <2>8
  <2> QED BY <1>3, <2>1, <2>2, <2>5, <2>9 DEF old, whole
<1> QED BY <1>2, <1>3

\* What can be reached is alive.
LEMMA ReachableLives ==
    ASSUME HeapRight
    PROVE  /\ Reachable \in SUBSET Addr /\ Reachable \subseteq Live
           /\ Held \cap Addr \subseteq Reachable
           /\ \A a \in Reachable : /\ Gets(a) \subseteq Reachable
                                   /\ IsString(a) \/ IsDict(a)
<1>1. /\ Reachable \in SUBSET Addr /\ Enough(Reachable)
      /\ \A S \in SUBSET Addr : Enough(S) => Reachable \subseteq S
  BY ReachableRight
<1>2. Enough(Live) /\ Live \in SUBSET Addr
  BY DEF HeapRight, MarkingRight, NothingDangles, Enough, Live
<1>3. Reachable \subseteq Live
  BY <1>1, <1>2
<1> QED BY <1>1, <1>3, ObjectIs DEF Enough, HeapRight

\* m knows the dicts that can be reached.
Matches(m) ==
    /\ DOMAIN m \subseteq Addr /\ Dicts \subseteq DOMAIN m
    /\ \A d \in Dicts : m[d] = DictContents(d)

\* Then the store reaches through m just these dicts.
Corresponds ==
    \A s, m : s = BarStack /\ Matches(m) => Store!Reached(s, m) = Dicts

\* A right heap corresponds to the store.
LEMMA HeapCorresponds == HeapRight => Corresponds
<1> SUFFICES ASSUME HeapRight, NEW s, NEW m, s = BarStack, Matches(m)
             PROVE  Store!Reached(s, m) = Dicts
  BY DEF Corresponds
<1> DEFINE R == Store!Reached(s, m)
<1>1. /\ DOMAIN m \in SUBSET Addr /\ Dicts \subseteq DOMAIN m
      /\ \A d \in Dicts : m[d] = DictContents(d)
  BY DEF Matches
<1>2. ReachedIs(R, s, m)
  <2>1. IsFiniteSet(DOMAIN m)
    BY <1>1, FS_Subset
  <2> QED BY <2>1, ReachedRight
<1> HIDE DEF R
<1>3. /\ Typed /\ WholeStack \in Seq(Values) /\ DOMAIN s = DOMAIN WholeStack
      /\ \A i \in DOMAIN s : s[i] = ContentsOf(WholeStack[i])
                             /\ WholeStack[i] \in Values
                             /\ WholeStack[i] \in Held
  <2>1. Typed
    BY DEF HeapRight
  <2> QED BY <2>1, WholeIs DEF BarStack
<1>4. ASSUME NEW i \in DOMAIN s, s[i] \in Addr
      PROVE  s[i] \in Dicts
  <2>1. s[i] = WholeStack[i] /\ ~ IsString(s[i])
    BY <1>3, <1>4, ContentsOfValue
  <2>2. s[i] \in Reachable
    BY <1>3, <1>4, <2>1, ReachableLives
  <2> QED BY <2>1, <2>2, ReachableLives DEF Dicts
<1>5. ASSUME NEW d \in Dicts, NEW c \in Chars, m[d][c] \in Addr
      PROVE  m[d][c] \in Dicts
  <2>1. d \in Addr /\ IsDict(d) /\ d \in Reachable /\ m[d] = DictContents(d)
    BY <1>1 DEF Dicts, IsDict
  <2>2. ContentsAre(d)
    BY <2>1, HeapContents DEF ContentsRight
  <2>3. PICK e \in EntriesOf(heap[d]) : heap[e.key].chars = c
    <3>1. Empty \notin Addr
      OBVIOUS
    <3> QED BY <1>5, <2>1, <2>2, <3>1 DEF ContentsAre
  <2>4. m[d][c] = ContentsOf(e.val) /\ e.val \in Values
    BY <2>1, <2>2, <2>3 DEF ContentsAre
  <2>5. m[d][c] = e.val /\ ~ IsString(e.val)
    BY <1>3, <1>5, <2>4, ContentsOfValue
  <2>6. e.val \in Gets(d)
    BY <1>5, <2>1, <2>5 DEF Gets
  <2> QED BY <2>1, <2>5, <2>6, ReachableLives DEF Dicts
<1>6. R \subseteq Dicts
  <2>1. \A i \in DOMAIN s : s[i] \in DOMAIN m => s[i] \in Dicts
    BY <1>1, <1>4
  <2>2. \A d \in Dicts \cap DOMAIN m, c \in Chars :
            m[d][c] \in DOMAIN m => m[d][c] \in Dicts
    BY <1>1, <1>5
  <2> QED BY <1>2, <2>1, <2>2 DEF ReachedIs
<1>7. Dicts \subseteq R
  <2> DEFINE S == {a \in Reachable : IsDict(a) => a \in R}
  <2>1. ASSUME NEW a \in Held \cap Addr PROVE a \in S
    <3>1. a \in Reachable
      BY ReachableLives
    <3>2. ASSUME IsDict(a) PROVE a \in R
      <4>1. PICK i \in DOMAIN s : a = WholeStack[i]
        BY <1>3, WholeIs
      <4>2. ~ IsString(a)
        BY <3>2 DEF IsDict, IsString
      <4>3. s[i] = a
        BY <1>3, <4>1, <4>2, ContentsOfValue
      <4>4. a \in DOMAIN m
        BY <1>1, <3>1, <3>2 DEF Dicts
      <4> QED BY <1>2, <4>3, <4>4 DEF ReachedIs
    <3> QED BY <3>1, <3>2
  <2>2. ASSUME NEW a \in S, NEW v \in Gets(a) PROVE v \in S
    <3>1. a \in Reachable /\ v \in Reachable /\ v \in Addr
      BY ReachableLives
    <3>2. ASSUME IsDict(v) PROVE v \in R
      <4>1. /\ IsDict(a) /\ a \in Addr
            /\ \E e \in EntriesOf(heap[a]) : v = e.key \/ v = e.val
        BY <3>1, ReachableLives DEF Gets
      <4>2. ContentsAre(a) /\ a \in R /\ a \in Dicts /\ v \in Dicts
        BY <3>1, <3>2, <4>1, HeapContents DEF ContentsRight, Dicts
      <4>3. PICK e \in EntriesOf(heap[a]) : v = e.key \/ v = e.val
        BY <4>1
      <4>4. ~ IsString(v)
        BY <3>2 DEF IsDict, IsString
      <4>5. /\ v = e.val /\ v \in Values /\ heap[e.key].chars \in Chars
            /\ DictContents(a)[heap[e.key].chars] = ContentsOf(v)
        BY <4>2, <4>3, <4>4 DEF ContentsAre
      <4>6. ContentsOf(v) = v
        BY <1>3, <4>4, <4>5, ContentsOfValue
      <4>7. m[a][heap[e.key].chars] = v
        BY <1>1, <4>2, <4>5, <4>6
      <4> QED BY <1>1, <1>2, <4>2, <4>5, <4>7 DEF ReachedIs
    <3> QED BY <3>1, <3>2
  <2>3. S \in SUBSET Addr
    BY ReachableLives
  <2>4. Enough(S)
    <3> HIDE DEF S
    <3> QED BY <2>1, <2>2 DEF Enough
  <2>5. Reachable \subseteq S
    <3> HIDE DEF S
    <3> QED BY <2>3, <2>4, ReachableRight
  <2> QED BY <2>5 DEF Dicts
<1> QED BY <1>6, <1>7 DEF R

(* ------------------------------ steps in general -------------------------- *)

\* The same after a step.
LEMMA HeapRightNext == HeapRight' => ContentsRight' /\ Corresponds' /\ Typed'
<1>1. HeapRight => ContentsRight /\ Corresponds /\ Typed
  BY HeapContents, HeapCorresponds DEF HeapRight
<1> QED BY <1>1, PTL

\* A set that has what is held and what is got from it has all that can be
\* reached.
ReachesLeast == \A S \in SUBSET Addr : Enough(S) => Reachable \subseteq S

\* What can be reached is the least such set.
LEMMA LeastReached == ReachesLeast
BY ReachableRight DEF ReachesLeast

\* After a step as well.
LEMMA LeastReachedNext == ReachesLeast'
BY LeastReached, PTL

\* So a step reaches no more than such a set.
LEMMA ReachesNoMore ==
    ASSUME NEW S \in SUBSET Addr, Held' \cap Addr \subseteq S,
           \A a \in S : Gets(a)' \subseteq S
    PROVE  Reachable' \subseteq S
BY LeastReachedNext DEF ReachesLeast, Enough

\* What the store reaches depends on no variable of the heap.
LEMMA ReachedRigid ==
    ASSUME NEW s, NEW m
    PROVE  Store!Reached(s, m)' = Store!Reached(s, m)
BY DEF Store!Reached

\* The store has become what a step leaves, once m has the dicts that are left.
LEMMA BecomesIs ==
    ASSUME HeapRight', NEW s, s = BarStack', NEW m, DOMAIN m \subseteq Addr,
           Dicts' \subseteq DOMAIN m, \A d \in Dicts' : m[d] = DictContents(d)'
    PROVE  Store!Becomes(s, m)
<1>1. Matches(m)'
  BY DEF Matches
<1>2. Store!Reached(s, m)' = Dicts'
  BY <1>1, HeapRightNext DEF Corresponds
<1>3. Store!Reached(s, m) = Dicts'
  BY <1>2, ReachedRigid
<1>4. BarDicts' = [d \in Store!Reached(s, m) |-> m[d]]
  BY <1>3 DEF BarDicts
<1> QED BY <1>4 DEF Store!Becomes, BarStack, BarDicts, Dicts, DictContents

\* The step keeps the strings that can be reached.
ReachableStays ==
    \A a \in Reachable : /\ IsString(a)' <=> IsString(a)
                         /\ IsString(a) => heap'[a] = heap[a]

\* Then what can be reached stands for what it stood for.
LEMMA ContentsKept ==
    ASSUME HeapRight, ReachableStays, NEW v, v \in Addr => v \in Reachable
    PROVE  ContentsOf(v)' = ContentsOf(v)
BY DEF ReachableStays, ContentsOf, IsString

\* A dict stands for M when M has the entries of the dict and no other.
LEMMA MapIs ==
    ASSUME HeapRight', NEW d \in Addr, IsDict(d)', NEW M,
           M = [c \in Chars |-> M[c]],
           \A e \in EntriesOf(heap'[d]) :
               M[heap'[e.key].chars] = ContentsOf(e.val)',
           \A c \in Chars :
               (\A e \in EntriesOf(heap'[d]) : heap'[e.key].chars # c) =>
                   M[c] = Empty
    PROVE  DictContents(d)' = M
<1>1. ContentsAre(d)'
  BY HeapRightNext DEF ContentsRight
<1> DEFINE X == DictContents(d)'
<1>2. /\ X = [c \in Chars |-> X[c]]
      /\ \A e \in EntriesOf(heap'[d]) :
             X[heap'[e.key].chars] = ContentsOf(e.val)'
      /\ \A c \in Chars :
             (\A e \in EntriesOf(heap'[d]) : heap'[e.key].chars # c) =>
                 X[c] = Empty
  BY <1>1 DEF ContentsAre
<1> HIDE DEF X
<1>3. ASSUME NEW c \in Chars PROVE X[c] = M[c]
  <2>1. CASE \E e \in EntriesOf(heap'[d]) : heap'[e.key].chars = c
    <3>1. PICK e \in EntriesOf(heap'[d]) : heap'[e.key].chars = c
      BY <2>1
    <3>2. X[heap'[e.key].chars] = ContentsOf(e.val)'
      BY <1>2, <3>1
    <3>3. M[heap'[e.key].chars] = ContentsOf(e.val)'
      BY <3>1
    <3> QED BY <3>1, <3>2, <3>3
  <2>2. CASE \A e \in EntriesOf(heap'[d]) : heap'[e.key].chars # c
    <3>1. X[c] = Empty
      BY <1>2, <2>2
    <3>2. M[c] = Empty
      BY <2>2
    <3> QED BY <3>1, <3>2
  <2> QED BY <2>1, <2>2
<1>4. [c \in Chars |-> X[c]] = [c \in Chars |-> M[c]]
  BY <1>3
<1>5. X = M
  BY <1>2, <1>4
<1> QED BY <1>5 DEF X

\* The keys of a dict that can be reached are strings that can be reached, and
\* its values are values that can.
LEMMA EntryOfReachable ==
    ASSUME HeapRight, NEW d \in Dicts, NEW e \in EntriesOf(heap[d])
    PROVE  /\ IsString(e.key) /\ e.key \in Reachable /\ e.val \in Values
           /\ e.val \in Addr => e.val \in Reachable
           /\ heap[e.key].chars \in Chars
           /\ DictContents(d)[heap[e.key].chars] = ContentsOf(e.val)
<1>1. d \in Reachable /\ IsDict(d) /\ d \in Addr
  BY DEF Dicts, IsDict
<1>2. /\ IsString(e.key) /\ e.val \in Values /\ heap[e.key].chars \in Chars
      /\ DictContents(d)[heap[e.key].chars] = ContentsOf(e.val)
  BY <1>1, HeapContents DEF ContentsRight, ContentsAre
<1>3. e.key \in Addr
  BY <1>2 DEF IsString
<1>4. e.key \in Gets(d) /\ (e.val \in Addr => e.val \in Gets(d))
  BY <1>1, <1>3 DEF Gets
<1> QED BY <1>1, <1>2, <1>4, ReachableLives

\* A dict that is not touched stands for what it stood for.
LEMMA MapKept ==
    ASSUME HeapRight, HeapRight', ReachableStays,
           NEW d \in Dicts, heap'[d] = heap[d]
    PROVE  DictContents(d)' = DictContents(d)
<1>1. d \in Addr /\ IsDict(d) /\ IsDict(d)'
  BY DEF Dicts, IsDict
<1>2. ContentsAre(d)
  BY <1>1, HeapContents DEF ContentsRight
<1>3. PICK M : M = DictContents(d)
  OBVIOUS
<1>4. ASSUME NEW e \in EntriesOf(heap[d])
      PROVE  /\ heap'[e.key].chars = heap[e.key].chars
             /\ ContentsOf(e.val)' = ContentsOf(e.val)
  BY EntryOfReachable, ContentsKept DEF ReachableStays
<1>5. M = [c \in Chars |-> M[c]]
  BY <1>2, <1>3 DEF ContentsAre
<1>6. \A e \in EntriesOf(heap'[d]) :
          M[heap'[e.key].chars] = ContentsOf(e.val)'
  BY <1>2, <1>3, <1>4 DEF ContentsAre
<1>7. \A c \in Chars :
          (\A e \in EntriesOf(heap'[d]) : heap'[e.key].chars # c) =>
              M[c] = Empty
  BY <1>2, <1>3, <1>4 DEF ContentsAre
<1>8. DictContents(d)' = M
  BY <1>1, <1>5, <1>6, <1>7, MapIs
<1> QED BY <1>3, <1>8

\* A step that nothing of this shows: the store stutters.
LEMMA Stutters ==
    ASSUME HeapRight, HeapRight', ReachableStays, WholeStack' = WholeStack,
           \A d \in Dicts' : d \in Dicts /\ heap'[d] = heap[d]
    PROVE  BarStack' = BarStack /\ BarDicts' = BarDicts
<1>1. BarStack' = BarStack
  <2>1. ASSUME NEW i \in DOMAIN WholeStack
        PROVE  ContentsOf(WholeStack[i])' = ContentsOf(WholeStack[i])
    <3>1. PICK v : v = WholeStack[i]
      OBVIOUS
    <3>2. v \in Addr => v \in Reachable
      BY <3>1, WholeIs, ReachableLives DEF HeapRight
    <3>3. ContentsOf(v)' = ContentsOf(v)
      BY <3>2, ContentsKept
    <3> QED BY <3>1, <3>3 DEF ContentsOf, IsString
  <2> QED BY <2>1 DEF BarStack
<1>2. PICK s, m : s = BarStack /\ m = BarDicts
  OBVIOUS
<1>3. Matches(m) /\ DOMAIN m = Dicts
  BY <1>2 DEF Matches, BarDicts, Dicts, IsDict
<1>4. Matches(m)'
  <2>1. Dicts' \subseteq Dicts
    OBVIOUS
  <2>2. ASSUME NEW d \in Dicts' PROVE m[d] = DictContents(d)'
    BY <1>2, <2>1, MapKept DEF BarDicts
  <2> QED BY <1>3, <2>1, <2>2 DEF Matches
<1>5. Store!Reached(s, m) = Dicts
  BY <1>2, <1>3, HeapCorresponds DEF Corresponds
<1>6. Store!Reached(s, m)' = Dicts'
  BY <1>1, <1>2, <1>4, HeapRightNext DEF Corresponds
<1>7. Dicts' = Dicts
  BY <1>5, <1>6, ReachedRigid
<1>8. \A d \in Dicts : DictContents(d)' = DictContents(d)
  BY <1>7, MapKept
<1> QED BY <1>1, <1>7, <1>8 DEF BarDicts

\* The stack of the store is a sequence.
LEMMA BarStackIs ==
    ASSUME Typed
    PROVE  /\ Len(WholeStack) \in Nat /\ DOMAIN WholeStack = 1 .. Len(WholeStack)
           /\ DOMAIN BarStack = 1 .. Len(WholeStack)
           /\ Len(BarStack) = Len(WholeStack)
           /\ \A i \in 1 .. Len(WholeStack) : BarStack[i] = ContentsOf(WholeStack[i])
           /\ \A v \in Held : \E i \in DOMAIN BarStack : BarStack[i] = ContentsOf(v)
<1>1. /\ Len(WholeStack) \in Nat /\ DOMAIN WholeStack = 1 .. Len(WholeStack)
      /\ \A v \in Held : \E i \in DOMAIN WholeStack : v = WholeStack[i]
  BY WholeIs
<1>2. BarStack = [i \in 1 .. Len(WholeStack) |-> ContentsOf(WholeStack[i])]
  BY <1>1 DEF BarStack
<1> HIDE DEF BarStack
<1>3. Len(BarStack) = Len(WholeStack)
  BY <1>1, <1>2
<1> QED BY <1>1, <1>2, <1>3

\* What is held is on the stack, after a step as well.
HeldIsWhole == Held = {WholeStack[i] : i \in DOMAIN WholeStack}

\* Every stack of the right types is so.
LEMMA WholeIsNext == Typed' => HeldIsWhole'
<1>1. Typed => HeldIsWhole
  BY WholeIs DEF HeldIsWhole
<1> QED BY <1>1, PTL

\* Appending to the end of two sequences.
LEMMA ConcatAppend ==
    ASSUME NEW S, NEW p \in Seq(S), NEW q \in Seq(S), NEW e \in S
    PROVE  p \o Append(q, e) = Append(p \o q, e)
<1>1. Append(q, e) = q \o <<e>> /\ <<e>> \in Seq(S)
  BY AppendIsConcat
<1>2. p \o q \in Seq(S)
  BY ConcatProperties
<1>3. Append(p \o q, e) = (p \o q) \o <<e>>
  BY <1>2, AppendIsConcat
<1> QED BY <1>1, <1>3, ConcatAssociative

\* Appending to a sequence of unknown elements.
LEMMA AppendTo ==
    ASSUME NEW n \in Nat, NEW s, s = [i \in 1 .. n |-> s[i]], NEW e
    PROVE  Append(s, e) = [i \in 1 .. n + 1 |-> IF i = n + 1 THEN e ELSE s[i]]
<1> DEFINE S == {s[i] : i \in 1 .. n} \cup {e}
<1>1. s \in [1 .. n -> S]
  OBVIOUS
<1>2. s \in Seq(S) /\ Len(s) = n /\ e \in S
  BY <1>1, SeqDef
<1> HIDE DEF S
<1>3. /\ Append(s, e) \in Seq(S) /\ Len(Append(s, e)) = n + 1
      /\ \A i \in 1 .. n : Append(s, e)[i] = s[i]
      /\ Append(s, e)[n + 1] = e
  BY <1>2, AppendProperties
<1>4. Append(s, e) = [i \in 1 .. n + 1 |-> Append(s, e)[i]]
  BY <1>3
<1>5. \A i \in 1 .. n + 1 :
          Append(s, e)[i] = IF i = n + 1 THEN e ELSE s[i]
  BY <1>3
<1> QED BY <1>4, <1>5

\* What is pushed on the stack is pushed on that of the store.
LEMMA Pushed ==
    ASSUME HeapRight, Typed', ReachableStays, NEW v, saved' = saved,
           stack' = Append(stack, v), NEW w, w = ContentsOf(v)'
    PROVE  /\ BarStack' = Append(BarStack, w)
           /\ Held' = Held \cup {v}
<1>1. Typed /\ stack \in Seq(Values) /\ stack' \in Seq(Values)
  BY DEF HeapRight, Typed
<1>2. PICK W : W = WholeStack
  OBVIOUS
<1>3. W \in Seq(Values) /\ v \in Values
  <2>1. stack'[Len(stack')] \in Values /\ stack'[Len(stack')] = v
    BY <1>1
  <2> QED BY <1>1, <1>2, <2>1, WholeIs
<1>4. WholeStack' = Append(W, v)
  <2>1. CASE saved = <<>>
    BY <1>2, <2>1 DEF WholeStack
  <2>2. CASE saved # <<>>
    <3>1. /\ W = saved[1] \o stack /\ saved[1] \in Seq(Values)
          /\ WholeStack' = saved[1] \o Append(stack, v)
      BY <1>1, <1>2, <2>2, WholeIs DEF WholeStack
    <3>2. saved[1] \o Append(stack, v) = Append(saved[1] \o stack, v)
      <4>1. saved[1] \in Seq(Values) /\ stack \in Seq(Values) /\ v \in Values
        BY <1>1, <1>3, <3>1
      <4>2. ASSUME NEW p \in Seq(Values), NEW q \in Seq(Values),
                   NEW e \in Values
            PROVE  p \o Append(q, e) = Append(p \o q, e)
        BY ConcatAppend
      <4> QED BY <4>1, <4>2
    <3> QED BY <3>1, <3>2
  <2> QED BY <2>1, <2>2
<1> DEFINE n == Len(W)
<1>5. /\ n \in Nat /\ DOMAIN W = 1 .. n
      /\ DOMAIN Append(W, v) = 1 .. n + 1 /\ Append(W, v)[n + 1] = v
      /\ \A i \in 1 .. n : Append(W, v)[i] = W[i]
  BY <1>3
<1>6. Held = {W[i] : i \in 1 .. n}
  BY <1>1, <1>2, <1>5, WholeIs
<1> DEFINE A == Append(W, v)
<1>7. Held' = {A[i] : i \in 1 .. n + 1}
  <2>1. Held' = {WholeStack'[i] : i \in DOMAIN WholeStack'}
    BY WholeIsNext DEF HeldIsWhole
  <2> QED BY <1>4, <1>5, <2>1
<1> HIDE DEF A, n
<1>8. Held' = Held \cup {v}
  <2>1. \A i \in 1 .. n + 1 : A[i] \in Held \cup {v}
    BY <1>5, <1>6 DEF A
  <2>2. \A i \in 1 .. n : W[i] \in Held'
    BY <1>5, <1>7 DEF A
  <2>3. v \in Held'
    BY <1>5, <1>7 DEF A
  <2> QED BY <1>6, <1>7, <2>1, <2>2, <2>3
<1>9. ASSUME NEW i \in 1 .. n
      PROVE  ContentsOf(W[i])' = BarStack[i] /\ A[i] = W[i]
  <2>1. W[i] \in Held
    BY <1>6
  <2>2. W[i] \in Addr => W[i] \in Reachable
    BY <2>1, ReachableLives
  <2>3. ContentsOf(W[i])' = ContentsOf(W[i])
    BY <2>2, ContentsKept
  <2> QED BY <1>1, <1>2, <1>5, <2>3, BarStackIs DEF n, A
<1>10. BarStack' = [i \in 1 .. n + 1 |-> ContentsOf(A[i])']
  BY <1>4, <1>5 DEF BarStack, A, ContentsOf, IsString
<1>11. ContentsOf(A[n + 1])' = w
  BY <1>5 DEF A
<1>12. BarStack' = [i \in 1 .. n + 1 |-> IF i = n + 1 THEN w ELSE BarStack[i]]
  BY <1>5, <1>9, <1>10, <1>11
<1>13. Append(BarStack, w) = [i \in 1 .. n + 1 |-> IF i = n + 1 THEN w ELSE BarStack[i]]
  <2>1. BarStack = [i \in 1 .. n |-> BarStack[i]]
    BY <1>2, <1>5 DEF BarStack
  <2> QED BY <1>5, <2>1, AppendTo
<1> QED BY <1>8, <1>12, <1>13

(* --------------------------------- opcodes -------------------------------- *)

\* A local of the script is one of the store, and can be reached.
LEMMA LocalInStore ==
    ASSUME HeapRight, NEW v \in Locals
    PROVE  /\ ContentsOf(v) \in Store!Locals /\ v \in Held /\ v \in Values
           /\ v \in Addr => v \in Reachable
<1>1. Typed
  BY DEF HeapRight
<1>2. v \in Held
  BY DEF Held, Locals
<1>3. v \in Values
  BY <1>1, LocalsTyped
<1>4. PICK i \in DOMAIN BarStack : BarStack[i] = ContentsOf(v)
  BY <1>1, <1>2, BarStackIs
<1>5. ContentsOf(v) \in {BarStack[j] : j \in DOMAIN BarStack}
  BY <1>4
<1>6. ContentsOf(v) \in Store!Locals
  BY <1>5 DEF Store!Locals, BarStack
<1> QED BY <1>2, <1>3, <1>6, ReachableLives

\* A dict and a key of an opcode are a dict and a string of the store.
LEMMA EntryInStore ==
    ASSUME HeapRight, NEW d \in Addr, NEW k \in Addr, Entry(d, k)
    PROVE  /\ d \in Dicts /\ d \in Store!Locals \cap Addr
           /\ k \in Reachable /\ IsString(k)
           /\ heap[k].chars \in Store!Locals \cap Chars
<1>1. d \in Locals /\ k \in Locals /\ IsDict(d) /\ IsString(k) /\ Typed
  BY DEF Entry, HeapRight
<1>2. ~ IsString(d) /\ d \in Values /\ k \in Values
  BY <1>1 DEF IsDict, IsString, Values
<1>3. ContentsOf(d) = d /\ ContentsOf(k) = heap[k].chars /\ heap[k].chars \in Chars
  BY <1>1, <1>2, ContentsOfValue
<1> QED BY <1>1, <1>3, LocalInStore DEF Dicts

\* A search gives what the store has for the characters of the key.
LEMMA GetIs ==
    ASSUME HeapRight, NEW d \in Addr, NEW k \in Addr, Entry(d, k), Returns(d, k),
           NEW g, g = DictGet(heap[d], k),
           NEW x, x = DictContents(d)[heap[k].chars]
    PROVE  \/ g = Empty /\ x = Empty
           \/ /\ g # Empty /\ x # Empty /\ g \in Values /\ x = ContentsOf(g)
              /\ g \in Addr => g \in Reachable
<1>1. /\ Typed /\ TableRight /\ IsDict(d) /\ IsString(k)
      /\ heap[d].cap \in Nat /\ heap[d] \in DictsOf(heap[d].cap)
      /\ KeyHash(k) \in Nat /\ d \in Dicts
  BY EntryFacts, EntryInStore DEF HeapRight
<1>2. /\ KeysPlaced(heap[d])
      /\ heap[d].count = 0 => EntriesOf(heap[d]) = {}
  BY <1>1 DEF HeapRight, DictsRight
<1>3. heap[d].count = 0 \/ ProbingEnds(heap[d], k)
  BY DEF Returns
<1>4. \/ g = Empty /\ EntriesWithout(heap[d], k) = EntriesOf(heap[d])
      \/ \E e \in EntriesOf(heap[d]) : e.key = k /\ g = e.val
  BY <1>1, <1>2, <1>3, DictGetExact
<1>5. CASE g = Empty /\ EntriesWithout(heap[d], k) = EntriesOf(heap[d])
  <2>1. ASSUME NEW e \in EntriesOf(heap[d])
        PROVE  heap[e.key].chars # heap[k].chars
    <3>1. e.key # k
      BY <1>5 DEF EntriesWithout
    <3>2. IsString(e.key)
      BY <1>1, EntryOfReachable
    <3>3. e.key \in Addr
      BY <3>2 DEF IsString
    <3> QED BY <1>1, <3>1, <3>2, <3>3 DEF TableRight
  <2>2. heap[k].chars \in Chars
    BY EntryInStore
  <2>3. ContentsAre(d)
    BY <1>1, HeapContents DEF ContentsRight
  <2> QED BY <1>5, <2>1, <2>2, <2>3 DEF ContentsAre
<1>6. CASE \E e \in EntriesOf(heap[d]) : e.key = k /\ g = e.val
  <2>1. PICK e \in EntriesOf(heap[d]) : e.key = k /\ g = e.val
    BY <1>6
  <2>2. /\ g \in Values /\ (g \in Addr => g \in Reachable)
        /\ x = ContentsOf(g)
    BY <1>1, <2>1, EntryOfReachable
  <2>3. g # Empty /\ x # Empty
    BY <1>1, <2>2, ContentsOfValue, ValuesApart DEF Values
  <2> QED BY <2>2, <2>3
<1> QED BY <1>4, <1>5, <1>6

\* To push what can be reached, or a string, is to push in the store.
LEMMA PushInStore ==
    ASSUME HeapRight, HeapRight', heap' = heap, saved' = saved,
           NEW v, stack' = Append(stack, v),
           v \in Addr => v \in Reachable \/ IsString(v),
           NEW w, w = ContentsOf(v)
    PROVE  Store!Push(w)
<1>1. ReachableStays
  BY DEF ReachableStays, IsString
<1>2. Typed' /\ w = ContentsOf(v)'
  BY DEF HeapRight, ContentsOf, IsString
<1>3. BarStack' = Append(BarStack, w) /\ Held' = Held \cup {v}
  BY <1>1, <1>2, Pushed
<1>4. Reachable' \subseteq Reachable \cup {a \in Addr : IsString(a)}
  <2> DEFINE S == Reachable \cup {a \in Addr : IsString(a)}
  <2>1. S \in SUBSET Addr /\ Held' \cap Addr \subseteq S
    BY <1>3, ReachableLives
  <2>2. ASSUME NEW a \in S PROVE Gets(a)' \subseteq S
    <3>1. Gets(a)' = Gets(a)
      BY SameHeap
    <3>2. IsString(a) => Gets(a) = {}
      BY DEF Gets, IsString, IsDict
    <3> QED BY <3>1, <3>2, ReachableLives
  <2> HIDE DEF S
  <2>3. Reachable' \subseteq S
    BY <2>1, <2>2, ReachesNoMore
  <2> QED BY <2>3 DEF S
<1>5. Dicts' \subseteq Dicts
  BY <1>4 DEF Dicts, IsDict, IsString
<1>6. PICK s, m : s = Append(BarStack, w) /\ m = BarDicts
  OBVIOUS
<1>7. /\ DOMAIN m \subseteq Addr /\ Dicts' \subseteq DOMAIN m
      /\ \A d \in Dicts' : m[d] = DictContents(d)'
  <2>1. DOMAIN m = Dicts /\ \A d \in Dicts : m[d] = DictContents(d)
    BY <1>6 DEF BarDicts
  <2>2. \A d \in Dicts : DictContents(d)' = DictContents(d)
    BY <1>1, MapKept
  <2> QED BY <1>5, <2>1, <2>2 DEF Dicts, IsDict
<1>8. Store!Becomes(s, m)
  BY <1>3, <1>6, <1>7, BecomesIs
<1> QED BY <1>6, <1>8 DEF Store!Push, BarStack, BarDicts, Dicts, DictContents

\* A string that the table has is pushed in the store.
LEMMA FoundInStore ==
    ASSUME HeapRight, HeapRight', NEW c \in Chars, String(c), heap' = heap,
           stack' # stack
    PROVE  Store!Next
<1> DEFINE a == StringTableFind(strings, c)
<1>1. a # Empty /\ Becomes(Append(stack, a))
  BY DEF String, Allocating
<1>2. IsString(a) /\ heap[a].chars = c
  BY <1>1, TableFacts, FindGives DEF HeapRight
<1>3. saved' = saved /\ stack' = Append(stack, a)
  BY <1>1 DEF Becomes
<1> HIDE DEF a
<1>4. c = ContentsOf(a)
  BY <1>2 DEF ContentsOf
<1>5. Store!Push(c)
  BY <1>2, <1>3, <1>4, PushInStore
<1> QED BY <1>5 DEF Store!Next, Store!String

\* What the script finds under a key is what the store has there.
LEMMA GetInStore ==
    ASSUME HeapRight, HeapRight', NEW d \in Addr, NEW k \in Addr, GetIndex(d, k)
    PROVE  Store!Next
<1>1. PICK g, c : g = DictGet(heap[d], k) /\ c = heap[k].chars
  OBVIOUS
<1>2. /\ Entry(d, k) /\ Returns(d, k) /\ g # Empty
      /\ heap' = heap /\ saved' = saved /\ stack' = Append(stack, g)
  BY <1>1 DEF GetIndex, Becomes
<1>3. PICK x : x = DictContents(d)[c]
  OBVIOUS
<1>4. x # Empty /\ x = ContentsOf(g) /\ (g \in Addr => g \in Reachable)
  BY <1>1, <1>2, <1>3, GetIs
<1>5. Store!Push(x)
  BY <1>2, <1>4, PushInStore
<1>6. BarDicts[d][c] = x /\ d \in Store!Locals \cap Addr
      /\ c \in Store!Locals \cap Chars
  BY <1>1, <1>2, <1>3, EntryInStore DEF BarDicts
<1>7. Store!Get(d, c)
  BY <1>4, <1>5, <1>6 DEF Store!Get, BarDicts, Dicts, DictContents
<1> QED BY <1>6, <1>7 DEF Store!Next

\* One dict changes, and has no entry of what could not be reached.
LEMMA DictChanges ==
    ASSUME HeapRight, HeapRight', NEW d \in Dicts, NEW cap,
           NEW o \in DictsOf(cap), heap' = [heap EXCEPT ![d] = o],
           Held' \cap Addr \subseteq Reachable,
           \A e \in EntriesOf(o) :
               \/ e \in EntriesOf(heap[d])
               \/ /\ e.key \in Reachable
                  /\ e.val \in Addr => e.val \in Reachable
    PROVE  /\ ReachableStays /\ Dicts' \subseteq Dicts
           /\ d \in Addr /\ heap'[d] = o /\ IsDict(d)'
           /\ \A a \in Addr : IsString(a)' <=> IsString(a)
           /\ \A b \in Dicts \ {d} : DictContents(b)' = DictContents(b)
           /\ \A v : ContentsOf(v)' = ContentsOf(v)
<1>1. /\ \A a \in Addr : heap'[a] = IF a = d THEN o ELSE heap[a]
      /\ d \in Addr /\ IsDict(d) /\ d \in Reachable /\ o.kind = "dict"
  BY DEF HeapRight, Typed, Dicts, IsDict, DictsOf
<1>2. \A a \in Addr : /\ IsString(a)' <=> IsString(a)
                      /\ IsDict(a)' <=> IsDict(a)
                      /\ IsString(a) => heap'[a] = heap[a]
  BY <1>1 DEF IsString, IsDict
<1>3. ReachableStays
  BY <1>2, ReachableLives DEF ReachableStays
<1>4. ASSUME NEW a \in Reachable PROVE Gets(a)' \subseteq Reachable
  <2>1. CASE a = d
    <3>1. ASSUME NEW e \in EntriesOf(o), NEW v \in Addr, v = e.key \/ v = e.val
          PROVE  v \in Reachable
      BY <3>1, EntryOfReachable
    <3>2. heap'[a] = o
      BY <1>1, <2>1
    <3>3. \A v \in Gets(a)' : v \in Addr /\ \E e \in EntriesOf(o) : v = e.key \/ v = e.val
      BY <3>2 DEF Gets
    <3> QED BY <3>1, <3>3
  <2>2. CASE a # d
    <3>1. heap'[a] = heap[a] /\ a \in Addr
      BY <1>1, <2>2, ReachableLives
    <3>2. Gets(a)' = Gets(a)
      BY <3>1 DEF Gets, IsDict
    <3> QED BY <3>2, ReachableLives
  <2> QED BY <2>1, <2>2
<1>5. Reachable' \subseteq Reachable
  BY <1>4, ReachableLives, ReachesNoMore
<1>6. Dicts' \subseteq Dicts
  BY <1>2, <1>5, ReachableLives DEF Dicts
<1>7. ASSUME NEW b \in Dicts \ {d} PROVE DictContents(b)' = DictContents(b)
  <2>1. heap'[b] = heap[b]
    BY <1>1 DEF Dicts, IsDict
  <2> QED BY <1>3, <2>1, MapKept
<1>8. ASSUME NEW v PROVE ContentsOf(v)' = ContentsOf(v)
  BY <1>2 DEF ContentsOf, IsString
<1> QED BY <1>1, <1>2, <1>3, <1>6, <1>7, <1>8

\* The store has become what an opcode leaves that changes one dict.
LEMMA ChangeInStore ==
    ASSUME HeapRight', NEW d \in Dicts, Dicts' \subseteq Dicts,
           \A b \in Dicts \ {d} : DictContents(b)' = DictContents(b),
           NEW M, M = DictContents(d)', NEW s, s = BarStack',
           NEW m, m = [BarDicts EXCEPT ![d] = M]
    PROVE  Store!Becomes(s, m)
<1>1. DOMAIN m = Dicts /\ \A b \in Dicts : m[b] = IF b = d THEN M ELSE DictContents(b)
  BY DEF BarDicts
<1>2. DOMAIN m \subseteq Addr
  BY <1>1 DEF Dicts, IsDict
<1>3. \A b \in Dicts' : m[b] = DictContents(b)'
  BY <1>1
<1> QED BY <1>1, <1>2, <1>3, BecomesIs

\* The stack of the store does not change.
LEMMA SameStack ==
    ASSUME Typed, stack' = stack, saved' = saved,
           \A v : ContentsOf(v)' = ContentsOf(v)
    PROVE  BarStack' = BarStack /\ Held' = Held
<1>1. WholeStack' = WholeStack
  BY DEF WholeStack
<1>2. PICK W : W = WholeStack
  OBVIOUS
<1>3. BarStack = [i \in DOMAIN W |-> ContentsOf(W[i])]
  BY <1>2 DEF BarStack
<1>4. BarStack' = [i \in DOMAIN W |-> ContentsOf(W[i])']
  BY <1>1, <1>2 DEF BarStack, ContentsOf, IsString
<1> QED BY <1>3, <1>4 DEF Held

\* A dict that is cleared has no entries in the store.
LEMMA ClearInStore ==
    ASSUME HeapRight, HeapRight', NEW d \in Addr, Clear(d)
    PROVE  Store!Next
<1>1. /\ d \in Locals /\ IsDict(d) /\ stack' = stack /\ saved' = saved
      /\ heap' = [heap EXCEPT ![d] = DictClear(heap[d])] /\ Typed
  BY DEF Clear, Becomes, HeapRight
<1>2. PICK o : o = DictClear(heap[d])
  OBVIOUS
<1>3. o \in DictsOf(heap[d].cap) /\ EntriesOf(o) = {}
  BY <1>1, <1>2, ObjectIs, DictClearRight
<1>4. d \in Dicts /\ d \in Store!Locals
  <2>1. ~ IsString(d) /\ d \in Values
    BY <1>1 DEF IsDict, IsString, Values
  <2>2. ContentsOf(d) = d
    BY <1>1, <2>1, ContentsOfValue
  <2> QED BY <1>1, <2>2, LocalInStore DEF Dicts
<1>5. Held' = Held
  BY <1>1 DEF Held
<1>6. /\ Dicts' \subseteq Dicts /\ heap'[d] = o /\ IsDict(d)'
      /\ \A b \in Dicts \ {d} : DictContents(b)' = DictContents(b)
      /\ \A v : ContentsOf(v)' = ContentsOf(v)
  <2>1. heap' = [heap EXCEPT ![d] = o] /\ Held' \cap Addr \subseteq Reachable
    BY <1>1, <1>2, <1>5, ReachableLives
  <2>2. \A e \in EntriesOf(o) : e \in EntriesOf(heap[d])
    BY <1>3
  <2> QED BY <1>3, <1>4, <2>1, <2>2, DictChanges
<1>7. BarStack' = BarStack
  BY <1>1, <1>6, SameStack
<1>8. PICK M, s, m : /\ M = Store!NoEntries /\ s = BarStack
                     /\ m = [BarDicts EXCEPT ![d] = M]
  OBVIOUS
<1>9. M = [c \in Chars |-> Empty]
  BY <1>8 DEF Store!NoEntries
<1>10. DictContents(d)' = M
  BY <1>3, <1>6, <1>9, MapIs
<1>11. Store!Becomes(s, m)
  BY <1>4, <1>6, <1>7, <1>8, <1>10, ChangeInStore
<1>12. Store!Clear(d)
  BY <1>8, <1>11 DEF Store!Clear, BarStack, BarDicts, Dicts, DictContents
<1> QED BY <1>4, <1>12 DEF Store!Next

\* A value that is stored is the value of those characters, and no other
\* entry changes.
LEMMA SetInStore ==
    ASSUME HeapRight, HeapRight', ~ Reuses,
           NEW d \in Addr, NEW k \in Addr, SetIndex(d, k)
    PROVE  Store!Next
<1>1. /\ Entry(d, k) /\ (heap[d].cap = 0 \/ heap[d].count > 0)
      /\ stack' = stack /\ saved' = saved /\ Typed
  BY DEF SetIndex, Becomes, HeapRight
<1>2. PICK v \in Locals : heap' = [heap EXCEPT ![d] = DictSet(heap[d], k, v)]
  BY DEF SetIndex
<1>3. PICK o, c : o = DictSet(heap[d], k, v) /\ c = heap[k].chars
  OBVIOUS
<1>4. /\ d \in Dicts /\ d \in Store!Locals \cap Addr
      /\ k \in Reachable /\ IsString(k) /\ c \in Store!Locals \cap Chars
  BY <1>1, <1>3, EntryInStore
<1>5. /\ ContentsOf(v) \in Store!Locals /\ v \in Values
      /\ (v \in Addr => v \in Reachable)
  BY LocalInStore
<1>6. Stored(heap[d], k, v, o)
  BY <1>1, <1>3, <1>5, EntryFacts, DictSetRight DEF Values
<1>7. /\ o \in DictsOf(o.cap)
      /\ EntriesOf(o) =
             EntriesWithout(heap[d], k) \cup {[key |-> k, val |-> v]}
  <2>1. /\ IsDict(d) /\ KeyHash(k) \in Nat
        /\ DictSound(heap[d]) /\ KeysPlaced(heap[d])
        /\ \A e \in EntriesOf(heap[d]) : IsString(e.key)
    BY <1>1, EntryFacts DEF HeapRight, DictsRight
  <2>2. KeysHashed(heap[d])
    BY <1>1, <2>1, KeysAreHashed
  <2> QED BY <1>1, <1>6, <2>1, <2>2 DEF Stored
<1>8. Held' = Held
  BY <1>1 DEF Held
<1>9. \A e \in EntriesOf(o) :
          \/ e \in EntriesOf(heap[d]) /\ e.key # k
          \/ e = [key |-> k, val |-> v]
  BY <1>7 DEF EntriesWithout
<1>10. /\ Dicts' \subseteq Dicts /\ heap'[d] = o /\ IsDict(d)'
       /\ \A b \in Dicts \ {d} : DictContents(b)' = DictContents(b)
       /\ \A u : ContentsOf(u)' = ContentsOf(u)
       /\ ReachableStays
  <2>1. \A e \in EntriesOf(o) :
            \/ e \in EntriesOf(heap[d])
            \/ /\ e.key \in Reachable
               /\ e.val \in Addr => e.val \in Reachable
    BY <1>4, <1>5, <1>9
  <2>2. heap' = [heap EXCEPT ![d] = o]
    BY <1>2, <1>3
  <2> QED BY <1>4, <1>7, <1>8, <2>1, <2>2, ReachableLives, DictChanges
<1>11. BarStack' = BarStack
  BY <1>1, <1>10, SameStack
<1>12. PICK D, w, s : D = DictContents(d) /\ w = ContentsOf(v) /\ s = BarStack
  OBVIOUS
<1>13. PICK M, m : M = [D EXCEPT ![c] = w] /\ m = [BarDicts EXCEPT ![d] = M]
  OBVIOUS
<1>14. DictContents(d)' = M
  <2>1. ContentsAre(d)
    BY <1>4, HeapContents DEF ContentsRight, Dicts
  <2>2. D = [x \in Chars |-> D[x]]
    BY <1>12, <2>1 DEF ContentsAre
  <2>3. /\ M = [x \in Chars |-> M[x]]
        /\ \A x \in Chars : M[x] = IF x = c THEN w ELSE D[x]
    BY <1>13, <2>2
  <2>4. ASSUME NEW e \in EntriesOf(heap[d]), e.key # k
        PROVE  /\ heap[e.key].chars \in Chars \ {c}
               /\ heap'[e.key].chars = heap[e.key].chars
               /\ D[heap[e.key].chars] = ContentsOf(e.val)
    <3>1. /\ IsString(e.key) /\ e.key \in Reachable /\ heap[e.key].chars \in Chars
          /\ D[heap[e.key].chars] = ContentsOf(e.val)
      BY <1>4, <1>12, EntryOfReachable
    <3>2. e.key \in Addr /\ k \in Addr
      BY <3>1 DEF IsString
    <3>3. heap[e.key].chars # c
      BY <1>3, <1>4, <2>4, <3>1, <3>2 DEF HeapRight, TableRight
    <3> QED BY <1>10, <3>1, <3>3 DEF ReachableStays
  <2>5. heap'[k].chars = c
    BY <1>3, <1>4, <1>10 DEF ReachableStays
  <2>6. ASSUME NEW e \in EntriesOf(o)
        PROVE  M[heap'[e.key].chars] = ContentsOf(e.val)'
    <3>1. CASE e = [key |-> k, val |-> v]
      BY <1>4, <1>10, <1>12, <2>3, <2>5, <3>1
    <3>2. CASE e \in EntriesOf(heap[d]) /\ e.key # k
      BY <1>10, <2>3, <2>4, <3>2
    <3> QED BY <1>9, <3>1, <3>2
  <2>7. ASSUME NEW x \in Chars, \A e \in EntriesOf(o) : heap'[e.key].chars # x
        PROVE  M[x] = Empty
    <3>1. [key |-> k, val |-> v] \in EntriesOf(o)
      BY <1>7
    <3>2. x # c
      BY <2>5, <2>7, <3>1
    <3>3. ASSUME NEW e \in EntriesOf(heap[d]) PROVE heap[e.key].chars # x
      <4>1. CASE e.key = k
        BY <1>3, <3>2, <4>1
      <4>2. CASE e.key # k
        <5>1. e \in EntriesOf(o)
          BY <1>7, <4>2 DEF EntriesWithout
        <5> QED BY <2>4, <2>7, <4>2, <5>1
      <4> QED BY <4>1, <4>2
    <3>4. D[x] = Empty
      BY <1>12, <2>1, <3>3 DEF ContentsAre
    <3> QED BY <2>3, <3>2, <3>4
  <2>8. /\ \A e \in EntriesOf(heap'[d]) :
               M[heap'[e.key].chars] = ContentsOf(e.val)'
        /\ \A x \in Chars :
               (\A e \in EntriesOf(heap'[d]) : heap'[e.key].chars # x) =>
                   M[x] = Empty
    BY <1>10, <2>6, <2>7
  <2>9. IsDict(d)' /\ M = [x \in Chars |-> M[x]]
    BY <1>10, <2>3
  <2> QED BY <2>8, <2>9, MapIs
<1>15. Store!Becomes(s, m)
  BY <1>4, <1>10, <1>11, <1>12, <1>13, <1>14, ChangeInStore
<1>16. m = [BarDicts EXCEPT ![d][c] = w]
  BY <1>4, <1>12, <1>13 DEF BarDicts
<1>17. Store!Set(d, c)
  BY <1>5, <1>12, <1>15, <1>16 DEF Store!Set, BarStack, BarDicts, Dicts, DictContents
<1> QED BY <1>4, <1>17 DEF Store!Next

\* An entry that is popped is gone from the store, and its value is pushed.
LEMMA PopInStore ==
    ASSUME HeapRight, HeapRight', NEW d \in Addr, NEW k \in Addr, DictPop(d, k)
    PROVE  Store!Next
<1>1. PICK g, c, o : /\ g = DictGet(heap[d], k) /\ c = heap[k].chars
                     /\ o = DictDelete(heap[d], k)
  OBVIOUS
<1>2. PICK v : v = IF g = Empty THEN Null ELSE g
  OBVIOUS
<1>3. /\ Entry(d, k) /\ Returns(d, k) /\ Typed /\ Typed'
      /\ heap' = [heap EXCEPT ![d] = o]
      /\ saved' = saved /\ stack' = Append(stack, v)
  BY <1>1, <1>2 DEF DictPop, Becomes, HeapRight
<1>4. /\ d \in Dicts /\ d \in Store!Locals \cap Addr
      /\ k \in Reachable /\ IsString(k) /\ c \in Store!Locals \cap Chars
  BY <1>1, <1>3, EntryInStore
<1>5. PICK D, x : D = DictContents(d) /\ x = D[c]
  OBVIOUS
<1>6. \/ g = Empty /\ x = Empty
      \/ /\ g # Empty /\ x # Empty /\ g \in Values /\ x = ContentsOf(g)
         /\ g \in Addr => g \in Reachable
  BY <1>1, <1>3, <1>5, GetIs
<1>7. PICK w : w = IF x = Empty THEN Null ELSE x
  OBVIOUS
<1>8. w = ContentsOf(v) /\ (v \in Addr => v \in Reachable)
  <2>1. Null \in Values /\ Null \notin Addr
    BY DEF Values
  <2>2. ContentsOf(Null) = Null
    BY <1>3, <2>1, ContentsOfValue
  <2> QED BY <1>2, <1>6, <1>7, <2>1, <2>2
<1>9. o \in DictsOf(heap[d].cap) /\ EntriesOf(o) = EntriesWithout(heap[d], k)
  <2>1. /\ IsDict(d) /\ KeyHash(k) \in Nat
        /\ heap[d].cap \in Nat /\ heap[d] \in DictsOf(heap[d].cap)
    BY <1>3, EntryFacts
  <2>2. /\ KeysPlaced(heap[d]) /\ (heap[d].count = 0 => EntriesOf(heap[d]) = {})
        /\ \A e \in EntriesOf(heap[d]) : IsString(e.key)
    BY <2>1 DEF HeapRight, DictsRight
  <2>3. KeysHashed(heap[d])
    BY <1>3, <2>1, <2>2, KeysAreHashed
  <2>4. heap[d].count = 0 \/ ProbingEnds(heap[d], k)
    BY <1>3 DEF Returns
  <2> QED BY <1>1, <2>1, <2>2, <2>3, <2>4, DictDeleteRight
<1>10. \A a \in Addr : IsString(a)' <=> IsString(a)
  BY <1>3, <1>4, <1>9 DEF Typed, IsString, DictsOf, Dicts, IsDict
<1>11. \A a \in Addr : IsString(a) => heap'[a] = heap[a]
  BY <1>3, <1>4 DEF Typed, IsString, Dicts, IsDict
<1>12. ReachableStays
  BY <1>10, <1>11, ReachableLives DEF ReachableStays
<1>13. w = ContentsOf(v)'
  BY <1>8, <1>12, ContentsKept
<1>14. BarStack' = Append(BarStack, w) /\ Held' = Held \cup {v}
  BY <1>3, <1>12, <1>13, Pushed
<1>15. /\ Dicts' \subseteq Dicts /\ heap'[d] = o /\ IsDict(d)'
       /\ \A b \in Dicts \ {d} : DictContents(b)' = DictContents(b)
       /\ \A u : ContentsOf(u)' = ContentsOf(u)
  <2>1. \A e \in EntriesOf(o) : e \in EntriesOf(heap[d])
    BY <1>9 DEF EntriesWithout
  <2>2. Held' \cap Addr \subseteq Reachable
    BY <1>8, <1>14, ReachableLives
  <2> QED BY <1>3, <1>4, <1>9, <2>1, <2>2, DictChanges
<1>16. PICK M, s, m : /\ M = [D EXCEPT ![c] = Empty]
                      /\ s = Append(BarStack, w)
                      /\ m = [BarDicts EXCEPT ![d] = M]
  OBVIOUS
<1>17. DictContents(d)' = M
  <2>1. ContentsAre(d)
    BY <1>4, HeapContents DEF ContentsRight, Dicts
  <2>2. D = [y \in Chars |-> D[y]]
    BY <1>5, <2>1 DEF ContentsAre
  <2>3. /\ M = [y \in Chars |-> M[y]]
        /\ \A y \in Chars : M[y] = IF y = c THEN Empty ELSE D[y]
    BY <1>16, <2>2
  <2>4. ASSUME NEW e \in EntriesOf(o)
        PROVE  /\ e \in EntriesOf(heap[d]) /\ heap[e.key].chars \in Chars \ {c}
               /\ heap'[e.key].chars = heap[e.key].chars
               /\ D[heap[e.key].chars] = ContentsOf(e.val)
    <3>1. e \in EntriesOf(heap[d]) /\ e.key # k
      BY <1>9 DEF EntriesWithout
    <3>2. /\ IsString(e.key) /\ e.key \in Reachable /\ heap[e.key].chars \in Chars
          /\ D[heap[e.key].chars] = ContentsOf(e.val)
      BY <1>4, <1>5, <3>1, EntryOfReachable
    <3>3. e.key \in Addr
      BY <3>2 DEF IsString
    <3>4. heap[e.key].chars # c
      BY <1>1, <1>4, <3>1, <3>2, <3>3 DEF HeapRight, TableRight
    <3> QED BY <1>12, <3>1, <3>2, <3>4 DEF ReachableStays
  <2>5. ASSUME NEW e \in EntriesOf(heap'[d])
        PROVE  M[heap'[e.key].chars] = ContentsOf(e.val)'
    BY <1>15, <2>3, <2>4
  <2>6. ASSUME NEW y \in Chars,
               \A e \in EntriesOf(heap'[d]) : heap'[e.key].chars # y
        PROVE  M[y] = Empty
    <3>1. CASE y = c
      BY <2>3, <3>1
    <3>2. CASE y # c
      <4>1. ASSUME NEW e \in EntriesOf(heap[d]) PROVE heap[e.key].chars # y
        <5>1. CASE e.key = k
          BY <1>1, <3>2, <5>1
        <5>2. CASE e.key # k
          <6>1. e \in EntriesOf(o)
            BY <1>9, <5>2 DEF EntriesWithout
          <6> QED BY <1>15, <2>4, <2>6, <6>1
        <5> QED BY <5>1, <5>2
      <4>2. D[y] = Empty
        BY <1>5, <2>1, <4>1 DEF ContentsAre
      <4> QED BY <2>3, <3>2, <4>2
    <3> QED BY <3>1, <3>2
  <2>7. IsDict(d)' /\ M = [y \in Chars |-> M[y]]
    BY <1>15, <2>3
  <2> QED BY <2>5, <2>6, <2>7, MapIs
<1>18. Store!Becomes(s, m)
  BY <1>4, <1>14, <1>15, <1>16, <1>17, ChangeInStore
<1>19. m = [BarDicts EXCEPT ![d][c] = Empty] /\ BarDicts[d][c] = x
  BY <1>4, <1>5, <1>16 DEF BarDicts
<1>20. Store!Delete(d, c)
  BY <1>7, <1>16, <1>18, <1>19
     DEF Store!Delete, BarStack, BarDicts, Dicts, DictContents
<1> QED BY <1>4, <1>20 DEF Store!Next

\* The first part of a sequence of unknown elements.
LEMMA FirstOfSequence ==
    ASSUME NEW n \in Nat, NEW s, s = [i \in 1 .. n |-> s[i]], NEW k \in 0 .. n
    PROVE  /\ Len(s) = n /\ DOMAIN s = 1 .. n
           /\ SubSeq(s, 1, k) = [i \in 1 .. k |-> s[i]]
<1>1. PICK S : S = {s[i] : i \in 1 .. n}
  OBVIOUS
<1>2. s \in [1 .. n -> S]
  BY <1>1
<1>3. s \in Seq(S) /\ Len(s) = n /\ DOMAIN s = 1 .. n
  BY <1>2, SeqDef
<1>4. SubSeq(s, 1, k) = [i \in 1 .. k |-> s[i]]
  <2>1. /\ DOMAIN SubSeq(s, 1, k) = 1 .. k
        /\ \A i \in 1 .. k : SubSeq(s, 1, k)[i] = s[i]
    BY <1>3
  <2>2. SubSeq(s, 1, k) = [i \in 1 .. k |-> SubSeq(s, 1, k)[i]]
    BY <1>3, <2>1
  <2> QED BY <2>1, <2>2
<1> QED BY <1>3, <1>4

\* V has only what W has, and the store follows with the stack s.
FromStack(W, V, n) ==
    /\ V = [i \in 1 .. n |-> V[i]]
    /\ \A i \in 1 .. n : \E j \in DOMAIN W : V[i] = W[j]
Follows(s, W) ==
    /\ Store!Becomes(s, BarDicts)
    /\ Len(W) \in Nat
    /\ BarStack = [i \in 1 .. Len(W) |-> ContentsOf(W[i])]

\* The heap does not change: the stack of the store follows that of the heap,
\* and reaches nothing new.
LEMMA StackInStore ==
    ASSUME HeapRight, HeapRight', heap' = heap, NEW W, W = WholeStack,
           NEW n \in Nat, NEW V, V = WholeStack', FromStack(W, V, n),
           NEW s, s = [i \in 1 .. n |-> ContentsOf(V[i])]
    PROVE  Follows(s, W)
<1> USE DEF FromStack
<1>1. Typed /\ Typed' /\ W \in Seq(Values)
  BY WholeIs DEF HeapRight
<1>2. BarStack = [i \in 1 .. Len(W) |-> ContentsOf(W[i])] /\ Len(W) \in Nat
  BY <1>1 DEF BarStack
<1>3. s = BarStack'
  <2>1. DOMAIN V = 1 .. n
    OBVIOUS
  <2>2. BarStack' = [i \in 1 .. n |-> ContentsOf(V[i])']
    BY <2>1 DEF BarStack, ContentsOf, IsString
  <2>3. \A i \in 1 .. n : ContentsOf(V[i])' = ContentsOf(V[i])
    BY DEF ContentsOf, IsString
  <2> QED BY <2>2, <2>3
<1>4. Held' \subseteq Held
  <2>1. Held = {W[i] : i \in DOMAIN W}
    BY <1>1, WholeIs
  <2>2. Held' = {V[i] : i \in DOMAIN V}
    BY <1>1, WholeIsNext DEF HeldIsWhole
  <2> QED BY <2>1, <2>2
<1>5. Reachable' \subseteq Reachable
  <2>1. Held' \cap Addr \subseteq Reachable
    BY <1>4, ReachableLives
  <2>2. \A a \in Reachable : Gets(a)' \subseteq Reachable
    BY SameHeap, ReachableLives
  <2> QED BY <2>1, <2>2, ReachableLives, ReachesNoMore
<1>6. PICK m : m = BarDicts
  OBVIOUS
<1>7. DOMAIN m = Dicts /\ \A d \in Dicts : m[d] = DictContents(d)
  BY <1>6 DEF BarDicts
<1>8. ReachableStays
  BY DEF ReachableStays, IsString
<1>9. Dicts' \subseteq DOMAIN m /\ DOMAIN m \subseteq Addr
  BY <1>5, <1>7 DEF Dicts, IsDict
<1>10. \A d \in Dicts' : m[d] = DictContents(d)'
  BY <1>7, <1>8, <1>9, MapKept
<1>11. Store!Becomes(s, m)
  BY <1>3, <1>9, <1>10, BecomesIs
<1> QED BY <1>2, <1>6, <1>11 DEF Follows

\* The last local goes.
LEMMA DropInStore ==
    ASSUME HeapRight, HeapRight', Pop
    PROVE  Store!Next
<1>1. /\ Typed /\ stack \in Seq(Values) /\ stack # <<>> /\ saved' = saved
      /\ stack' = SubSeq(stack, 1, Len(stack) - 1) /\ heap' = heap
  BY DEF Pop, Becomes, HeapRight, Typed
<1>2. PICK W, V : W = WholeStack /\ V = WholeStack'
  OBVIOUS
<1>3. PICK n : n = Len(W) - 1
  OBVIOUS
<1>4. /\ W \in Seq(Values) /\ Len(W) = n + 1 /\ n \in Nat
      /\ V = [i \in 1 .. n |-> V[i]] /\ \A i \in 1 .. n : V[i] = W[i]
  <2>1. CASE saved = <<>>
    <3>1. W = stack /\ V = SubSeq(W, 1, Len(W) - 1)
      BY <1>1, <1>2, <2>1 DEF WholeStack
    <3> QED BY <1>1, <1>3, <3>1
  <2>2. CASE saved # <<>>
    <3>1. PICK old, new : old = saved[1] /\ new = SubSeq(stack, 1, Len(stack) - 1)
      OBVIOUS
    <3>2. W = old \o stack /\ V = old \o new /\ old \in Seq(Values)
      BY <1>1, <1>2, <2>2, <3>1, WholeIs DEF WholeStack
    <3>3. /\ new \in Seq(Values) /\ Len(new) = Len(stack) - 1
          /\ \A i \in 1 .. Len(new) : new[i] = stack[i]
          /\ Len(stack) \in Nat \ {0} /\ Len(old) \in Nat
      <4>1. Len(stack) \in Nat \ {0} /\ Len(old) \in Nat
        BY <1>1, <3>2
      <4>2. Len(stack) - 1 \in 0 .. Len(stack)
        BY <4>1
      <4>3. PICK k : k = Len(stack) - 1
        OBVIOUS
      <4>4. /\ SubSeq(stack, 1, k) \in Seq(Values) /\ Len(SubSeq(stack, 1, k)) = k
            /\ \A i \in 1 .. k : SubSeq(stack, 1, k)[i] = stack[i]
        BY <1>1, <4>1, <4>2, <4>3
      <4> QED BY <3>1, <4>1, <4>3, <4>4
    <3>4. /\ W \in Seq(Values) /\ Len(W) = Len(old) + Len(stack)
          /\ \A i \in 1 .. Len(old) + Len(stack) :
                 W[i] = IF i <= Len(old) THEN old[i] ELSE stack[i - Len(old)]
      BY <1>1, <3>2, ConcatProperties
    <3>5. /\ V \in Seq(Values) /\ Len(V) = Len(old) + Len(new)
          /\ \A i \in 1 .. Len(old) + Len(new) :
                 V[i] = IF i <= Len(old) THEN old[i] ELSE new[i - Len(old)]
      BY <3>2, <3>3, ConcatProperties
    <3>6. Len(W) = n + 1 /\ n \in Nat /\ Len(V) = n
      BY <1>3, <3>3, <3>4, <3>5
    <3>7. V = [i \in 1 .. n |-> V[i]]
      BY <3>5, <3>6
    <3>8. ASSUME NEW i \in 1 .. n PROVE V[i] = W[i]
      <4>1. /\ i \in 1 .. Len(old) + Len(new) /\ i \in 1 .. Len(old) + Len(stack)
            /\ i > Len(old) => i - Len(old) \in 1 .. Len(new)
        BY <3>3, <3>5, <3>6
      <4>2. CASE i <= Len(old)
        BY <3>4, <3>5, <4>1, <4>2
      <4>3. CASE i > Len(old)
        <5>1. /\ V[i] = new[i - Len(old)] /\ W[i] = stack[i - Len(old)]
              /\ i - Len(old) \in 1 .. Len(new)
          BY <3>3, <3>4, <3>5, <4>1, <4>3
        <5> QED BY <3>3, <5>1
      <4> QED BY <3>3, <4>2, <4>3
    <3> QED BY <3>4, <3>6, <3>7, <3>8
  <2> QED BY <2>1, <2>2
<1>5. PICK s, b : s = [i \in 1 .. n |-> ContentsOf(V[i])] /\ b = BarStack
  OBVIOUS
<1>6. /\ Store!Becomes(s, BarDicts) /\ b = [i \in 1 .. n + 1 |-> ContentsOf(W[i])]
  <2>1. FromStack(W, V, n)
    BY <1>4 DEF FromStack
  <2>2. Follows(s, W)
    BY <1>1, <1>2, <1>4, <1>5, <2>1, StackInStore
  <2> QED BY <1>4, <1>5, <2>2 DEF Follows
<1>7. b = [i \in 1 .. n + 1 |-> b[i]] /\ n + 1 \in Nat /\ n \in 0 .. n + 1
  BY <1>4, <1>6
<1>8. /\ Len(b) = n + 1 /\ DOMAIN b = 1 .. n + 1
      /\ SubSeq(b, 1, n) = [i \in 1 .. n |-> b[i]]
  BY <1>7, FirstOfSequence
<1>9. s = SubSeq(b, 1, Len(b) - 1)
  <2>1. \A i \in 1 .. n : b[i] = ContentsOf(V[i])
    BY <1>4, <1>6
  <2> QED BY <1>4, <1>5, <1>8, <2>1
<1>10. b # <<>>
  BY <1>4, <1>8
<1>11. Store!Drop
  BY <1>5, <1>6, <1>9, <1>10
     DEF Store!Drop, BarStack, BarDicts, Dicts, DictContents
<1> QED BY <1>11 DEF Store!Next

\* The stack of the coroutine goes, but for the result.
LEMMA ReturnInStore ==
    ASSUME HeapRight, HeapRight', Return
    PROVE  Store!Next
<1>1. PICK old, V, W, n, x : /\ old = saved[1] /\ V = WholeStack' /\ W = WholeStack
                             /\ n = Len(old) /\ x = stack[Len(stack)]
  OBVIOUS
<1>2. /\ Typed /\ stack \in Seq(Values) /\ stack # <<>> /\ saved # <<>>
      /\ saved' = <<>> /\ stack' = Append(old, x) /\ heap' = heap
      /\ old \in Seq(Values) /\ W = old \o stack
  BY <1>1, WholeIs DEF Return, HeapRight, Typed
<1>3. /\ V = Append(old, x) /\ n \in Nat /\ x \in Values
      /\ Len(stack) \in Nat \ {0}
  BY <1>1, <1>2 DEF WholeStack
<1>4. PICK l : l = n + Len(stack)
  OBVIOUS
<1>5. /\ W \in Seq(Values) /\ Len(W) = l /\ l \in Nat /\ n + 1 <= l
      /\ W[l] = x /\ \A i \in 1 .. n : W[i] = old[i]
  BY <1>1, <1>2, <1>3, <1>4, ConcatProperties
<1>6. /\ V = [i \in 1 .. n + 1 |-> V[i]] /\ V[n + 1] = x
      /\ \A i \in 1 .. n : V[i] = old[i]
  BY <1>1, <1>2, <1>3
<1>7. PICK s, b : s = [i \in 1 .. n + 1 |-> ContentsOf(V[i])] /\ b = BarStack
  OBVIOUS
<1>8. Store!Becomes(s, BarDicts) /\ b = [i \in 1 .. l |-> ContentsOf(W[i])]
  <2>1. ASSUME NEW i \in 1 .. n + 1
        PROVE  \E j \in DOMAIN W : V[i] = W[j]
    <3>1. DOMAIN W = 1 .. l
      BY <1>5
    <3>2. CASE i = n + 1
      <4>1. l \in DOMAIN W
        BY <1>3, <1>5, <3>1
      <4> QED BY <1>5, <1>6, <3>2, <4>1
    <3>3. CASE i # n + 1
      <4>1. i \in 1 .. n /\ i \in DOMAIN W
        BY <1>3, <1>5, <3>1, <3>3
      <4> QED BY <1>5, <1>6, <4>1
    <3> QED BY <3>2, <3>3
  <2>2. n + 1 \in Nat
    BY <1>3
  <2>3. FromStack(W, V, n + 1)
    BY <1>6, <2>1 DEF FromStack
  <2>4. Follows(s, W)
    BY <1>1, <1>2, <1>7, <2>2, <2>3, StackInStore
  <2> QED BY <1>5, <1>7, <2>4 DEF Follows
<1>9. b = [i \in 1 .. l |-> b[i]] /\ n \in 0 .. l
  BY <1>3, <1>5, <1>8
<1>10. PICK t : t = SubSeq(b, 1, n)
  OBVIOUS
<1>11. Len(b) = l /\ DOMAIN b = 1 .. l /\ t = [i \in 1 .. n |-> b[i]]
  BY <1>5, <1>9, <1>10, FirstOfSequence
<1>12. s = Append(t, b[Len(b)])
  <2>1. t = [i \in 1 .. n |-> t[i]] /\ \A i \in 1 .. n : t[i] = b[i]
    BY <1>11
  <2>2. Append(t, b[l]) =
            [i \in 1 .. n + 1 |-> IF i = n + 1 THEN b[l] ELSE t[i]]
    BY <1>3, <2>1, AppendTo
  <2>3. ASSUME NEW i \in 1 .. n + 1
        PROVE  ContentsOf(V[i]) = IF i = n + 1 THEN b[l] ELSE t[i]
    <3>1. CASE i = n + 1
      <4>1. l \in 1 .. l
        BY <1>3, <1>5
      <4>2. b[l] = ContentsOf(W[l])
        BY <1>8, <4>1
      <4> QED BY <1>5, <1>6, <3>1, <4>2
    <3>2. CASE i # n + 1
      <4>1. i \in 1 .. n /\ i \in 1 .. l
        BY <1>3, <1>5, <3>2
      <4> QED BY <1>5, <1>6, <1>8, <2>1, <3>2, <4>1
    <3> QED BY <3>1, <3>2
  <2> QED BY <1>7, <1>11, <2>2, <2>3
<1>13. b # <<>> /\ n \in 0 .. Len(b) - 1
  BY <1>3, <1>5, <1>11
<1>14. \E j \in 0 .. Len(b) - 1 :
          Store!Becomes(Append(SubSeq(b, 1, j), b[Len(b)]), BarDicts)
  BY <1>8, <1>10, <1>12, <1>13
<1>15. Store!Return
  BY <1>7, <1>13, <1>14
     DEF Store!Return, BarStack, BarDicts, Dicts, DictContents
<1> QED BY <1>15 DEF Store!Next

(* ------------------- what a script does not see of the heap --------------- *)

StoreRests == BarStack' = BarStack /\ BarDicts' = BarDicts

\* What is held after a step that changes the stack in no other way than by
\* putting it aside or back.
LEMMA HeldStays ==
    ASSUME HeapRight, HeapRight', WholeStack' = WholeStack
    PROVE  Held' = Held
<1>1. Typed /\ HeldIsWhole'
  BY WholeIsNext DEF HeapRight
<1>2. Held = {WholeStack[i] : i \in DOMAIN WholeStack}
  BY <1>1, WholeIs
<1>3. Held' = {WholeStack'[i] : i \in DOMAIN WholeStack'}
  BY <1>1 DEF HeldIsWhole
<1> QED BY <1>2, <1>3

\* When what can be reached stays as it is, the store stutters.
LEMMA RestsWhenKept ==
    ASSUME HeapRight, HeapRight', WholeStack' = WholeStack,
           \A a \in Reachable : heap'[a] = heap[a]
    PROVE  StoreRests
<1>1. ReachableStays
  BY DEF ReachableStays, IsString
<1>2. Held' \cap Addr \subseteq Reachable /\ Reachable \in SUBSET Addr
  BY HeldStays, ReachableLives
<1>3. ASSUME NEW a \in Reachable PROVE Gets(a)' \subseteq Reachable
  <2>1. Gets(a)' = Gets(a)
    BY DEF Gets, IsDict
  <2> QED BY <2>1, ReachableLives
<1>4. Reachable' \subseteq Reachable
  BY <1>2, <1>3, ReachesNoMore
<1>5. \A d \in Dicts' : d \in Dicts /\ heap'[d] = heap[d]
  BY <1>4 DEF Dicts, IsDict
<1> QED BY <1>1, <1>5, Stutters DEF StoreRests

\* To put the stack aside is not seen: a new part of it begins.
LEMMA AwaitInStore ==
    ASSUME HeapRight, HeapRight', Await
    PROVE  StoreRests
<1>1. /\ Typed /\ stack \in Seq(Values) /\ saved = <<>>
      /\ saved' = <<stack>> /\ stack' = <<>> /\ heap' = heap
  BY DEF Await, HeapRight, Typed
<1>2. WholeStack = stack /\ WholeStack' = stack \o <<>>
  BY <1>1 DEF WholeStack
<1>3. stack \o <<>> = stack
  BY <1>1, ConcatEmptySeq
<1> QED BY <1>1, <1>2, <1>3, RestsWhenKept

\* Nor is a collection, up to the sweep.
LEMMA CollectingInStore ==
    ASSUME HeapRight, HeapRight',
           heap' = heap, stack' = stack, saved' = saved
    PROVE  StoreRests
<1>1. WholeStack' = WholeStack
  BY DEF WholeStack
<1> QED BY <1>1, RestsWhenKept

\* The sweep frees only what cannot be reached.
LEMMA SweepInStore ==
    ASSUME HeapRight, HeapRight', Sweep
    PROVE  StoreRests
<1>1. WholeStack' = WholeStack
  BY DEF Sweep, WholeStack
<1>2. \A a \in Reachable : heap'[a] = heap[a]
  BY SweepLeaves DEF HeapRight
<1> QED BY <1>1, <1>2, RestsWhenKept

\* An allocation uses an address that cannot be reached.
LEMMA AllocatedIs ==
    ASSUME HeapRight, NEW a, Allocated(a)
    PROVE  /\ a \in Addr \ Reachable
           /\ \A b \in Reachable : heap'[b] = heap[b]
           /\ ReachableStays /\ Gets(a)' = {}
           /\ \A b \in Reachable : Gets(b)' \subseteq Reachable
<1>1. a \in Addr \ Reachable
  <2>1. a \in Addr /\ a \notin Live
    BY DEF Allocated, Live
  <2> QED BY <2>1, ReachableLives
<1>2. \A b \in Reachable : heap'[b] = heap[b]
  BY <1>1, ReachableLives DEF Allocated
<1>3. ReachableStays
  BY <1>2 DEF ReachableStays, IsString
<1>4. Gets(a)' = {}
  <2>1. CASE heap'[a] = NewDict
    <3>1. EntriesOf(NewDict) = {}
      BY DEF NewDict, FreshDict, EntriesOf
    <3> QED BY <2>1, <3>1 DEF Gets
  <2>2. CASE heap'[a].kind = "string"
    BY <2>2 DEF Gets, IsDict
  <2> QED BY <2>1, <2>2 DEF Allocated
<1>5. ASSUME NEW b \in Reachable PROVE Gets(b)' \subseteq Reachable
  <2>1. Gets(b)' = Gets(b)
    BY <1>2 DEF Gets, IsDict
  <2> QED BY <2>1, ReachableLives
<1> QED BY <1>1, <1>2, <1>3, <1>4, <1>5

\* The object of an allocation on the stack is all that it adds.
LEMMA AllocatedOnStack ==
    ASSUME HeapRight, HeapRight', NEW a, Allocated(a),
           saved' = saved, stack' = Append(stack, a),
           NEW w, w = ContentsOf(a)'
    PROVE  /\ BarStack' = Append(BarStack, w)
           /\ Dicts' \subseteq Dicts \cup {a}
           /\ \A d \in Dicts : DictContents(d)' = DictContents(d)
<1>1. ReachableStays /\ Typed'
  BY AllocatedIs DEF HeapRight
<1>2. BarStack' = Append(BarStack, w) /\ Held' = Held \cup {a}
  BY <1>1, Pushed
<1>3. Reachable' \subseteq Reachable \cup {a}
  <2> DEFINE S == Reachable \cup {a}
  <2>1. S \in SUBSET Addr /\ Held' \cap Addr \subseteq S
    BY <1>2, AllocatedIs, ReachableLives
  <2>2. \A b \in S : Gets(b)' \subseteq S
    BY AllocatedIs
  <2> HIDE DEF S
  <2>3. Reachable' \subseteq S
    BY <2>1, <2>2, ReachesNoMore
  <2> QED BY <2>3 DEF S
<1>4. \A d \in Dicts : heap'[d] = heap[d]
  BY AllocatedIs DEF Dicts
<1>5. ASSUME NEW d \in Dicts' PROVE d \in Dicts \cup {a}
  <2>1. d \in Reachable \cup {a} /\ IsDict(d)'
    BY <1>3 DEF Dicts
  <2>2. CASE d \in Reachable
    <3>1. heap'[d] = heap[d]
      BY <2>2, AllocatedIs
    <3> QED BY <2>1, <2>2, <3>1 DEF Dicts, IsDict
  <2> QED BY <2>1, <2>2
<1>6. \A d \in Dicts : DictContents(d)' = DictContents(d)
  BY <1>1, <1>4, MapKept
<1> QED BY <1>2, <1>5, <1>6

\* A new string is its characters.
LEMMA StringInStore ==
    ASSUME HeapRight, HeapRight', NEW a, Allocated(a),
           saved' = saved, stack' = Append(stack, a),
           NEW c \in Chars, heap'[a] = [kind |-> "string", chars |-> c]
    PROVE  Store!Next
<1>1. a \in Addr /\ ~ IsDict(a)' /\ c = ContentsOf(a)'
  BY AllocatedIs DEF IsDict, IsString, ContentsOf
<1>2. /\ BarStack' = Append(BarStack, c) /\ Dicts' \subseteq Dicts \cup {a}
      /\ \A d \in Dicts : DictContents(d)' = DictContents(d)
  BY <1>1, AllocatedOnStack
<1>3. Dicts' \subseteq Dicts
  <2>1. a \notin Dicts'
    BY <1>1 DEF Dicts
  <2> QED BY <1>2, <2>1
<1>4. PICK s, m : s = Append(BarStack, c) /\ m = BarDicts
  OBVIOUS
<1>5. /\ DOMAIN m \subseteq Addr /\ Dicts' \subseteq DOMAIN m
      /\ \A d \in Dicts' : m[d] = DictContents(d)'
  <2>1. DOMAIN m = Dicts /\ \A d \in Dicts : m[d] = DictContents(d)
    BY <1>4 DEF BarDicts
  <2> QED BY <1>2, <1>3, <2>1 DEF Dicts, IsDict
<1>6. Store!Becomes(s, m)
  BY <1>2, <1>4, <1>5, BecomesIs
<1>7. Store!Push(c)
  BY <1>4, <1>6 DEF Store!Push, BarStack, BarDicts, Dicts, DictContents
<1> QED BY <1>7 DEF Store!Next, Store!String

\* A new dict has no entries.
LEMMA NewInStore ==
    ASSUME HeapRight, HeapRight', NEW a, Allocated(a),
           saved' = saved, stack' = Append(stack, a), heap'[a] = NewDict
    PROVE  Store!Next
<1>1. a \in Addr \ Dicts /\ IsDict(a)' /\ a = ContentsOf(a)'
  BY AllocatedIs
     DEF IsDict, IsString, ContentsOf, NewDict, FreshDict, Dicts
<1>2. /\ BarStack' = Append(BarStack, a) /\ Dicts' \subseteq Dicts \cup {a}
      /\ \A d \in Dicts : DictContents(d)' = DictContents(d)
  BY <1>1, AllocatedOnStack
<1>3. PICK M : M = Store!NoEntries
  OBVIOUS
<1>4. DictContents(a)' = M
  <2>1. EntriesOf(heap'[a]) = {}
    BY DEF NewDict, FreshDict, EntriesOf
  <2>2. M = [c \in Chars |-> Empty]
    BY <1>3 DEF Store!NoEntries
  <2>3. M = [c \in Chars |-> M[c]] /\ \A c \in Chars : M[c] = Empty
    BY <2>2
  <2> QED BY <1>1, <2>1, <2>3, MapIs
<1>5. PICK s, m : /\ s = Append(BarStack, a)
                  /\ m = [e \in Dicts \cup {a} |->
                             IF e = a THEN M ELSE BarDicts[e]]
  OBVIOUS
<1>6. /\ DOMAIN m \subseteq Addr /\ Dicts' \subseteq DOMAIN m
      /\ \A d \in Dicts' : m[d] = DictContents(d)'
  <2>1. /\ DOMAIN m = Dicts \cup {a} /\ m[a] = M
        /\ \A d \in Dicts : m[d] = DictContents(d)
    BY <1>1, <1>5 DEF BarDicts
  <2>2. ASSUME NEW d \in Dicts' PROVE m[d] = DictContents(d)'
    <3>1. d \in Dicts \/ d = a
      BY <1>2
    <3> QED BY <1>2, <1>4, <2>1, <3>1
  <2> QED BY <1>1, <1>2, <2>1, <2>2 DEF Dicts, IsDict
<1>7. Store!Becomes(s, m)
  BY <1>2, <1>5, <1>6, BecomesIs
<1>8. DOMAIN BarDicts = Dicts
  BY DEF BarDicts
<1>9. a \in Addr \ DOMAIN BarDicts
  BY <1>1, <1>8
<1>10. m = [e \in DOMAIN BarDicts \cup {a} |->
               IF e = a THEN Store!NoEntries ELSE BarDicts[e]]
  BY <1>3, <1>5, <1>8
<1>11. Store!New
  BY <1>5, <1>7, <1>9, <1>10
     DEF Store!New, BarStack, BarDicts, Dicts, DictContents
<1> QED BY <1>11 DEF Store!Next

\* The first of the two dicts of a request is not seen.
LEMMA AllocateInStore ==
    ASSUME HeapRight, HeapRight', Allocate
    PROVE  Store!Next \/ StoreRests
<1>1. PICK a : Allocated(a) /\ AllocationGoesOn(a)
  BY AllocateFacts DEF HeapRight
<1>2. saved' = saved
  BY <1>1 DEF AllocationGoesOn
<1>3. CASE stack' = stack
  <2>1. WholeStack' = WholeStack
    BY <1>2, <1>3 DEF WholeStack
  <2>2. \A b \in Reachable : heap'[b] = heap[b]
    BY <1>1, AllocatedIs
  <2> QED BY <2>1, <2>2, RestsWhenKept
<1>4. CASE stack' = Append(stack, a)
  <2>1. CASE heap'[a] = NewDict
    BY <1>1, <1>2, <1>4, <2>1, NewInStore
  <2>2. CASE \E c \in Chars : heap'[a] = [kind |-> "string", chars |-> c]
    BY <1>1, <1>2, <1>4, <2>2, StringInStore
  <2> QED BY <1>1, <2>1, <2>2 DEF Allocated
<1> QED BY <1>1, <1>3, <1>4 DEF AllocationGoesOn

(* ------------------------------ the refinement ---------------------------- *)

\* Nothing is reached at first.
LEMMA StoreBegins == HeapRight /\ Init => Store!Init
<1> SUFFICES ASSUME HeapRight, Init PROVE Store!Init
  OBVIOUS
<1>1. WholeStack = <<>> /\ \A a \in Addr : ~ IsDict(a)
  BY DEF Init, WholeStack, IsDict, Free
<1>2. Dicts = {}
  BY <1>1, ReachableLives DEF Dicts
<1>3. BarStack = <<>>
  BY <1>1 DEF BarStack
<1>4. BarDicts = [d \in {} |-> Null]
  BY <1>2 DEF BarDicts
<1> QED BY <1>3, <1>4 DEF Store!Init, BarStack, BarDicts, Dicts, DictContents

\* Every step is a step of the store or is not seen.
LEMMA StepInStore ==
    ASSUME HeapRight, HeapRight', ~ Reuses, [Next]_vars
    PROVE  Store!Next \/ StoreRests
<1>1. ASSUME NEW c \in Chars, String(c) PROVE Store!Next \/ StoreRests
  <2>1. CASE /\ heap' = heap
             /\ Becomes(Append(stack, StringTableFind(strings, c)))
    <3>1. stack' # stack
      <4>1. stack \in Seq(Values)
        BY DEF HeapRight, Typed
      <4>2. PICK v : stack' = Append(stack, v)
        BY <2>1 DEF Becomes
      <4>3. Len(stack') = Len(stack) + 1 /\ Len(stack) \in Nat
        BY <4>1, <4>2
      <4> QED BY <4>3
    <3> QED BY <1>1, <2>1, <3>1, FoundInStore
  <2>2. CASE Allocating(<<c>>)
    BY <2>2, CollectingInStore DEF Allocating
  <2> QED BY <1>1, <2>1, <2>2 DEF String
<1>2. ASSUME CreateDict \/ Blacken \/ UNCHANGED vars PROVE StoreRests
  BY <1>2, CollectingInStore DEF CreateDict, Allocating, Blacken, vars
<1>3. ASSUME Pop \/ Return PROVE Store!Next
  BY <1>3, DropInStore, ReturnInStore
<1>4. ASSUME NEW d \in Addr, NEW k \in Addr,
             SetIndex(d, k) \/ GetIndex(d, k) \/ DictPop(d, k)
      PROVE  Store!Next
  BY <1>4, SetInStore, GetInStore, PopInStore
<1>5. ASSUME NEW d \in Addr, Clear(d) PROVE Store!Next
  BY <1>5, ClearInStore
<1>6. ASSUME Await \/ Sweep PROVE StoreRests
  BY <1>6, AwaitInStore, SweepInStore
<1>7. ASSUME Allocate PROVE Store!Next \/ StoreRests
  BY <1>7, AllocateInStore
<1> QED BY <1>1, <1>2, <1>3, <1>4, <1>5, <1>6, <1>7 DEF Next

\* Strings are their characters and dicts are maps, for a script: what it
\* finds under a key is what it stored there last, whatever was interned,
\* moved, removed or collected in between, in memory that seems to have no
\* end.  This is so for every script whose main part awaits with no objects on
\* its stack and that does not store into a dict after clear().
THEOREM Implements == ~ MainHolds /\ ~ Reuses => (Spec => StorePromise)
<1> SUFFICES ASSUME ~ MainHolds, ~ Reuses PROVE Spec => StorePromise
  OBVIOUS
<1>1. IInv => HeapRight
  BY DEF IInv, HeapRight
<1>2. HeapRight /\ Init => Store!Init
  BY StoreBegins
<1>3. HeapRight /\ HeapRight' /\ [Next]_vars => [Store!Next]_(Store!storeVars)
  <2> SUFFICES ASSUME HeapRight, HeapRight', [Next]_vars,
                      ~ UNCHANGED Store!storeVars
               PROVE  Store!Next
    OBVIOUS
  <2>1. ~ StoreRests
    BY DEF StoreRests, Store!storeVars, BarStack, BarDicts, Dicts, DictContents
  <2> QED BY <2>1, StepInStore
<1> QED BY <1>1, <1>2, <1>3, Inductive, PTL DEF Spec, StorePromise, Store!Spec
=============================================================================
