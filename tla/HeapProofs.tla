----------------------------- MODULE HeapProofs -----------------------------
(***************************************************************************)
(* Theorems about Heap, for every memory, hash function and bound.         *)
(*                                                                         *)
(* The interning of strings is right in every build of the system: the     *)
(* table and the heap only change together.  That nothing dangles, and     *)
(* that all garbage goes, holds for the scripts whose main part awaits     *)
(* with no objects on its stack, and that every search ends for those of   *)
(* them that do not store into a dict after clear(); TLC shows what        *)
(* happens to the others.                                                  *)
(*                                                                         *)
(* The lemmas say what the operators of Heap compute: where a probing      *)
(* ends, what growing a table of strings or a dict does to its slots, and  *)
(* which objects can be reached.  The recursive functions of Heap run over *)
(* the slots of a table or the lengths of a path; their values are found   *)
(* by climbing from 0 with LEMMA UpTo.                                     *)
(***************************************************************************)
EXTENDS Heap, QueueLemmas

USE HeapAssumption

(* ---------------------- numbers and iterated functions ------------------- *)

\* Least is the least element.
LEMMA LeastExists ==
    ASSUME NEW T \in SUBSET Nat, T # {}
    PROVE  Least(T) \in T /\ \A m \in T : Least(T) <= m
BY SmallestExists DEF Least

\* f starts with b and goes on with what F makes of the value before.
Iterates(f, N, S, b, F) ==
    /\ f \in [0 .. N -> S] /\ f[0] = b
    /\ \A n \in 1 .. N : f[n] = F[n][f[n - 1]]

\* There is such a function, as a recursive definition takes for granted.
LEMMA Recursion ==
    ASSUME NEW N \in Nat, NEW S, NEW b \in S, NEW F \in [1 .. N -> [S -> S]]
    PROVE  \E f : Iterates(f, N, S, b, F)
<1> DEFINE Good(f, n) == f[0] = b /\ \A m \in 1 .. n : f[m] = F[m][f[m - 1]]
           T == {n \in 0 .. N : \E f \in [0 .. n -> S] : Good(f, n)}
<1>1. 0 \in T
  <2> DEFINE f == [n \in 0 .. 0 |-> b]
  <2>1. f \in [0 .. 0 -> S] /\ Good(f, 0) /\ 0 \in 0 .. N
    OBVIOUS
  <2> HIDE DEF Good, f
  <2> QED BY <2>1
<1>2. ASSUME NEW n \in 0 .. N - 1, n \in T
      PROVE  n + 1 \in T
  <2>1. PICK f \in [0 .. n -> S] : Good(f, n)
    BY <1>2
  <2> DEFINE g == [m \in 0 .. n + 1 |-> IF m = n + 1 THEN F[n + 1][f[n]]
                                        ELSE f[m]]
  <2>2. n + 1 \in 1 .. N /\ n \in 0 .. n /\ F[n + 1][f[n]] \in S
    OBVIOUS
  <2>3. g \in [0 .. n + 1 -> S]
    BY <2>2
  <2>4. g[0] = b
    BY <2>1
  <2>5. ASSUME NEW m \in 1 .. n + 1
        PROVE  g[m] = F[m][g[m - 1]]
    <3>1. CASE m = n + 1
      BY <3>1
    <3>2. CASE m # n + 1
      <4>1. m \in 1 .. n /\ g[m] = f[m] /\ g[m - 1] = f[m - 1]
        BY <3>2
      <4> QED BY <2>1, <4>1
    <3> QED BY <3>1, <3>2
  <2>6. Good(g, n + 1)
    BY <2>4, <2>5
  <2> HIDE DEF Good, g
  <2> QED BY <2>2, <2>3, <2>6
<1>3. N \in T
  <2> HIDE DEF T
  <2>1. \A n \in 0 .. N : n \in T
    BY <1>1, <1>2, UpTo
  <2> QED BY <2>1
<1> QED BY <1>3 DEF Iterates

(* -------------------------------- probing -------------------------------- *)

\* Linear probing stays in the table and comes to every slot.
LEMMA ProbeReaches ==
    ASSUME NEW h \in Nat, NEW cap \in Nat \ {0}
    PROVE  /\ \A i \in Nat : Slot(h, cap, i) \in 0 .. cap - 1
           /\ \A j \in 0 .. cap - 1 : \E i \in 0 .. cap - 1 :
                  Slot(h, cap, i) = j
<1>1. ASSUME NEW i \in Nat PROVE Slot(h, cap, i) \in 0 .. cap - 1
  BY DivMod DEF Slot
<1>2. ASSUME NEW j \in 0 .. cap - 1
      PROVE  \E i \in 0 .. cap - 1 : Slot(h, cap, i) = j
  <2> DEFINE q == h \div cap
             r == h % cap
  <2>1. q \in Nat /\ r \in 0 .. cap - 1 /\ h = q * cap + r
    BY DivMod
  <2> HIDE DEF q, r
  <2>2. CASE r <= j
    <3>1. j - r \in 0 .. cap - 1 /\ h + (j - r) = q * cap + j
      BY <2>1, <2>2
    <3>2. (q * cap + j) % cap = j
      BY <2>1, ModUnique
    <3> QED BY <3>1, <3>2 DEF Slot
  <2>3. CASE r > j
    <3>1. (j - r) + cap \in 0 .. cap - 1
      BY <2>1, <2>3
    <3>2. (q + 1) * cap = q * cap + cap
      BY <2>1
    <3>3. h + ((j - r) + cap) = (q + 1) * cap + j
      BY <2>1, <3>2
    <3>4. ((q + 1) * cap + j) % cap = j
      BY <2>1, ModUnique
    <3> QED BY <3>1, <3>3, <3>4 DEF Slot
  <2> QED BY <2>1, <2>2, <2>3
<1> QED BY <1>1, <1>2

\* A probing for one of some slots comes to one, and to none before.
LEMMA FirstOfFound ==
    ASSUME NEW h \in Nat, NEW cap \in Nat \ {0},
           NEW slots \in SUBSET (0 .. cap - 1), slots # {}
    PROVE  \E n \in 0 .. cap - 1 :
               /\ n = Least(Steps(h, cap, slots))
               /\ FirstOf(h, cap, slots) = Slot(h, cap, n)
               /\ Slot(h, cap, n) \in slots
               /\ \A m \in 0 .. n - 1 : Slot(h, cap, m) \notin slots
<1> DEFINE S == Steps(h, cap, slots)
<1>1. S \in SUBSET Nat /\ S # {}
  <2>1. PICK j \in slots : j \in 0 .. cap - 1
    OBVIOUS
  <2>2. PICK i \in 0 .. cap - 1 : Slot(h, cap, i) = j
    BY <2>1, ProbeReaches
  <2> QED BY <2>1, <2>2 DEF Steps
<1>2. Least(S) \in S /\ \A m \in S : Least(S) <= m
  BY <1>1, LeastExists
<1>3. Least(S) \in 0 .. cap - 1 /\ Slot(h, cap, Least(S)) \in slots
  BY <1>2 DEF Steps
<1>4. ASSUME NEW m \in 0 .. Least(S) - 1
      PROVE  Slot(h, cap, m) \notin slots
  <2>1. m \in 0 .. cap - 1 /\ ~ (Least(S) <= m)
    BY <1>3
  <2>2. m \notin S
    BY <1>2, <2>1
  <2> QED BY <2>1, <2>2 DEF Steps
<1> QED BY <1>3, <1>4 DEF FirstOf

(* --------------------------- the intern table ---------------------------- *)

TablesOf(cap) ==
    [cap : {cap}, data : [0 .. cap - 1 -> Addr \cup {Empty, Gone}], count : Nat]

\* A probing with hash h finds s before an empty slot.
OnPath(t, h, s) ==
    \E n \in 0 .. t.cap - 1 :
        /\ t.data[Slot(h, t.cap, n)] = s
        /\ \A m \in 0 .. n - 1 : t.data[Slot(h, t.cap, m)] # Empty

OneSlotEach(t) ==
    \A i, j \in 0 .. t.cap - 1 :
        t.data[i] = t.data[j] /\ t.data[i] \in Addr => i = j

CountExact(t) == t.count = t.cap - Cardinality(EmptySlots(t))

\* Growing makes a table larger.
LEMMA GrowCapacityGrows ==
    ASSUME NEW cap \in Nat
    PROVE  GrowCapacity(cap) \in Nat /\ GrowCapacity(cap) > cap
           /\ GrowCapacity(cap) > 1
BY DEF GrowCapacity

\* A table that need not grow has room for more than one string.
LEMMA RoomLeft ==
    ASSUME NEW cap \in Nat, NEW count \in Nat,
           ~ (count + 1 > (cap * 3) \div 4)
    PROVE  count + 1 < cap
<1>1. (cap * 3) \div 4 \in Nat /\ 4 * ((cap * 3) \div 4) <= cap * 3
  OBVIOUS
<1> QED BY <1>1

\* The slots of a table can be counted.
LEMMA IntervalSize ==
    ASSUME NEW cap \in Nat
    PROVE  IsFiniteSet(0 .. cap - 1) /\ Cardinality(0 .. cap - 1) = cap
<1>1. 0 \in Int /\ cap - 1 \in Int
  OBVIOUS
<1>2. /\ IsFiniteSet(0 .. cap - 1)
      /\ Cardinality(0 .. cap - 1) =
             IF 0 > cap - 1 THEN 0 ELSE (cap - 1) - 0 + 1
  BY <1>1, FS_Interval, Zenon
<1> QED BY <1>2

\* The empty slots of a table can be counted.
LEMMA EmptySlotsFinite ==
    ASSUME NEW cap \in Nat, NEW t \in TablesOf(cap)
    PROVE  /\ EmptySlots(t) \in SUBSET (0 .. cap - 1)
           /\ IsFiniteSet(EmptySlots(t))
           /\ Cardinality(EmptySlots(t)) \in 0 .. cap
<1>1. EmptySlots(t) \in SUBSET (0 .. cap - 1)
  BY DEF EmptySlots, TablesOf
<1>2. IsFiniteSet(0 .. cap - 1) /\ Cardinality(0 .. cap - 1) = cap
  BY IntervalSize
<1>3. /\ IsFiniteSet(EmptySlots(t))
      /\ Cardinality(EmptySlots(t)) <= Cardinality(0 .. cap - 1)
  BY <1>1, <1>2, FS_Subset
<1>4. Cardinality(EmptySlots(t)) \in Nat
  BY <1>3, FS_CardinalityType
<1> QED BY <1>1, <1>2, <1>3, <1>4

\* An empty table.
LEMMA FreshTableIs ==
    ASSUME NEW cap \in Nat
    PROVE  /\ FreshTable(cap) \in TablesOf(cap)
           /\ EmptySlots(FreshTable(cap)) = 0 .. cap - 1
           /\ CountExact(FreshTable(cap)) /\ OneSlotEach(FreshTable(cap))
<1>1. FreshTable(cap) \in TablesOf(cap)
  BY DEF FreshTable, TablesOf
<1>2. EmptySlots(FreshTable(cap)) = 0 .. cap - 1
  BY DEF FreshTable, EmptySlots
<1>3. CountExact(FreshTable(cap))
  <2>1. Cardinality(0 .. cap - 1) = cap
    BY FS_Interval
  <2>2. FreshTable(cap).count = 0 /\ FreshTable(cap).cap = cap
    BY DEF FreshTable
  <2> QED BY <1>2, <2>1, <2>2 DEF CountExact
<1>4. OneSlotEach(FreshTable(cap))
  BY DEF OneSlotEach, FreshTable
<1> QED BY <1>1, <1>2, <1>3, <1>4

\* A probing with hash h comes to the slot i before any other empty slot.
ComesTo(t, h, i) ==
    \E n \in 0 .. t.cap - 1 :
        /\ Slot(h, t.cap, n) = i
        /\ \A m \in 0 .. n - 1 :
               Slot(h, t.cap, m) \in (0 .. t.cap - 1) \ EmptySlots(t)

\* The string s in the slot i; a tombstone has been counted before.
WithString(t, i, s) ==
    [t EXCEPT !.data[i] = s, !.count = IF t.data[i] = Empty THEN @ + 1 ELSE @]

\* Putting a new string into a slot that holds none.
LEMMA Put ==
    ASSUME NEW cap \in Nat, NEW t \in TablesOf(cap),
           CountExact(t), OneSlotEach(t),
           NEW s \in Addr, \A j \in 0 .. cap - 1 : t.data[j] # s,
           NEW i \in 0 .. cap - 1, t.data[i] \in {Empty, Gone},
           NEW h, ComesTo(t, h, i), NEW u, u = WithString(t, i, s)
    PROVE  /\ u \in TablesOf(cap)
           /\ u.data = [t.data EXCEPT ![i] = s]
           /\ EmptySlots(u) = EmptySlots(t) \ {i}
           /\ CountExact(u) /\ OneSlotEach(u)
           /\ OnPath(u, h, s)
           /\ \A g \in Nat, r \in Addr : OnPath(t, g, r) => OnPath(u, g, r)
<1>1. /\ t.cap = cap /\ t.count \in Nat
      /\ t.data \in [0 .. cap - 1 -> Addr \cup {Empty, Gone}]
  BY DEF TablesOf
<1>2. /\ u.cap = cap /\ u.data = [t.data EXCEPT ![i] = s]
      /\ u.count = IF t.data[i] = Empty THEN t.count + 1 ELSE t.count
      /\ u \in TablesOf(cap)
  <2>1. u = [cap |-> cap, data |-> [t.data EXCEPT ![i] = s],
             count |-> IF t.data[i] = Empty THEN t.count + 1 ELSE t.count]
    BY DEF TablesOf, WithString
  <2>2. [t.data EXCEPT ![i] = s] \in [0 .. cap - 1 -> Addr \cup {Empty, Gone}]
    BY <1>1
  <2>3. (IF t.data[i] = Empty THEN t.count + 1 ELSE t.count) \in Nat
    BY <1>1
  <2> QED BY <2>1, <2>2, <2>3 DEF TablesOf
<1>3. EmptySlots(u) = EmptySlots(t) \ {i}
  BY <1>1, <1>2 DEF EmptySlots
<1>4. CountExact(u)
  <2>1. IsFiniteSet(EmptySlots(t)) /\ Cardinality(EmptySlots(t)) \in Nat
    BY EmptySlotsFinite
  <2>2. CASE t.data[i] = Empty
    <3>1. i \in EmptySlots(t)
      BY <1>1, <2>2 DEF EmptySlots
    <3>2. Cardinality(EmptySlots(u)) = Cardinality(EmptySlots(t)) - 1
      BY <1>3, <2>1, <3>1, FS_RemoveElement
    <3> QED BY <1>1, <1>2, <2>1, <2>2, <3>2 DEF CountExact
  <2>3. CASE t.data[i] # Empty
    <3>1. EmptySlots(u) = EmptySlots(t)
      BY <1>3, <2>3 DEF EmptySlots
    <3> QED BY <1>1, <1>2, <2>3, <3>1 DEF CountExact
  <2> QED BY <2>2, <2>3
<1>5. OneSlotEach(u)
  BY <1>1, <1>2 DEF OneSlotEach
<1>6. OnPath(u, h, s)
  <2>1. PICK n \in 0 .. cap - 1 :
            /\ Slot(h, cap, n) = i
            /\ \A m \in 0 .. n - 1 :
                   Slot(h, cap, m) \in (0 .. cap - 1) \ EmptySlots(t)
    BY <1>1 DEF ComesTo
  <2>2. ASSUME NEW m \in 0 .. n - 1
        PROVE  u.data[Slot(h, cap, m)] # Empty
    BY <1>1, <1>2, <2>1 DEF EmptySlots
  <2> QED BY <1>1, <1>2, <2>1, <2>2 DEF OnPath
<1>7. ASSUME NEW g \in Nat, NEW r \in Addr, OnPath(t, g, r)
      PROVE  OnPath(u, g, r)
  <2>1. PICK k \in 0 .. cap - 1 :
            /\ t.data[Slot(g, cap, k)] = r
            /\ \A m \in 0 .. k - 1 : t.data[Slot(g, cap, m)] # Empty
    BY <1>1, <1>7 DEF OnPath
  <2>2. \A m \in Nat : Slot(g, cap, m) \in 0 .. cap - 1
    <3>1. cap # 0
      OBVIOUS
    <3> QED BY <3>1, ProbeReaches
  <2>3. \A j \in 0 .. cap - 1 :
            u.data[j] = IF j = i THEN s ELSE t.data[j]
    BY <1>1, <1>2
  <2>4. u.data[Slot(g, cap, k)] = r
    <3>1. Slot(g, cap, k) \in 0 .. cap - 1 /\ Slot(g, cap, k) # i
      BY <2>1, <2>2
    <3> QED BY <2>1, <2>3, <3>1
  <2>5. ASSUME NEW m \in 0 .. k - 1
        PROVE  u.data[Slot(g, cap, m)] # Empty
    <3>1. Slot(g, cap, m) \in 0 .. cap - 1
      BY <2>2
    <3> QED BY <2>1, <2>3, <3>1
  <2> QED BY <1>2, <2>1, <2>4, <2>5 DEF OnPath
<1> QED BY <1>2, <1>3, <1>4, <1>5, <1>6, <1>7

\* What has become of the first n slots of t in the larger table u.
MovedRight(t, n, u) ==
    /\ u \in TablesOf(GrowCapacity(t.cap)) /\ CountExact(u) /\ OneSlotEach(u)
    /\ u.count <= n
    /\ (\E j \in 0 .. n - 1 : t.data[j] = Empty) => u.count < n
    /\ \A i \in 0 .. u.cap - 1 :
           \/ u.data[i] = Empty
           \/ \E j \in 0 .. n - 1 : u.data[i] = t.data[j] /\ t.data[j] \in Addr
    /\ \A j \in 0 .. n - 1 :
           t.data[j] \in Addr => OnPath(u, KeyHash(t.data[j]), t.data[j])

\* Wherever a string is put, the table stays one.
LEMMA PlaceTyped ==
    ASSUME NEW cap, NEW u \in TablesOf(cap), NEW s \in Addr
    PROVE  StringTablePlace(u, s) \in TablesOf(cap)
<1>1. PICK i : StringTablePlace(u, s) = [u EXCEPT !.data[i] = s, !.count = @ + 1]
  BY DEF StringTablePlace
<1>2. [u.data EXCEPT ![i] = s] \in [0 .. cap - 1 -> Addr \cup {Empty, Gone}]
  BY DEF TablesOf
<1>3. StringTablePlace(u, s) = [cap |-> cap, count |-> u.count + 1,
                                data |-> [u.data EXCEPT ![i] = s]]
  BY <1>1 DEF TablesOf
<1>4. u.count + 1 \in Nat
  BY DEF TablesOf
<1> QED BY <1>2, <1>3, <1>4 DEF TablesOf

\* One more string finds a place, on the path of its hash.
LEMMA PlaceRight ==
    ASSUME NEW cap \in Nat, NEW t \in TablesOf(cap), OneSlotEach(t),
           NEW n \in 0 .. cap - 1, t.data[n] \in Addr,
           \A j \in 0 .. cap - 1 : t.data[j] \in Addr =>
               KeyHash(t.data[j]) \in Nat,
           NEW u, MovedRight(t, n, u)
    PROVE  MovedRight(t, n + 1, StringTablePlace(u, t.data[n]))
<1> DEFINE big == GrowCapacity(cap)
           s == t.data[n]
           h == KeyHash(s)
           i == FirstOf(h, big, EmptySlots(u))
           v == StringTablePlace(u, s)
<1>1. /\ t.cap = cap /\ u \in TablesOf(big) /\ CountExact(u)
      /\ OneSlotEach(u) /\ u.count <= n /\ u.cap = big
      /\ u.count \in Nat
      /\ u.data \in [0 .. big - 1 -> Addr \cup {Empty, Gone}]
  BY DEF MovedRight, TablesOf
<1>2. big \in Nat /\ big > cap /\ h \in Nat
  BY GrowCapacityGrows
<1> HIDE DEF big
<1>3. EmptySlots(u) # {} /\ EmptySlots(u) \in SUBSET (0 .. big - 1)
  <2>1. Cardinality(EmptySlots(u)) = big - u.count
        /\ Cardinality(EmptySlots(u)) \in 0 .. big
    BY <1>1, <1>2, EmptySlotsFinite DEF CountExact
  <2>2. Cardinality(EmptySlots(u)) # 0
    BY <1>1, <1>2, <2>1
  <2> QED BY <1>1, <1>2, <2>2, EmptySlotsFinite, FS_EmptySet
<1> HIDE DEF h
<1>4. PICK k \in 0 .. big - 1 :
          /\ i = Slot(h, big, k) /\ i \in EmptySlots(u)
          /\ \A m \in 0 .. k - 1 : Slot(h, big, m) \notin EmptySlots(u)
  BY <1>2, <1>3, FirstOfFound
<1>5. ComesTo(u, h, i)
  <2>1. big \in Nat \ {0}
    BY <1>2
  <2>2. \A m \in Nat : Slot(h, big, m) \in 0 .. big - 1
    BY <1>2, <2>1, ProbeReaches
  <2>3. ASSUME NEW m \in 0 .. k - 1
        PROVE  Slot(h, u.cap, m) \in (0 .. u.cap - 1) \ EmptySlots(u)
    <3>1. m \in Nat
      OBVIOUS
    <3> QED BY <1>1, <1>4, <2>2, <3>1
  <2>4. Slot(h, u.cap, k) = i /\ k \in 0 .. u.cap - 1
    BY <1>1, <1>4
  <2> HIDE DEF i
  <2> QED BY <2>3, <2>4 DEF ComesTo
<1>6. \A j \in 0 .. big - 1 : u.data[j] # s
  BY <1>1 DEF MovedRight, OneSlotEach
<1>7. i \in 0 .. big - 1 /\ u.data[i] = Empty
  BY <1>1, <1>3, <1>4 DEF EmptySlots
<1>8. v = WithString(u, i, s)
  BY <1>1, <1>7 DEF StringTablePlace, WithString, KeyHash, h
<1> HIDE DEF v, i, s
<1>9. /\ v \in TablesOf(big) /\ v.data = [u.data EXCEPT ![i] = s]
      /\ CountExact(v) /\ OneSlotEach(v) /\ OnPath(v, h, s)
      /\ \A g \in Nat, r \in Addr : OnPath(u, g, r) => OnPath(v, g, r)
  <2>1. u.data[i] \in {Empty, Gone} /\ s \in Addr
    BY <1>7 DEF s
  <2>2. big \in Nat
    BY <1>2
  <2>3. u \in TablesOf(big) /\ CountExact(u) /\ OneSlotEach(u)
    BY <1>1
  <2> QED BY <1>5, <1>6, <1>7, <1>8, <2>1, <2>2, <2>3, Put
<1>10. v.count = u.count + 1
  BY <1>1, <1>7, <1>8 DEF TablesOf, WithString
<1>11. v.count <= n + 1
       /\ ((\E j \in 0 .. n : t.data[j] = Empty) => v.count < n + 1)
  <2>1. t.data[n] # Empty
    OBVIOUS
  <2>2. (\E j \in 0 .. n : t.data[j] = Empty) =>
            \E j \in 0 .. n - 1 : t.data[j] = Empty
    BY <2>1
  <2> QED BY <1>1, <1>10, <2>2 DEF MovedRight
<1>12. ASSUME NEW j \in 0 .. big - 1
       PROVE  \/ v.data[j] = Empty
              \/ \E l \in 0 .. n : v.data[j] = t.data[l] /\ t.data[l] \in Addr
  <2>1. CASE j = i
    BY <1>1, <1>7, <1>9, <2>1 DEF s
  <2>2. CASE j # i
    BY <1>1, <1>9, <2>2 DEF MovedRight
  <2> QED BY <2>1, <2>2
<1>13. ASSUME NEW j \in 0 .. n, t.data[j] \in Addr
       PROVE  OnPath(v, KeyHash(t.data[j]), t.data[j])
  <2>1. CASE j = n
    BY <1>9, <2>1 DEF s, h
  <2>2. CASE j # n
    BY <1>9, <1>13, <2>2 DEF MovedRight
  <2> QED BY <2>1, <2>2
<1>14. v.cap = big /\ n + 1 - 1 = n
  BY <1>9 DEF TablesOf
<1> QED BY <1>1, <1>9, <1>11, <1>12, <1>13, <1>14 DEF MovedRight, v, s, big

\* A slot without a string is passed over.
LEMMA PassOver ==
    ASSUME NEW cap \in Nat, NEW t \in TablesOf(cap),
           NEW n \in 0 .. cap - 1, t.data[n] \in {Empty, Gone},
           NEW u, MovedRight(t, n, u)
    PROVE  MovedRight(t, n + 1, u)
<1>1. t.data[n] \notin Addr /\ n + 1 - 1 = n /\ u.count \in Nat
  BY DEF MovedRight, TablesOf
<1>2. u.count <= n
  BY DEF MovedRight
<1>3. u.count < n + 1
  BY <1>1, <1>2
<1> QED BY <1>1, <1>3 DEF MovedRight

\* string_table_grow moves every string of the table, to the path of its
\* hash, and leaves more slots empty than it fills.
LEMMA GrowRight ==
    ASSUME NEW cap \in Nat, NEW t \in TablesOf(cap), OneSlotEach(t),
           \A j \in 0 .. cap - 1 : t.data[j] \in Addr =>
               KeyHash(t.data[j]) \in Nat
    PROVE  MovedRight(t, cap, StringTableGrow(t))
<1> DEFINE big == GrowCapacity(t.cap)
           Skips(n) == t.data[n - 1] \in {Empty, Gone}
           moved[n \in 0 .. t.cap] ==
               IF n = 0 THEN FreshTable(big)
               ELSE IF Skips(n) THEN moved[n - 1]
               ELSE StringTablePlace(moved[n - 1], t.data[n - 1])
           F == [n \in 1 .. cap |-> [u \in TablesOf(big) |->
                    IF Skips(n) THEN u ELSE StringTablePlace(u, t.data[n - 1])]]
<1>1. t.cap = cap /\ big \in Nat
  BY GrowCapacityGrows DEF TablesOf
<1>2. F \in [1 .. cap -> [TablesOf(big) -> TablesOf(big)]]
  <2> SUFFICES ASSUME NEW n \in 1 .. cap, NEW u \in TablesOf(big), ~ Skips(n)
               PROVE  StringTablePlace(u, t.data[n - 1]) \in TablesOf(big)
    OBVIOUS
  <2>1. t.data[n - 1] \in Addr
    BY DEF TablesOf
  <2> HIDE DEF big
  <2> QED BY <2>1, PlaceTyped
<1>3. PICK f : Iterates(f, cap, TablesOf(big), FreshTable(big), F)
  <2>1. FreshTable(big) \in TablesOf(big)
    BY <1>1, FreshTableIs
  <2> HIDE DEF F, big
  <2> QED BY <1>2, <2>1, Recursion
<1>4. f = [n \in 0 .. t.cap |->
              IF n = 0 THEN FreshTable(big)
              ELSE IF Skips(n) THEN f[n - 1]
              ELSE StringTablePlace(f[n - 1], t.data[n - 1])]
  <2>1. ASSUME NEW n \in 1 .. cap
        PROVE  f[n] = IF Skips(n) THEN f[n - 1]
                      ELSE StringTablePlace(f[n - 1], t.data[n - 1])
    <3>1. f[n - 1] \in TablesOf(big) /\ f[n] = F[n][f[n - 1]]
      BY <1>3 DEF Iterates
    <3> QED BY <3>1
  <2> HIDE DEF big, Skips, F
  <2> QED BY <1>1, <1>3, <2>1 DEF Iterates
<1>5. moved = [n \in 0 .. t.cap |->
                  IF n = 0 THEN FreshTable(big)
                  ELSE IF Skips(n) THEN moved[n - 1]
                  ELSE StringTablePlace(moved[n - 1], t.data[n - 1])]
  <2> HIDE DEF big, Skips, F
  <2> QED BY <1>4, Zenon
<1>6. StringTableGrow(t) = moved[cap]
  BY <1>1 DEF StringTableGrow
<1> HIDE DEF moved, big, F
<1> DEFINE T == {n \in 0 .. cap : MovedRight(t, n, moved[n])}
<1>7. 0 \in T
  <2>1. /\ FreshTable(big) \in TablesOf(big) /\ CountExact(FreshTable(big))
        /\ OneSlotEach(FreshTable(big)) /\ FreshTable(big).count = 0
        /\ \A i \in 0 .. big - 1 : FreshTable(big).data[i] = Empty
        /\ FreshTable(big).cap = big
    BY <1>1, FreshTableIs DEF FreshTable
  <2>2. moved[0] = FreshTable(big)
    BY <1>1, <1>5
  <2> QED BY <1>1, <2>1, <2>2 DEF MovedRight, big
<1>8. ASSUME NEW n \in 0 .. cap - 1, n \in T
      PROVE  n + 1 \in T
  <2>1. n + 1 \in 0 .. cap /\ n + 1 # 0 /\ n + 1 - 1 = n
    OBVIOUS
  <2>2. moved[n + 1] = IF t.data[n] \in {Empty, Gone} THEN moved[n]
                       ELSE StringTablePlace(moved[n], t.data[n])
    BY <1>1, <1>5, <2>1
  <2>3. MovedRight(t, n, moved[n]) /\ t.data[n] \in Addr \cup {Empty, Gone}
    BY <1>8 DEF TablesOf
  <2>4. MovedRight(t, n + 1, moved[n + 1])
    <3>1. CASE t.data[n] \in {Empty, Gone}
      BY <2>2, <2>3, <3>1, PassOver
    <3>2. CASE t.data[n] \notin {Empty, Gone}
      BY <2>2, <2>3, <3>2, PlaceRight
    <3> QED BY <3>1, <3>2
  <2> QED BY <2>1, <2>4
<1>9. \A n \in 0 .. cap : n \in T
  <2> HIDE DEF T
  <2> QED BY <1>7, <1>8, UpTo
<1> QED BY <1>6, <1>9

\* Every string of the table is on the path of its hash.
PathsKept(t) ==
    \A j \in 0 .. t.cap - 1 : t.data[j] \in Addr =>
        /\ KeyHash(t.data[j]) \in Nat
        /\ OnPath(t, KeyHash(t.data[j]), t.data[j])

\* A table that a string can be put into without growing.
Roomy(t, cap) ==
    /\ t \in TablesOf(cap) /\ CountExact(t) /\ OneSlotEach(t)
    /\ t.count + 1 < cap

\* u is t with the string a of hash h in it.
InsertedRight(t, a, h, u) ==
    /\ u.cap \in Nat /\ u \in TablesOf(u.cap)
    /\ CountExact(u) /\ OneSlotEach(u) /\ EmptySlots(u) # {}
    /\ OnPath(u, h, a)
    /\ \A i \in 0 .. u.cap - 1 : u.data[i] \in Addr =>
           u.data[i] = a \/ \E j \in 0 .. t.cap - 1 : u.data[i] = t.data[j]
    /\ \A j \in 0 .. t.cap - 1 : t.data[j] \in Addr =>
           OnPath(u, KeyHash(t.data[j]), t.data[j])

\* After it has grown, if it had to, the table has room.
LEMMA GrownRoomy ==
    ASSUME NEW cap \in Nat, NEW t \in TablesOf(cap),
           CountExact(t), OneSlotEach(t), PathsKept(t),
           cap > 0 => EmptySlots(t) # {},
           NEW u, u = IF IsFull(t) THEN StringTableGrow(t) ELSE t
    PROVE  /\ u.cap \in Nat /\ Roomy(u, u.cap)
           /\ \A i \in 0 .. u.cap - 1 : u.data[i] \in Addr =>
                  \E j \in 0 .. cap - 1 : u.data[i] = t.data[j]
           /\ \A j \in 0 .. cap - 1 : t.data[j] \in Addr =>
                  OnPath(u, KeyHash(t.data[j]), t.data[j])
<1>1. t.cap = cap /\ t.count \in Nat
  BY DEF TablesOf
<1>2. CASE IsFull(t)
  <2> DEFINE big == GrowCapacity(cap)
  <2>1. u = StringTableGrow(t)
    BY <1>2
  <2>2. MovedRight(t, cap, u)
    BY <1>1, <2>1, GrowRight DEF PathsKept
  <2>3. u \in TablesOf(big) /\ u.cap = big /\ u.count \in Nat
        /\ u.count <= cap
    BY <1>1, <2>2 DEF MovedRight, TablesOf
  <2>4. big \in Nat /\ big > cap /\ big > 1
    BY GrowCapacityGrows
  <2> HIDE DEF big
  <2>5. u.count + 1 < big
    <3>1. CASE cap = 0
      BY <2>3, <2>4, <3>1
    <3>2. CASE cap > 0
      <4>1. PICK j \in 0 .. cap - 1 : t.data[j] = Empty
        BY <1>1, <3>2 DEF EmptySlots
      <4>2. u.count < cap
        BY <2>2, <4>1 DEF MovedRight
      <4> QED BY <2>3, <2>4, <4>2
    <3> QED BY <3>1, <3>2
  <2>6. ASSUME NEW i \in 0 .. u.cap - 1, u.data[i] \in Addr
        PROVE  \E j \in 0 .. cap - 1 : u.data[i] = t.data[j]
    BY <2>2, <2>6 DEF MovedRight
  <2>7. ASSUME NEW j \in 0 .. cap - 1, t.data[j] \in Addr
        PROVE  OnPath(u, KeyHash(t.data[j]), t.data[j])
    BY <2>2, <2>7 DEF MovedRight
  <2>8. CountExact(u) /\ OneSlotEach(u)
    BY <2>2 DEF MovedRight
  <2>9. Roomy(u, u.cap) /\ u.cap \in Nat
    BY <2>3, <2>4, <2>5, <2>8 DEF Roomy
  <2> QED BY <2>6, <2>7, <2>9
<1>3. CASE ~ IsFull(t)
  <2>1. u = t /\ t.count + 1 < cap
    BY <1>1, <1>3, RoomLeft DEF IsFull
  <2> QED BY <1>1, <2>1 DEF Roomy, PathsKept
<1> QED BY <1>2, <1>3

\* string_table_set puts a new string on the path of its hash, whether the
\* table grows or not, and leaves an empty slot.
LEMMA SetRight ==
    ASSUME NEW cap \in Nat, NEW t \in TablesOf(cap),
           CountExact(t), OneSlotEach(t), PathsKept(t),
           cap > 0 => EmptySlots(t) # {},
           NEW a \in Addr, \A j \in 0 .. cap - 1 : t.data[j] # a,
           NEW c \in Chars
    PROVE  InsertedRight(t, a, Hash[c], StringTableSet(t, a, c))
<1> DEFINE u == IF IsFull(t) THEN StringTableGrow(t) ELSE t
           h == Hash[c]
           slots == {j \in 0 .. u.cap - 1 : u.data[j] \in {Empty, Gone}}
           i == FirstOf(h, u.cap, slots)
           v == WithString(u, i, a)
<1>1. t.cap = cap
  BY DEF TablesOf
<1>2. /\ u.cap \in Nat /\ Roomy(u, u.cap)
      /\ \A k \in 0 .. u.cap - 1 : u.data[k] \in Addr =>
             \E j \in 0 .. cap - 1 : u.data[k] = t.data[j]
      /\ \A j \in 0 .. cap - 1 : t.data[j] \in Addr =>
             OnPath(u, KeyHash(t.data[j]), t.data[j])
  <2> HIDE DEF u
  <2>1. u = IF IsFull(t) THEN StringTableGrow(t) ELSE t
    BY DEF u
  <2> QED BY <2>1, GrownRoomy
<1>3. StringTableSet(t, a, c) = v
  BY DEF StringTableSet, WithString
<1>4. h \in Nat
  OBVIOUS
<1> HIDE DEF u, h, v
<1>5. /\ u \in TablesOf(u.cap) /\ CountExact(u) /\ OneSlotEach(u)
      /\ u.count \in Nat /\ u.count + 1 < u.cap
  BY <1>2 DEF Roomy, TablesOf
<1>6. /\ EmptySlots(u) \in SUBSET (0 .. u.cap - 1) /\ EmptySlots(u) # {}
      /\ EmptySlots(u) \subseteq slots
  <2>1. /\ EmptySlots(u) \in SUBSET (0 .. u.cap - 1)
        /\ Cardinality(EmptySlots(u)) = u.cap - u.count
    BY <1>2, <1>5, EmptySlotsFinite DEF CountExact
  <2>2. Cardinality(EmptySlots(u)) # 0
    BY <1>2, <1>5, <2>1
  <2>3. EmptySlots(u) # {}
    BY <2>2, FS_EmptySet
  <2> QED BY <2>1, <2>3 DEF EmptySlots
<1>7. PICK k \in 0 .. u.cap - 1 :
          /\ i = Slot(h, u.cap, k) /\ i \in slots
          /\ \A m \in 0 .. k - 1 : Slot(h, u.cap, m) \notin slots
  <2>1. u.cap \in Nat \ {0} /\ slots \in SUBSET (0 .. u.cap - 1)
        /\ slots # {}
    BY <1>2, <1>5, <1>6
  <2> HIDE DEF slots
  <2> QED BY <1>4, <2>1, FirstOfFound
<1>8. i \in 0 .. u.cap - 1 /\ u.data[i] \in {Empty, Gone}
  BY <1>7
<1>9. ComesTo(u, h, i)
  <2>1. \A m \in Nat : Slot(h, u.cap, m) \in 0 .. u.cap - 1
    <3>1. u.cap \in Nat \ {0}
      BY <1>2, <1>5
    <3> QED BY <1>4, <3>1, ProbeReaches
  <2>2. ASSUME NEW m \in 0 .. k - 1
        PROVE  Slot(h, u.cap, m) \in (0 .. u.cap - 1) \ EmptySlots(u)
    <3>1. m \in Nat
      OBVIOUS
    <3> QED BY <1>6, <1>7, <2>1, <3>1
  <2>3. Slot(h, u.cap, k) = i /\ k \in 0 .. u.cap - 1
    BY <1>7
  <2> HIDE DEF i, slots
  <2> QED BY <2>2, <2>3 DEF ComesTo
<1>10. \A j \in 0 .. u.cap - 1 : u.data[j] # a
  BY <1>2
<1> HIDE DEF i, slots
<1>11. /\ v \in TablesOf(u.cap) /\ v.data = [u.data EXCEPT ![i] = a]
       /\ EmptySlots(v) = EmptySlots(u) \ {i}
       /\ CountExact(v) /\ OneSlotEach(v) /\ OnPath(v, h, a)
       /\ \A g \in Nat, r \in Addr : OnPath(u, g, r) => OnPath(v, g, r)
  <2>1. v = WithString(u, i, a)
    BY DEF v
  <2> QED BY <1>2, <1>5, <1>8, <1>9, <1>10, <2>1, Put
<1>12. v.cap = u.cap
  BY <1>11 DEF TablesOf
<1>13. EmptySlots(v) # {}
  <2>1. v.count <= u.count + 1 /\ v.count \in Nat
    BY <1>5 DEF v, WithString, TablesOf
  <2>2. Cardinality(EmptySlots(v)) = u.cap - v.count
    <3>1. Cardinality(EmptySlots(v)) \in 0 .. u.cap
      BY <1>2, <1>11, EmptySlotsFinite
    <3>2. v.count = u.cap - Cardinality(EmptySlots(v))
      BY <1>11, <1>12 DEF CountExact
    <3> QED BY <1>2, <2>1, <3>1, <3>2
  <2>3. Cardinality(EmptySlots(v)) # 0
    BY <1>2, <1>5, <2>1, <2>2
  <2> QED BY <2>3, FS_EmptySet
<1>14. ASSUME NEW k1 \in 0 .. v.cap - 1, v.data[k1] \in Addr
       PROVE  v.data[k1] = a \/ \E j \in 0 .. t.cap - 1 : v.data[k1] = t.data[j]
  <2>1. u.data \in [0 .. u.cap - 1 -> Addr \cup {Empty, Gone}]
    BY <1>5 DEF TablesOf
  <2>2. v.data[k1] = IF k1 = i THEN a ELSE u.data[k1]
    BY <1>11, <1>12, <2>1
  <2> QED BY <1>1, <1>2, <1>12, <1>14, <2>2
<1>15. ASSUME NEW j \in 0 .. t.cap - 1, t.data[j] \in Addr
       PROVE  OnPath(v, KeyHash(t.data[j]), t.data[j])
  BY <1>1, <1>2, <1>11, <1>15 DEF PathsKept
<1>16. InsertedRight(t, a, h, v)
  BY <1>2, <1>11, <1>12, <1>13, <1>14, <1>15 DEF InsertedRight
<1> QED BY <1>3, <1>16 DEF h

\* string_table_find comes to the one string with the characters, wherever a
\* tombstone or another string lies on its path.
LEMMA FindRight ==
    ASSUME NEW cap \in Nat, NEW t \in TablesOf(cap), NEW a \in Addr,
           IsString(a), heap[a].chars \in Chars,
           OnPath(t, Hash[heap[a].chars], a),
           \A b \in Addr : IsString(b) /\ heap[b].chars = heap[a].chars => b = a
    PROVE  StringTableFind(t, heap[a].chars) = a
<1> DEFINE c == heap[a].chars
           h == Hash[c]
           slots == SlotsHolding(t, c) \cup EmptySlots(t)
<1>1. t.cap = cap /\ t.data \in [0 .. cap - 1 -> Addr \cup {Empty, Gone}]
  BY DEF TablesOf
<1>2. h \in Nat
  OBVIOUS
<1>3. PICK n \in 0 .. cap - 1 :
          /\ t.data[Slot(h, cap, n)] = a
          /\ \A m \in 0 .. n - 1 : t.data[Slot(h, cap, m)] # Empty
  BY <1>1 DEF OnPath
<1>4. cap \in Nat \ {0}
  OBVIOUS
<1>5. \A m \in Nat : Slot(h, cap, m) \in 0 .. cap - 1
  BY <1>2, <1>4, ProbeReaches
<1>6. Slot(h, cap, n) \in slots
  BY <1>1, <1>3, <1>5, SMTT(30) DEF SlotsHolding
<1>7. slots \in SUBSET (0 .. cap - 1)
  BY <1>1 DEF SlotsHolding, EmptySlots
<1> HIDE DEF h
<1>8. PICK k \in 0 .. cap - 1 :
          /\ FirstOf(h, cap, slots) = Slot(h, cap, k)
          /\ Slot(h, cap, k) \in slots
          /\ \A m \in 0 .. k - 1 : Slot(h, cap, m) \notin slots
  <2> HIDE DEF slots
  <2> QED BY <1>2, <1>4, <1>6, <1>7, FirstOfFound
<1>9. k <= n
  <2>1. CASE k > n
    <3>1. n \in 0 .. k - 1
      BY <2>1
    <3> QED BY <1>6, <1>8, <3>1
  <2> QED BY <2>1
<1>10. t.data[Slot(h, cap, k)] = a
  <2>1. CASE k = n
    BY <1>3, <2>1
  <2>2. CASE k < n
    <3>1. k \in 0 .. n - 1
      BY <2>2
    <3>2. t.data[Slot(h, cap, k)] # Empty
      BY <1>3, <3>1
    <3>3. Slot(h, cap, k) \in SlotsHolding(t, c)
      BY <1>8, <3>2 DEF EmptySlots
    <3> QED BY <3>3 DEF SlotsHolding, IsString
  <2> QED BY <1>9, <2>1, <2>2
<1>11. StringTableFind(t, c) = t.data[FirstOf(h, cap, slots)]
  BY <1>1, <1>4 DEF StringTableFind, h
<1> QED BY <1>8, <1>10, <1>11

\* string_table_remove finds the string it is to remove.
LEMMA SlotRight ==
    ASSUME NEW cap \in Nat, NEW t \in TablesOf(cap), OneSlotEach(t),
           PathsKept(t), NEW i \in 0 .. cap - 1, t.data[i] \in Addr
    PROVE  StringTableSlot(t, t.data[i]) = i
<1> DEFINE a == t.data[i]
           h == KeyHash(a)
           slots == {j \in 0 .. t.cap - 1 : t.data[j] \in {a, Empty}}
<1>1. t.cap = cap /\ t.data \in [0 .. cap - 1 -> Addr \cup {Empty, Gone}]
  BY DEF TablesOf
<1>2. h \in Nat /\ OnPath(t, h, a)
  BY <1>1 DEF PathsKept
<1>3. a # Empty
  OBVIOUS
<1>4. slots = {j \in 0 .. cap - 1 : t.data[j] = a \/ t.data[j] = Empty}
  BY <1>1
<1>5. StringTableSlot(t, a) = FirstOf(h, cap, slots)
  BY <1>1 DEF StringTableSlot, KeyHash
<1>6. \A j \in 0 .. cap - 1 : t.data[j] = a => j = i
  BY <1>1 DEF OneSlotEach
<1> HIDE DEF h, slots
<1>7. PICK n \in 0 .. cap - 1 :
          /\ t.data[Slot(h, cap, n)] = a
          /\ \A m \in 0 .. n - 1 : t.data[Slot(h, cap, m)] # Empty
  BY <1>1, <1>2 DEF OnPath
<1>8. cap \in Nat \ {0}
  OBVIOUS
<1>9. \A m \in Nat : Slot(h, cap, m) \in 0 .. cap - 1
  BY <1>2, <1>8, ProbeReaches
<1>10. Slot(h, cap, n) \in slots /\ slots \in SUBSET (0 .. cap - 1)
  BY <1>4, <1>7, <1>9
<1>11. PICK k \in 0 .. cap - 1 :
          /\ FirstOf(h, cap, slots) = Slot(h, cap, k)
          /\ Slot(h, cap, k) \in slots
          /\ \A m \in 0 .. k - 1 : Slot(h, cap, m) \notin slots
  BY <1>2, <1>8, <1>10, FirstOfFound
<1>12. k <= n
  <2>1. CASE k > n
    <3>1. n \in 0 .. k - 1
      BY <2>1
    <3> QED BY <1>10, <1>11, <3>1
  <2> QED BY <2>1
<1>13. t.data[Slot(h, cap, k)] # Empty
  <2>1. CASE k = n
    BY <1>3, <1>7, <2>1
  <2>2. CASE k < n
    <3>1. k \in 0 .. n - 1
      BY <2>2
    <3> QED BY <1>7, <3>1
  <2> QED BY <1>12, <2>1, <2>2
<1>14. t.data[Slot(h, cap, k)] = a /\ Slot(h, cap, k) \in 0 .. cap - 1
  BY <1>4, <1>9, <1>11, <1>13
<1>15. Slot(h, cap, k) = i
  BY <1>6, <1>14
<1> QED BY <1>5, <1>11, <1>15

\* The sweep turns the slots of the strings it removes, and no others, into
\* tombstones.
LEMMA RemoveRight ==
    ASSUME NEW cap \in Nat, NEW t \in TablesOf(cap), CountExact(t),
           OneSlotEach(t), PathsKept(t), NEW gone \in SUBSET Addr,
           NEW u, u = StringTableRemove(t, gone)
    PROVE  /\ u \in TablesOf(cap) /\ CountExact(u) /\ OneSlotEach(u)
           /\ EmptySlots(u) = EmptySlots(t)
           /\ \A i \in 0 .. cap - 1 :
                  u.data[i] = IF t.data[i] \in gone THEN Gone ELSE t.data[i]
           /\ \A h \in Nat, a \in Addr \ gone :
                  OnPath(t, h, a) => OnPath(u, h, a)
<1>1. /\ t.cap = cap /\ t.count \in Nat
      /\ t.data \in [0 .. cap - 1 -> Addr \cup {Empty, Gone}]
  BY DEF TablesOf
<1> DEFINE data == [i \in 0 .. cap - 1 |->
                IF t.data[i] \in gone THEN Gone ELSE t.data[i]]
<1>2. u = [cap |-> cap, data |-> data, count |-> t.count]
  <2>1. u = [t EXCEPT !.data = [i \in 0 .. cap - 1 |->
             IF t.data[i] \in gone /\ StringTableSlot(t, t.data[i]) = i
             THEN Gone ELSE t.data[i]]]
    BY <1>1 DEF StringTableRemove
  <2>2. ASSUME NEW i \in 0 .. cap - 1
        PROVE  t.data[i] \in gone => StringTableSlot(t, t.data[i]) = i
    BY SlotRight
  <2>3. [i \in 0 .. cap - 1 |->
             IF t.data[i] \in gone /\ StringTableSlot(t, t.data[i]) = i
             THEN Gone ELSE t.data[i]] = data
    BY <2>2
  <2>4. u = [t EXCEPT !.data = data]
    BY <2>1, <2>3
  <2> HIDE DEF data
  <2> QED BY <2>4 DEF TablesOf
<1>3. u \in TablesOf(cap) /\ u.cap = cap /\ u.data = data /\ u.count = t.count
  <2>1. data \in [0 .. cap - 1 -> Addr \cup {Empty, Gone}]
    BY <1>1
  <2> HIDE DEF data
  <2> QED BY <1>1, <1>2, <2>1 DEF TablesOf
<1>4. EmptySlots(u) = EmptySlots(t)
  BY <1>1, <1>3 DEF EmptySlots
<1>5. CountExact(u)
  BY <1>1, <1>3, <1>4 DEF CountExact
<1>6. OneSlotEach(u)
  <2> SUFFICES ASSUME NEW i \in 0 .. cap - 1, NEW j \in 0 .. cap - 1,
                      data[i] = data[j], data[i] \in Addr
               PROVE  i = j
    BY <1>3 DEF OneSlotEach
  <2>1. data[i] # Gone
    OBVIOUS
  <2>2. t.data[i] = t.data[j] /\ t.data[i] \in Addr
    BY <2>1
  <2> QED BY <1>1, <2>2 DEF OneSlotEach
<1>7. ASSUME NEW h \in Nat, NEW a \in Addr \ gone, OnPath(t, h, a)
      PROVE  OnPath(u, h, a)
  <2>1. PICK n \in 0 .. cap - 1 :
            /\ t.data[Slot(h, cap, n)] = a
            /\ \A m \in 0 .. n - 1 : t.data[Slot(h, cap, m)] # Empty
    BY <1>1, <1>7 DEF OnPath
  <2>2. \A m \in Nat : Slot(h, cap, m) \in 0 .. cap - 1
    <3>1. cap \in Nat \ {0}
      OBVIOUS
    <3> QED BY <3>1, ProbeReaches
  <2>3. u.data[Slot(h, cap, n)] = a
    <3>1. Slot(h, cap, n) \in 0 .. cap - 1
      BY <2>2
    <3> QED BY <1>3, <2>1, <3>1
  <2>4. ASSUME NEW m \in 0 .. n - 1
        PROVE  u.data[Slot(h, cap, m)] # Empty
    <3>1. Slot(h, cap, m) \in 0 .. cap - 1 /\ t.data[Slot(h, cap, m)] # Empty
      BY <2>1, <2>2
    <3> QED BY <1>3, <3>1
  <2> QED BY <1>3, <2>1, <2>3, <2>4 DEF OnPath
<1>8. \A i \in 0 .. cap - 1 :
          u.data[i] = IF t.data[i] \in gone THEN Gone ELSE t.data[i]
  BY <1>3
<1> QED BY <1>3, <1>4, <1>5, <1>6, <1>7, <1>8

(* --------------------------------- dicts --------------------------------- *)

EntryRecords == [key : Addr \cup {Empty}, val : Addr \cup {Null, True}]
DictsOf(cap) ==
    [kind : {"dict"}, cap : {cap}, count : Nat,
     entries : [0 .. cap - 1 -> EntryRecords]]

FreeExact(d) == d.count = d.cap - Cardinality(FreeSlots(d))

\* The hash of every key is known, as it is while the keys are strings.
KeysHashed(d) ==
    \A i \in 0 .. d.cap - 1 :
        d.entries[i].key # Empty => KeyHash(d.entries[i].key) \in Nat

\* What keeps a search in a dict finite: a slot is free, and the count of a
\* dict that is not empty tells how many are.
DictSound(d) ==
    /\ d.cap > 0 => FreeSlots(d) # {}
    /\ d.count # 0 => FreeExact(d)

\* The free slots of a dict can be counted.
LEMMA FreeSlotsFinite ==
    ASSUME NEW cap \in Nat, NEW d \in DictsOf(cap)
    PROVE  /\ FreeSlots(d) \in SUBSET (0 .. cap - 1)
           /\ IsFiniteSet(FreeSlots(d))
           /\ Cardinality(FreeSlots(d)) \in 0 .. cap
<1>1. FreeSlots(d) \in SUBSET (0 .. cap - 1)
  BY DEF FreeSlots, DictsOf
<1>2. IsFiniteSet(0 .. cap - 1) /\ Cardinality(0 .. cap - 1) = cap
  BY IntervalSize
<1>3. /\ IsFiniteSet(FreeSlots(d))
      /\ Cardinality(FreeSlots(d)) <= Cardinality(0 .. cap - 1)
  BY <1>1, <1>2, FS_Subset
<1>4. Cardinality(FreeSlots(d)) \in Nat
  BY <1>3, FS_CardinalityType
<1> QED BY <1>1, <1>2, <1>3, <1>4

\* A dict without entries.
LEMMA FreshDictIs ==
    ASSUME NEW cap \in Nat
    PROVE  /\ FreshDict(cap) \in DictsOf(cap) /\ FreshDict(cap).count = 0
           /\ \A i \in 0 .. cap - 1 : FreshDict(cap).entries[i] = NoEntry
           /\ FreeSlots(FreshDict(cap)) = 0 .. cap - 1
           /\ FreeExact(FreshDict(cap))
<1>1. NoEntry \in EntryRecords
  BY DEF NoEntry, EntryRecords
<1>2. FreshDict(cap) \in DictsOf(cap)
  BY <1>1 DEF FreshDict, DictsOf
<1>3. /\ FreshDict(cap).count = 0 /\ FreshDict(cap).cap = cap
      /\ \A i \in 0 .. cap - 1 : FreshDict(cap).entries[i] = NoEntry
  BY DEF FreshDict
<1>4. FreeSlots(FreshDict(cap)) = 0 .. cap - 1
  BY <1>3 DEF FreeSlots
<1>5. Cardinality(0 .. cap - 1) = cap
  BY FS_Interval
<1> QED BY <1>2, <1>3, <1>4, <1>5 DEF FreeExact

\* The entry e in the slot i of d, and n in its count.
WithEntry(d, i, e, n) == [d EXCEPT !.entries[i] = e, !.count = n]

\* u is d with e in the slot i and n in its count.
EntryIn(d, i, e, n, u) ==
    /\ u \in DictsOf(d.cap) /\ u.cap = d.cap /\ u.count = n
    /\ \A j \in 0 .. d.cap - 1 :
           u.entries[j] = IF j = i THEN e ELSE d.entries[j]

\* Wherever an entry is put, the dict stays one and gets no other entry.
LEMMA EntryTyped ==
    ASSUME NEW cap \in Nat, NEW d \in DictsOf(cap), NEW i,
           NEW e \in EntryRecords, NEW n \in Nat
    PROVE  EntryIn(d, i, e, n, WithEntry(d, i, e, n))
<1> DEFINE u == WithEntry(d, i, e, n)
<1>1. d.cap = cap /\ d.entries \in [0 .. cap - 1 -> EntryRecords]
  BY DEF DictsOf
<1>2. [d.entries EXCEPT ![i] = e] \in [0 .. cap - 1 -> EntryRecords]
  BY <1>1
<1>3. u = [kind |-> "dict", cap |-> cap, count |-> n,
           entries |-> [d.entries EXCEPT ![i] = e]]
  <2>1. u = WithEntry(d, i, e, n)
    OBVIOUS
  <2> HIDE DEF u
  <2> QED BY <2>1 DEF DictsOf, WithEntry
<1> HIDE DEF u
<1>4. u \in DictsOf(cap)
  BY <1>2, <1>3 DEF DictsOf
<1>5. /\ u.cap = cap /\ u.count = n
      /\ u.entries = [d.entries EXCEPT ![i] = e]
  BY <1>3
<1>6. EntryIn(d, i, e, n, u)
  BY <1>1, <1>4, <1>5 DEF EntryIn
<1> QED BY <1>6 DEF u

\* An entry in a slot that another key does not have: the count stays exact.
LEMMA EntryCounted ==
    ASSUME NEW cap \in Nat, NEW d \in DictsOf(cap), FreeExact(d),
           NEW i \in 0 .. cap - 1, NEW e \in EntryRecords, e.key # Empty,
           NEW n, n = IF d.entries[i] = NoEntry THEN d.count + 1 ELSE d.count,
           NEW u, u = WithEntry(d, i, e, n)
    PROVE  FreeSlots(u) = FreeSlots(d) \ {i} /\ FreeExact(u)
<1>1. d.cap = cap /\ d.count \in Nat
  BY DEF DictsOf
<1>2. n \in Nat
  BY <1>1
<1>3. /\ u.cap = cap /\ u.count = n
      /\ \A j \in 0 .. cap - 1 :
             u.entries[j] = IF j = i THEN e ELSE d.entries[j]
  BY <1>1, <1>2, EntryTyped DEF EntryIn
<1>4. e # NoEntry
  BY DEF NoEntry
<1>5. FreeSlots(u) = FreeSlots(d) \ {i}
  BY <1>1, <1>3, <1>4 DEF FreeSlots
<1>6. IsFiniteSet(FreeSlots(d)) /\ Cardinality(FreeSlots(d)) \in Nat
  BY FreeSlotsFinite
<1>7. CASE d.entries[i] = NoEntry
  <2>1. i \in FreeSlots(d)
    BY <1>1, <1>7 DEF FreeSlots
  <2>2. Cardinality(FreeSlots(u)) = Cardinality(FreeSlots(d)) - 1
    BY <1>5, <1>6, <2>1, FS_RemoveElement
  <2> QED BY <1>1, <1>3, <1>5, <1>6, <1>7, <2>2 DEF FreeExact
<1>8. CASE d.entries[i] # NoEntry
  <2>1. FreeSlots(u) = FreeSlots(d)
    BY <1>5, <1>8 DEF FreeSlots
  <2> QED BY <1>1, <1>3, <1>5, <1>8, <2>1 DEF FreeExact
<1> QED BY <1>7, <1>8

\* Probing from h comes to the slot i before it comes to a free one.
Reaches(d, h, i) ==
    \E n \in 0 .. d.cap - 1 :
        /\ Slot(h, d.cap, n) = i
        /\ \A m \in 0 .. n - 1 : d.entries[Slot(h, d.cap, m)] # NoEntry

\* No key has two slots, and a search for it comes to its slot.
KeysPlaced(d) ==
    /\ \A i, j \in 0 .. d.cap - 1 :
           /\ d.entries[i].key = d.entries[j].key
           /\ d.entries[i].key # Empty
           => i = j
    /\ \A i \in 0 .. d.cap - 1 :
           d.entries[i].key # Empty =>
               Reaches(d, KeyHash(d.entries[i].key), i)

EntriesWithout(d, k) == {x \in EntriesOf(d) : x.key # k}

\* What takes the place of something that is not free keeps all paths.
LEMMA ReachesKept ==
    ASSUME NEW cap \in Nat, NEW d, d.cap = cap, NEW u, u.cap = cap,
           \A j \in 0 .. cap - 1 :
               u.entries[j] = NoEntry => d.entries[j] = NoEntry,
           NEW h \in Nat, NEW i, Reaches(d, h, i)
    PROVE  Reaches(u, h, i)
<1>1. PICK n \in 0 .. cap - 1 :
          /\ Slot(h, cap, n) = i
          /\ \A m \in 0 .. n - 1 : d.entries[Slot(h, cap, m)] # NoEntry
  BY DEF Reaches
<1>2. cap \in Nat \ {0}
  BY <1>1
<1>3. ASSUME NEW m \in 0 .. n - 1
      PROVE  u.entries[Slot(h, cap, m)] # NoEntry
  <2>1. m \in Nat
    OBVIOUS
  <2>2. Slot(h, cap, m) \in 0 .. cap - 1
    BY <1>2, <2>1, ProbeReaches
  <2> QED BY <1>1, <2>2
<1> QED BY <1>1, <1>3 DEF Reaches

\* An entry in the slot where the search for its key ends.
LEMMA EntryPut ==
    ASSUME NEW cap \in Nat, NEW d \in DictsOf(cap), KeysHashed(d),
           KeysPlaced(d), NEW k \in Addr, KeyHash(k) \in Nat,
           NEW r \in EntryRecords, r.key = k,
           NEW i \in 0 .. cap - 1, d.entries[i].key \in {k, Empty},
           \A j \in 0 .. cap - 1 : d.entries[j].key = k => j = i,
           Reaches(d, KeyHash(k), i), NEW n, NEW u, EntryIn(d, i, r, n, u)
    PROVE  KeysPlaced(u) /\ EntriesOf(u) = EntriesWithout(d, k) \cup {r}
<1>1. /\ d.cap = cap /\ u.cap = cap
      /\ \A j \in 0 .. cap - 1 :
             u.entries[j] = IF j = i THEN r ELSE d.entries[j]
  BY DEF DictsOf, EntryIn
<1>2. k # Empty /\ r # NoEntry
  BY DEF NoEntry
<1>3. \A j \in 0 .. cap - 1 : u.entries[j] = NoEntry => d.entries[j] = NoEntry
  BY <1>1, <1>2
<1>4. ASSUME NEW j \in 0 .. cap - 1, u.entries[j].key # Empty
      PROVE  Reaches(u, KeyHash(u.entries[j].key), j)
  <2>1. CASE j = i
    <3>1. Reaches(u, KeyHash(k), i)
      BY <1>1, <1>3, ReachesKept
    <3> QED BY <1>1, <2>1, <3>1
  <2>2. CASE j # i
    <3>1. u.entries[j] = d.entries[j]
      BY <1>1, <2>2
    <3>2. /\ Reaches(d, KeyHash(d.entries[j].key), j)
          /\ KeyHash(d.entries[j].key) \in Nat
      BY <1>1, <1>4, <3>1 DEF KeysPlaced, KeysHashed
    <3>3. Reaches(u, KeyHash(d.entries[j].key), j)
      BY <1>1, <1>3, <3>2, ReachesKept
    <3> QED BY <3>1, <3>3
  <2> QED BY <2>1, <2>2
<1>5. ASSUME NEW j \in 0 .. cap - 1, NEW l \in 0 .. cap - 1,
             u.entries[j].key = u.entries[l].key, u.entries[j].key # Empty
      PROVE  j = l
  BY <1>1, <1>5 DEF KeysPlaced
<1>6. EntriesOf(u) = EntriesWithout(d, k) \cup {r}
  <2>1. ASSUME NEW j \in 0 .. cap - 1, u.entries[j].key # Empty
        PROVE  u.entries[j] \in EntriesWithout(d, k) \cup {r}
    BY <1>1, <2>1 DEF EntriesWithout, EntriesOf
  <2>2. ASSUME NEW j \in 0 .. cap - 1, d.entries[j].key \notin {k, Empty}
        PROVE  d.entries[j] \in EntriesOf(u)
    <3>1. u.entries[j] = d.entries[j]
      BY <1>1, <2>2
    <3> QED BY <1>1, <2>2, <3>1 DEF EntriesOf
  <2>3. r \in EntriesOf(u)
    BY <1>1, <1>2 DEF EntriesOf
  <2>4. EntriesOf(u) \subseteq EntriesWithout(d, k) \cup {r}
    BY <1>1, <2>1 DEF EntriesOf
  <2>5. EntriesWithout(d, k) \subseteq EntriesOf(u)
    BY <1>1, <2>2 DEF EntriesWithout, EntriesOf
  <2> QED BY <2>3, <2>4, <2>5
<1> QED BY <1>1, <1>4, <1>5, <1>6 DEF KeysPlaced

\* What has become of the entries in the first n slots of d when each of its
\* keys can be found.
MovedExactly(d, n, e) ==
    /\ KeysPlaced(e)
    /\ EntriesOf(e) =
           {d.entries[j] : j \in {l \in 0 .. n - 1 : d.entries[l].key # Empty}}

\* What has become of the first n slots of d in the larger dict e.
EntriesMoved(d, n, e) ==
    /\ e \in DictsOf(GrowCapacity(d.cap)) /\ e.count <= n
    /\ (\E j \in 0 .. n - 1 : d.entries[j].key = Empty) => e.count < n
    /\ \A i \in 0 .. e.cap - 1 :
           \/ e.entries[i] = NoEntry
           \/ \E j \in 0 .. d.cap - 1 : e.entries[i] = d.entries[j]
    /\ KeysHashed(d) => FreeExact(e)
    /\ KeysHashed(d) /\ KeysPlaced(d) => MovedExactly(d, n, e)

\* The slots before n + 1 are those before n, and n.
LEMMA OneMore ==
    ASSUME NEW d, NEW n \in Nat, d.entries[n].key # Empty
    PROVE  {d.entries[j] : j \in {l \in 0 .. n : d.entries[l].key # Empty}} =
           {d.entries[j] : j \in {l \in 0 .. n - 1 : d.entries[l].key # Empty}}
               \cup {d.entries[n]}
<1>1. {l \in 0 .. n : d.entries[l].key # Empty} =
          {l \in 0 .. n - 1 : d.entries[l].key # Empty} \cup {n}
  OBVIOUS
<1> QED BY <1>1

\* One more entry finds a place.
LEMMA EntryMoves ==
    ASSUME NEW cap \in Nat, NEW d \in DictsOf(cap), NEW n \in 0 .. cap - 1,
           d.entries[n].key # Empty, NEW e, EntriesMoved(d, n, e)
    PROVE  EntriesMoved(d, n + 1, DictPlace(e, d.entries[n]))
<1> DEFINE big == GrowCapacity(cap)
           entry == d.entries[n]
           h == KeyHash(entry.key)
           i == FirstOf(h, e.cap, FreeSlots(e))
           u == DictPlace(e, entry)
<1>1. /\ d.cap = cap /\ e \in DictsOf(big) /\ e.cap = big /\ e.count \in Nat
      /\ e.count <= n /\ entry \in EntryRecords
  BY DEF EntriesMoved, DictsOf
<1>2. big \in Nat /\ big > cap
  BY GrowCapacityGrows
<1> HIDE DEF big, entry
<1>3. u = WithEntry(e, i, entry, e.count + 1)
  BY DEF DictPlace, WithEntry
<1> HIDE DEF i, u, h
<1>4. /\ u \in DictsOf(big) /\ u.cap = big /\ u.count = e.count + 1
      /\ \A j \in 0 .. big - 1 :
             u.entries[j] = IF j = i THEN entry ELSE e.entries[j]
  <2>1. e.count + 1 \in Nat
    BY <1>1
  <2>2. EntryIn(e, i, entry, e.count + 1, u)
    BY <1>1, <1>2, <1>3, <2>1, EntryTyped
  <2> QED BY <1>1, <2>2 DEF EntryIn
<1>5. u.count <= n + 1
      /\ ((\E j \in 0 .. n : d.entries[j].key = Empty) => u.count < n + 1)
  <2>1. (\E j \in 0 .. n : d.entries[j].key = Empty) =>
            \E j \in 0 .. n - 1 : d.entries[j].key = Empty
    OBVIOUS
  <2> QED BY <1>1, <1>4, <2>1 DEF EntriesMoved
<1>6. ASSUME NEW j \in 0 .. u.cap - 1
      PROVE  \/ u.entries[j] = NoEntry
             \/ \E l \in 0 .. d.cap - 1 : u.entries[j] = d.entries[l]
  BY <1>1, <1>4 DEF EntriesMoved, entry
<1>7. ASSUME KeysHashed(d)
      PROVE  /\ FreeExact(u) /\ h \in Nat
             /\ i \in 0 .. big - 1 /\ e.entries[i] = NoEntry
             /\ Reaches(e, h, i)
  <2>1. h \in Nat /\ entry.key # Empty
    BY <1>1, <1>7 DEF KeysHashed, h, entry
  <2>2. FreeExact(e)
    BY <1>7 DEF EntriesMoved
  <2>3. FreeSlots(e) # {} /\ FreeSlots(e) \in SUBSET (0 .. big - 1)
    <3>1. Cardinality(FreeSlots(e)) \in 0 .. big
      BY <1>1, <1>2, FreeSlotsFinite
    <3>2. Cardinality(FreeSlots(e)) # 0
      BY <1>1, <1>2, <2>2, <3>1 DEF FreeExact
    <3> QED BY <1>1, <1>2, <3>2, FreeSlotsFinite, FS_EmptySet
  <2> big \in Nat \ {0}
    BY <1>2
  <2>4. PICK l \in 0 .. big - 1 :
            /\ i = Slot(h, big, l) /\ i \in FreeSlots(e)
            /\ \A m \in 0 .. l - 1 : Slot(h, big, m) \notin FreeSlots(e)
    BY <1>1, <2>1, <2>3, FirstOfFound DEF i
  <2>5. i \in 0 .. big - 1 /\ e.entries[i] = NoEntry
    BY <1>1, <2>4 DEF FreeSlots
  <2>6. ASSUME NEW m \in 0 .. l - 1
        PROVE  e.entries[Slot(h, big, m)] # NoEntry
    <3>1. m \in Nat
      OBVIOUS
    <3>2. Slot(h, big, m) \in 0 .. big - 1
      BY <2>1, <3>1, ProbeReaches
    <3> QED BY <1>1, <2>4, <3>2 DEF FreeSlots
  <2>7. Reaches(e, h, i)
    BY <1>1, <2>4, <2>6 DEF Reaches
  <2>8. FreeExact(u)
    BY <1>1, <1>2, <1>3, <2>1, <2>2, <2>5, EntryCounted
  <2> QED BY <2>1, <2>5, <2>7, <2>8
<1>8. n + 1 - 1 = n /\ n \in Nat
  OBVIOUS
<1>9. ASSUME KeysHashed(d), KeysPlaced(d)
      PROVE  MovedExactly(d, n + 1, u)
  <2>1. KeysPlaced(e) /\ EntriesOf(e) =
            {d.entries[j] : j \in {l \in 0 .. n - 1 : d.entries[l].key # Empty}}
    BY <1>9 DEF EntriesMoved, MovedExactly
  <2>2. \A x \in EntriesOf(e) : x.key # entry.key /\ KeyHash(x.key) \in Nat
    <3> SUFFICES ASSUME NEW l \in 0 .. n - 1, d.entries[l].key # Empty
                 PROVE  /\ d.entries[l].key # entry.key
                        /\ KeyHash(d.entries[l].key) \in Nat
      BY <2>1
    <3>1. l \in 0 .. cap - 1 /\ l # n
      OBVIOUS
    <3> QED BY <1>1, <1>9, <3>1 DEF KeysPlaced, KeysHashed, entry
  <2>3. \A j \in 0 .. big - 1 :
            e.entries[j].key # Empty => e.entries[j] \in EntriesOf(e)
    BY <1>1 DEF EntriesOf
  <2>4. KeysHashed(e)
    BY <1>1, <2>2, <2>3 DEF KeysHashed
  <2>5. entry.key \in Addr /\ KeyHash(entry.key) \in Nat
    BY <1>1, <1>7, <1>9 DEF EntryRecords, h, entry
  <2>6. e.entries[i].key = Empty
    BY <1>7, <1>9 DEF NoEntry
  <2>7. \A j \in 0 .. big - 1 : e.entries[j].key # entry.key
    BY <2>2, <2>3, <2>5
  <2>8. EntryIn(e, i, entry, e.count + 1, u)
    BY <1>1, <1>4 DEF EntryIn
  <2>9. KeysPlaced(u) /\ EntriesOf(u) = EntriesWithout(e, entry.key) \cup {entry}
    <3>1. Reaches(e, KeyHash(entry.key), i) /\ i \in 0 .. big - 1
      BY <1>7, <1>9 DEF h
    <3> QED BY <1>1, <1>2, <2>1, <2>4, <2>5, <2>6, <2>7, <2>8, <3>1, EntryPut
  <2>10. EntriesWithout(e, entry.key) = EntriesOf(e)
    BY <2>2 DEF EntriesWithout
  <2>11. EntriesOf(u) = {d.entries[j] : j \in {l \in 0 .. n : d.entries[l].key # Empty}}
    BY <1>8, <2>1, <2>9, <2>10, OneMore DEF entry
  <2> QED BY <1>8, <2>9, <2>11 DEF MovedExactly
<1>10. EntriesMoved(d, n + 1, u)
  BY <1>1, <1>4, <1>5, <1>6, <1>7, <1>8, <1>9 DEF EntriesMoved, big
<1> QED BY <1>10 DEF u, entry

\* A slot without a key is passed over.
LEMMA EntryPassed ==
    ASSUME NEW cap \in Nat, NEW d \in DictsOf(cap), NEW n \in 0 .. cap - 1,
           d.entries[n].key = Empty, NEW e, EntriesMoved(d, n, e)
    PROVE  EntriesMoved(d, n + 1, e)
<1>1. n + 1 - 1 = n /\ e.count \in Nat
  BY DEF EntriesMoved, DictsOf
<1>2. e.count <= n
  BY DEF EntriesMoved
<1>3. e.count < n + 1
  BY <1>1, <1>2
<1>4. {l \in 0 .. n : d.entries[l].key # Empty} =
          {l \in 0 .. n - 1 : d.entries[l].key # Empty}
  OBVIOUS
<1>5. MovedExactly(d, n, e) => MovedExactly(d, n + 1, e)
  BY <1>1, <1>4 DEF MovedExactly
<1> QED BY <1>1, <1>3, <1>5 DEF EntriesMoved

\* Wherever dict_grow puts an entry, what it makes is a dict.
LEMMA DictPlaceTyped ==
    ASSUME NEW cap \in Nat, NEW e \in DictsOf(cap), NEW entry \in EntryRecords
    PROVE  DictPlace(e, entry) \in DictsOf(cap)
<1>1. PICK i : DictPlace(e, entry) = WithEntry(e, i, entry, e.count + 1)
  BY DEF DictPlace, WithEntry
<1>2. e.count + 1 \in Nat /\ e.cap = cap
  BY DEF DictsOf
<1>3. EntryIn(e, i, entry, e.count + 1, WithEntry(e, i, entry, e.count + 1))
  BY <1>2, EntryTyped
<1> QED BY <1>1, <1>2, <1>3 DEF EntryIn

\* dict_grow moves the entries that have a key and nothing else, and while
\* every key is a string it counts them.
LEMMA DictGrowRight ==
    ASSUME NEW cap \in Nat, NEW d \in DictsOf(cap)
    PROVE  EntriesMoved(d, cap, DictGrow(d))
<1> DEFINE big == GrowCapacity(d.cap)
           Skips(n) == d.entries[n - 1].key = Empty
           moved[n \in 0 .. d.cap] ==
               IF n = 0 THEN FreshDict(big)
               ELSE IF Skips(n) THEN moved[n - 1]
               ELSE DictPlace(moved[n - 1], d.entries[n - 1])
           F == [n \in 1 .. cap |-> [e \in DictsOf(big) |->
                    IF Skips(n) THEN e ELSE DictPlace(e, d.entries[n - 1])]]
<1>1. /\ d.cap = cap /\ big \in Nat
      /\ d.entries \in [0 .. cap - 1 -> EntryRecords]
  BY GrowCapacityGrows DEF DictsOf
<1>2. F \in [1 .. cap -> [DictsOf(big) -> DictsOf(big)]]
  <2> SUFFICES ASSUME NEW n \in 1 .. cap, NEW e \in DictsOf(big), ~ Skips(n)
               PROVE  DictPlace(e, d.entries[n - 1]) \in DictsOf(big)
    OBVIOUS
  <2>1. d.entries[n - 1] \in EntryRecords
    BY <1>1
  <2> HIDE DEF big
  <2> QED BY <1>1, <2>1, DictPlaceTyped
<1>3. PICK f : Iterates(f, cap, DictsOf(big), FreshDict(big), F)
  <2>1. FreshDict(big) \in DictsOf(big)
    BY <1>1, FreshDictIs
  <2> HIDE DEF F, big
  <2> QED BY <1>2, <2>1, Recursion
<1>4. f = [n \in 0 .. d.cap |->
              IF n = 0 THEN FreshDict(big)
              ELSE IF Skips(n) THEN f[n - 1]
              ELSE DictPlace(f[n - 1], d.entries[n - 1])]
  <2>1. ASSUME NEW n \in 1 .. cap
        PROVE  f[n] = IF Skips(n) THEN f[n - 1]
                      ELSE DictPlace(f[n - 1], d.entries[n - 1])
    <3>1. f[n - 1] \in DictsOf(big) /\ f[n] = F[n][f[n - 1]]
      BY <1>3 DEF Iterates
    <3> QED BY <3>1
  <2> HIDE DEF big, Skips, F
  <2> QED BY <1>1, <1>3, <2>1 DEF Iterates
<1>5. moved = [n \in 0 .. d.cap |->
                  IF n = 0 THEN FreshDict(big)
                  ELSE IF Skips(n) THEN moved[n - 1]
                  ELSE DictPlace(moved[n - 1], d.entries[n - 1])]
  <2> HIDE DEF big, Skips, F
  <2> QED BY <1>4, Zenon
<1>6. DictGrow(d) = moved[cap]
  BY <1>1 DEF DictGrow
<1> HIDE DEF moved, big, F
<1> DEFINE T == {n \in 0 .. cap : EntriesMoved(d, n, moved[n])}
<1>7. 0 \in T
  <2>1. /\ FreshDict(big) \in DictsOf(big) /\ FreshDict(big).count = 0
        /\ \A i \in 0 .. big - 1 : FreshDict(big).entries[i] = NoEntry
        /\ FreeExact(FreshDict(big)) /\ FreshDict(big).cap = big
    BY <1>1, FreshDictIs DEF FreshDict
  <2>2. moved[0] = FreshDict(big)
    BY <1>1, <1>5
  <2>3. MovedExactly(d, 0, FreshDict(big))
    BY <2>1 DEF MovedExactly, KeysPlaced, EntriesOf, NoEntry
  <2> QED BY <1>1, <2>1, <2>2, <2>3 DEF EntriesMoved, big
<1>8. ASSUME NEW n \in 0 .. cap - 1, n \in T
      PROVE  n + 1 \in T
  <2>1. n + 1 \in 0 .. cap /\ n + 1 # 0 /\ n + 1 - 1 = n
    OBVIOUS
  <2>2. moved[n + 1] = IF d.entries[n].key = Empty THEN moved[n]
                       ELSE DictPlace(moved[n], d.entries[n])
    BY <1>1, <1>5, <2>1
  <2>3. EntriesMoved(d, n, moved[n])
    BY <1>8
  <2>4. EntriesMoved(d, n + 1, moved[n + 1])
    <3>1. CASE d.entries[n].key = Empty
      BY <2>2, <2>3, <3>1, EntryPassed
    <3>2. CASE d.entries[n].key # Empty
      BY <2>2, <2>3, <3>2, EntryMoves
    <3> QED BY <3>1, <3>2
  <2> QED BY <2>1, <2>4
<1>9. \A n \in 0 .. cap : n \in T
  <2> HIDE DEF T
  <2> QED BY <1>7, <1>8, UpTo
<1> QED BY <1>6, <1>9

\* Where a probing of a dict ends there is the key, or no key.
LEMMA FindEntryRight ==
    ASSUME NEW cap \in Nat, NEW d \in DictsOf(cap), NEW k,
           KeyHash(k) \in Nat, ProbingEnds(d, k)
    PROVE  /\ FindEntry(d, k) \in 0 .. cap - 1
           /\ d.entries[FindEntry(d, k)].key \in {k, Empty}
<1> DEFINE h == KeyHash(k)
           slots == FreeSlots(d) \cup KeySlots(d, k)
           n == Least(Steps(h, d.cap, slots))
           tombs == {i \in Steps(h, d.cap, KeySlots(d, Empty)) : i < n}
<1>1. d.cap = cap /\ slots \in SUBSET (0 .. cap - 1) /\ slots # {}
  BY DEF DictsOf, FreeSlots, KeySlots, ProbingEnds
<1>2. cap \in Nat \ {0} /\ h \in Nat
  BY <1>1
<1>3. FindEntry(d, k) =
          IF Slot(h, d.cap, n) \in KeySlots(d, k) \/ tombs = {}
          THEN Slot(h, d.cap, n) ELSE Slot(h, d.cap, Least(tombs))
  BY DEF FindEntry
<1>4. Slot(h, cap, n) \in slots
  <2> HIDE DEF h, slots
  <2> QED BY <1>1, <1>2, FirstOfFound
<1>5. CASE Slot(h, d.cap, n) \in KeySlots(d, k) \/ tombs = {}
  <2>1. FindEntry(d, k) = Slot(h, cap, n)
    BY <1>1, <1>3, <1>5
  <2>2. Slot(h, cap, n) \in 0 .. cap - 1
        /\ d.entries[Slot(h, cap, n)].key \in {k, Empty}
    BY <1>1, <1>4 DEF FreeSlots, KeySlots, NoEntry
  <2> QED BY <2>1, <2>2
<1>6. CASE tombs # {} /\ ~ (Slot(h, d.cap, n) \in KeySlots(d, k))
  <2>1. FindEntry(d, k) = Slot(h, cap, Least(tombs))
    BY <1>1, <1>3, <1>6
  <2>2. tombs \in SUBSET Nat
    BY <1>1 DEF Steps
  <2>3. Least(tombs) \in tombs
    <3> HIDE DEF tombs
    <3> QED BY <1>6, <2>2, LeastExists
  <2>4. Slot(h, cap, Least(tombs)) \in KeySlots(d, Empty)
    BY <1>1, <2>3 DEF Steps
  <2> QED BY <1>1, <2>1, <2>4 DEF KeySlots
<1> QED BY <1>5, <1>6

\* A key that has a slot is found there.
LEMMA FindsKey ==
    ASSUME NEW cap \in Nat, NEW d \in DictsOf(cap), KeysPlaced(d),
           NEW k \in Addr, KeyHash(k) \in Nat,
           NEW j \in 0 .. cap - 1, d.entries[j].key = k
    PROVE  FindEntry(d, k) = j
<1> DEFINE h == KeyHash(k)
           slots == FreeSlots(d) \cup KeySlots(d, k)
           n == Least(Steps(h, cap, slots))
<1>1. d.cap = cap /\ k # Empty /\ cap \in Nat \ {0}
  BY DEF DictsOf
<1>2. slots \in SUBSET (0 .. cap - 1) /\ j \in slots
  BY <1>1 DEF FreeSlots, KeySlots
<1>3. PICK l \in 0 .. cap - 1 :
          /\ Slot(h, cap, l) = j
          /\ \A m \in 0 .. l - 1 : d.entries[Slot(h, cap, m)] # NoEntry
  <2>1. Reaches(d, h, j)
    BY <1>1 DEF KeysPlaced
  <2> HIDE DEF h
  <2> QED BY <1>1, <2>1 DEF Reaches
<1>4. /\ n \in 0 .. cap - 1 /\ Slot(h, cap, n) \in slots
      /\ \A m \in 0 .. n - 1 : Slot(h, cap, m) \notin slots
  <2> HIDE DEF h, slots
  <2> QED BY <1>1, <1>2, FirstOfFound DEF h
<1> HIDE DEF n
<1>5. n <= l
  BY <1>2, <1>3, <1>4
<1>6. Slot(h, cap, n) \in KeySlots(d, k)
  <2>1. CASE n = l
    BY <1>1, <1>3, <2>1 DEF KeySlots
  <2>2. CASE n # l
    <3>1. n \in 0 .. l - 1
      BY <1>4, <1>5, <2>2
    <3>2. d.entries[Slot(h, cap, n)] # NoEntry
      BY <1>3, <3>1
    <3> QED BY <1>4, <3>2 DEF FreeSlots
  <2> QED BY <2>1, <2>2
<1>7. Slot(h, cap, n) = j
  BY <1>1, <1>6 DEF KeySlots, KeysPlaced
<1>8. FindEntry(d, k) = Slot(h, cap, n)
  BY <1>1, <1>6 DEF FindEntry, n
<1> QED BY <1>7, <1>8

\* The search for a key comes to where it ends, over slots that are not free.
LEMMA FindReaches ==
    ASSUME NEW cap \in Nat, NEW d \in DictsOf(cap), NEW k,
           KeyHash(k) \in Nat, ProbingEnds(d, k)
    PROVE  Reaches(d, KeyHash(k), FindEntry(d, k))
<1> DEFINE h == KeyHash(k)
           slots == FreeSlots(d) \cup KeySlots(d, k)
           n == Least(Steps(h, cap, slots))
           tombs == {i \in Steps(h, cap, KeySlots(d, Empty)) : i < n}
<1>1. d.cap = cap /\ slots \in SUBSET (0 .. cap - 1) /\ slots # {}
  BY DEF DictsOf, FreeSlots, KeySlots, ProbingEnds
<1>2. cap \in Nat \ {0} /\ h \in Nat
  BY <1>1
<1>3. FindEntry(d, k) =
          IF Slot(h, cap, n) \in KeySlots(d, k) \/ tombs = {}
          THEN Slot(h, cap, n) ELSE Slot(h, cap, Least(tombs))
  BY <1>1 DEF FindEntry
<1>4. /\ n \in 0 .. cap - 1
      /\ \A m \in 0 .. n - 1 : Slot(h, cap, m) \notin slots
  <2> HIDE DEF h, slots
  <2> QED BY <1>1, <1>2, FirstOfFound
<1> HIDE DEF n
<1>5. ASSUME NEW l \in 0 .. n, FindEntry(d, k) = Slot(h, cap, l)
      PROVE  Reaches(d, h, FindEntry(d, k))
  <2>1. l \in 0 .. cap - 1
    BY <1>4
  <2>2. ASSUME NEW m \in 0 .. l - 1
        PROVE  d.entries[Slot(h, cap, m)] # NoEntry
    <3>1. m \in Nat /\ m \in 0 .. n - 1
      BY <1>4
    <3>2. Slot(h, cap, m) \in 0 .. cap - 1
      BY <1>2, <3>1, ProbeReaches
    <3> QED BY <1>1, <1>4, <3>1, <3>2 DEF FreeSlots
  <2> QED BY <1>1, <1>5, <2>1, <2>2 DEF Reaches
<1>6. CASE Slot(h, cap, n) \in KeySlots(d, k) \/ tombs = {}
  <2>1. n \in 0 .. n
    BY <1>4
  <2>2. FindEntry(d, k) = Slot(h, cap, n)
    BY <1>3, <1>6
  <2> QED BY <1>5, <2>1, <2>2
<1>7. CASE ~ (Slot(h, cap, n) \in KeySlots(d, k) \/ tombs = {})
  <2>1. tombs \in SUBSET Nat
    BY <1>1 DEF Steps
  <2>2. Least(tombs) \in tombs
    <3> HIDE DEF tombs
    <3> QED BY <1>7, <2>1, LeastExists
  <2>3. Least(tombs) \in 0 .. n
    BY <1>4, <2>1, <2>2
  <2>4. FindEntry(d, k) = Slot(h, cap, Least(tombs))
    BY <1>3, <1>7
  <2> QED BY <1>5, <2>3, <2>4
<1> QED BY <1>6, <1>7

\* e is d, grown if it had to be: it has room, and no entry of its own.
GrownDict(d, e) ==
    /\ e.cap \in Nat /\ e \in DictsOf(e.cap) /\ e.count + 1 <= e.cap
    /\ EntriesOf(e) \subseteq EntriesOf(d)
    /\ KeysHashed(d) /\ DictSound(d) /\ (d.cap = 0 \/ d.count > 0) =>
           FreeExact(e) /\ e.count + 1 < e.cap
    /\ KeysHashed(d) /\ KeysPlaced(d) =>
           KeysPlaced(e) /\ EntriesOf(e) = EntriesOf(d)

\* A dict that is to be stored into has been made large enough.
LEMMA DictGrown ==
    ASSUME NEW cap \in Nat, NEW d \in DictsOf(cap), d.count <= cap,
           NEW e, e = IF IsFull(d) THEN DictGrow(d) ELSE d
    PROVE  GrownDict(d, e)
<1>1. d.cap = cap /\ d.count \in Nat
  BY DEF DictsOf
<1>2. CASE IsFull(d)
  <2> DEFINE big == GrowCapacity(cap)
  <2>1. EntriesMoved(d, cap, e)
    BY <1>2, DictGrowRight
  <2>2. e \in DictsOf(big) /\ e.cap = big /\ e.count \in Nat /\ e.count <= cap
    BY <1>1, <2>1 DEF EntriesMoved, DictsOf
  <2>3. big \in Nat /\ big > cap /\ big > 1
    BY GrowCapacityGrows
  <2> HIDE DEF big
  <2>4. EntriesOf(e) \subseteq EntriesOf(d)
    <3> SUFFICES ASSUME NEW i \in 0 .. big - 1, e.entries[i].key # Empty
                 PROVE  e.entries[i] \in EntriesOf(d)
      BY <2>2 DEF EntriesOf
    <3>1. e.entries[i] # NoEntry
      BY DEF NoEntry
    <3>2. PICK j \in 0 .. d.cap - 1 : e.entries[i] = d.entries[j]
      BY <2>1, <2>2, <3>1 DEF EntriesMoved
    <3> QED BY <3>2 DEF EntriesOf
  <2>5. ASSUME KeysHashed(d), DictSound(d)
        PROVE  FreeExact(e) /\ e.count + 1 < big
    <3>1. FreeExact(e)
      BY <2>1, <2>5 DEF EntriesMoved
    <3>2. CASE cap = 0
      BY <2>2, <2>3, <3>1, <3>2
    <3>3. CASE cap > 0
      <4>1. PICK j \in 0 .. cap - 1 : d.entries[j] = NoEntry
        BY <1>1, <2>5, <3>3 DEF DictSound, FreeSlots
      <4>2. e.count < cap
        BY <2>1, <4>1 DEF EntriesMoved, NoEntry
      <4> QED BY <2>2, <2>3, <3>1, <4>2
    <3> QED BY <3>2, <3>3
  <2>6. e.count + 1 <= e.cap
    BY <2>2, <2>3
  <2>7. ASSUME KeysHashed(d), KeysPlaced(d)
        PROVE  KeysPlaced(e) /\ EntriesOf(e) = EntriesOf(d)
    <3>1. MovedExactly(d, cap, e)
      BY <2>1, <2>7 DEF EntriesMoved
    <3>2. EntriesOf(d) =
              {d.entries[j] : j \in {l \in 0 .. cap - 1 : d.entries[l].key # Empty}}
      BY <1>1 DEF EntriesOf
    <3> QED BY <3>1, <3>2 DEF MovedExactly
  <2> QED BY <2>2, <2>3, <2>4, <2>5, <2>6, <2>7 DEF GrownDict
<1>3. CASE ~ IsFull(d)
  <2>1. e = d /\ d.count + 1 < cap
    BY <1>1, <1>3, RoomLeft DEF IsFull
  <2> QED BY <1>1, <2>1 DEF GrownDict, DictSound
<1> QED BY <1>2, <1>3

\* u is d after v has been stored under k.
Stored(d, k, v, u) ==
    /\ u.cap \in Nat /\ u \in DictsOf(u.cap) /\ u.count <= u.cap
    /\ EntriesOf(u) \subseteq EntriesOf(d) \cup {[key |-> k, val |-> v]}
    /\ /\ KeysHashed(d) /\ DictSound(d) /\ (d.cap = 0 \/ d.count > 0)
       /\ KeyHash(k) \in Nat
       => /\ DictSound(u)
          /\ KeysPlaced(d) =>
                 /\ KeysPlaced(u) /\ u.count # 0
                 /\ EntriesOf(u) = EntriesWithout(d, k) \cup {[key |-> k, val |-> v]}

\* dict_set stores one entry, keeps or moves the others, and leaves a slot
\* free, the count right and every key in its place when it found them so.
LEMMA DictSetRight ==
    ASSUME NEW cap \in Nat, NEW d \in DictsOf(cap), d.count <= cap,
           NEW k \in Addr, NEW v \in Addr \cup {Null, True}
    PROVE  Stored(d, k, v, DictSet(d, k, v))
<1> DEFINE e == IF IsFull(d) THEN DictGrow(d) ELSE d
           i == FindEntry(e, k)
           r == [key |-> k, val |-> v]
           n == IF e.entries[i] = NoEntry THEN e.count + 1 ELSE e.count
           u == WithEntry(e, i, r, n)
<1>1. DictSet(d, k, v) = u
  BY DEF DictSet, WithEntry
<1>2. GrownDict(d, e)
  <2> HIDE DEF e
  <2>1. e = IF IsFull(d) THEN DictGrow(d) ELSE d
    BY DEF e
  <2> QED BY <2>1, DictGrown
<1> HIDE DEF e
<1>3. /\ e.cap \in Nat /\ e \in DictsOf(e.cap) /\ e.count + 1 <= e.cap
      /\ e.count \in Nat
  BY <1>2 DEF GrownDict, DictsOf
<1>4. r \in EntryRecords /\ r.key # Empty
  BY DEF EntryRecords
<1>5. n \in Nat /\ n <= e.count + 1
  BY <1>3
<1> HIDE DEF i, n, r
<1>6. EntryIn(e, i, r, n, u)
  BY <1>3, <1>4, <1>5, EntryTyped
<1> HIDE DEF u
<1>7. /\ u \in DictsOf(e.cap) /\ u.cap = e.cap /\ u.count = n
      /\ \A j \in 0 .. e.cap - 1 :
             u.entries[j] = IF j = i THEN r ELSE e.entries[j]
  BY <1>6 DEF EntryIn
<1>8. EntriesOf(u) \subseteq EntriesOf(d) \cup {r}
  <2>1. EntriesOf(u) \subseteq EntriesOf(e) \cup {r}
    BY <1>7 DEF EntriesOf
  <2> QED BY <1>2, <2>1 DEF GrownDict
<1>9. ASSUME KeysHashed(d), DictSound(d), d.cap = 0 \/ d.count > 0,
             KeyHash(k) \in Nat
      PROVE  /\ DictSound(u) /\ FreeExact(u) /\ i \in 0 .. e.cap - 1
             /\ e.entries[i].key \in {k, Empty} /\ Reaches(e, KeyHash(k), i)
  <2>1. FreeExact(e) /\ e.count + 1 < e.cap
    BY <1>2, <1>9 DEF GrownDict
  <2>2. Cardinality(FreeSlots(e)) \in 0 .. e.cap
    BY <1>3, FreeSlotsFinite
  <2>3. Cardinality(FreeSlots(e)) # 0
    BY <1>3, <2>1, <2>2 DEF FreeExact
  <2>4. ProbingEnds(e, k)
    BY <2>3, FS_EmptySet DEF ProbingEnds
  <2>5. /\ i \in 0 .. e.cap - 1 /\ e.entries[i].key \in {k, Empty}
        /\ Reaches(e, KeyHash(k), i)
    BY <1>3, <1>9, <2>4, FindEntryRight, FindReaches DEF i
  <2>6. n = IF e.entries[i] = NoEntry THEN e.count + 1 ELSE e.count
    BY DEF n
  <2>7. FreeExact(u)
    <3>1. u = WithEntry(e, i, r, n)
      BY DEF u
    <3> QED BY <1>3, <1>4, <2>1, <2>5, <2>6, <3>1, EntryCounted
  <2>8. Cardinality(FreeSlots(u)) \in 0 .. e.cap
    BY <1>3, <1>7, FreeSlotsFinite
  <2>9. Cardinality(FreeSlots(u)) # 0
    BY <1>3, <1>5, <1>7, <2>1, <2>7, <2>8 DEF FreeExact
  <2>10. FreeSlots(u) # {}
    BY <2>9, FS_EmptySet
  <2> QED BY <2>5, <2>7, <2>10 DEF DictSound
<1>10. ASSUME KeysHashed(d), DictSound(d), d.cap = 0 \/ d.count > 0,
              KeyHash(k) \in Nat, KeysPlaced(d)
       PROVE  /\ KeysPlaced(u) /\ u.count # 0
              /\ EntriesOf(u) = EntriesWithout(d, k) \cup {r}
  <2>1. KeysPlaced(e) /\ EntriesOf(e) = EntriesOf(d)
    BY <1>2, <1>10 DEF GrownDict
  <2>2. /\ i \in 0 .. e.cap - 1 /\ e.entries[i].key \in {k, Empty}
        /\ Reaches(e, KeyHash(k), i) /\ FreeExact(u)
    BY <1>9, <1>10
  <2>3. \A j \in 0 .. e.cap - 1 : e.entries[j].key = k => j = i
    BY <1>3, <1>10, <2>1, FindsKey DEF i
  <2>4. KeysHashed(e)
    <3> SUFFICES ASSUME NEW j \in 0 .. e.cap - 1, e.entries[j].key # Empty
                 PROVE  KeyHash(e.entries[j].key) \in Nat
      BY DEF KeysHashed
    <3>1. e.entries[j] \in EntriesOf(d)
      BY <2>1 DEF EntriesOf
    <3> QED BY <1>10, <3>1 DEF EntriesOf, KeysHashed
  <2>5. r.key = k
    BY DEF r
  <2>6. KeysPlaced(u) /\ EntriesOf(u) = EntriesWithout(e, k) \cup {r}
    BY <1>3, <1>4, <1>6, <1>10, <2>1, <2>2, <2>3, <2>4, <2>5, EntryPut
  <2>7. u.count # 0
    <3>1. u.entries[i] # NoEntry
      BY <1>4, <1>7, <2>2 DEF NoEntry
    <3>2. FreeSlots(u) \in SUBSET (0 .. e.cap - 1) /\ i \notin FreeSlots(u)
      BY <1>7, <3>1 DEF FreeSlots
    <3>3. FreeSlots(u) # 0 .. e.cap - 1
      BY <2>2, <3>2
    <3>4. /\ IsFiniteSet(0 .. e.cap - 1)
          /\ Cardinality(0 .. e.cap - 1) = e.cap
      BY <1>3, IntervalSize
    <3>5. Cardinality(FreeSlots(u)) # e.cap
      BY <3>2, <3>3, <3>4, FS_Subset
    <3>6. Cardinality(FreeSlots(u)) \in Nat
      BY <3>2, <3>4, FS_Subset, FS_CardinalityType
    <3> QED BY <1>3, <1>7, <2>2, <3>5, <3>6 DEF FreeExact
  <2>8. EntriesWithout(e, k) = EntriesWithout(d, k)
    BY <2>1 DEF EntriesWithout
  <2> QED BY <2>6, <2>7, <2>8
<1>11. u.count <= u.cap
  BY <1>3, <1>5, <1>7
<1>12. Stored(d, k, v, u)
  BY <1>3, <1>7, <1>8, <1>9, <1>10, <1>11 DEF Stored, r
<1> QED BY <1>1, <1>12

\* A search of a dict gives the value of one of its entries, or nothing.
LEMMA DictGetRight ==
    ASSUME NEW cap \in Nat, NEW d \in DictsOf(cap), NEW k,
           KeyHash(k) \in Nat, d.count = 0 \/ ProbingEnds(d, k)
    PROVE  \/ DictGet(d, k) = Empty
           \/ \E e \in EntriesOf(d) : DictGet(d, k) = e.val
<1> DEFINE i == FindEntry(d, k)
<1>1. CASE d.count = 0 \/ d.entries[i].key = Empty
  BY <1>1 DEF DictGet
<1>2. CASE d.count # 0 /\ d.entries[i].key # Empty
  <2>1. i \in 0 .. cap - 1
    BY <1>2, FindEntryRight
  <2>2. DictGet(d, k) = d.entries[i].val
    BY <1>2 DEF DictGet
  <2>3. d.cap = cap
    BY DEF DictsOf
  <2> HIDE DEF i
  <2>4. d.entries[i] \in EntriesOf(d)
    BY <1>2, <2>1, <2>3 DEF EntriesOf
  <2> QED BY <2>2, <2>4
<1> QED BY <1>1, <1>2

\* While every key is in its place, the search gives the value of the key, and
\* nothing only if the dict has no such key.
LEMMA DictGetExact ==
    ASSUME NEW cap \in Nat, NEW d \in DictsOf(cap), KeysPlaced(d),
           d.count = 0 => EntriesOf(d) = {},
           NEW k \in Addr, KeyHash(k) \in Nat,
           d.count = 0 \/ ProbingEnds(d, k)
    PROVE  \/ DictGet(d, k) = Empty /\ EntriesWithout(d, k) = EntriesOf(d)
           \/ \E e \in EntriesOf(d) : e.key = k /\ DictGet(d, k) = e.val
<1>1. d.cap = cap /\ k # Empty
  BY DEF DictsOf
<1>2. CASE d.count = 0
  BY <1>2 DEF DictGet, EntriesWithout
<1>3. CASE d.count # 0
  <2> DEFINE i == FindEntry(d, k)
  <2>1. i \in 0 .. cap - 1 /\ d.entries[i].key \in {k, Empty}
    BY <1>3, FindEntryRight
  <2>2. \A j \in 0 .. cap - 1 : d.entries[j].key = k => i = j
    BY FindsKey
  <2>3. DictGet(d, k) = IF d.entries[i].key = Empty THEN Empty
                        ELSE d.entries[i].val
    BY <1>3 DEF DictGet
  <2> HIDE DEF i
  <2>4. CASE d.entries[i].key = k
    <3>1. d.entries[i] \in EntriesOf(d)
      BY <1>1, <2>1, <2>4 DEF EntriesOf
    <3> QED BY <1>1, <2>3, <2>4, <3>1
  <2>5. CASE d.entries[i].key # k
    <3>1. \A j \in 0 .. cap - 1 : d.entries[j].key # k
      BY <2>2, <2>5
    <3>2. EntriesWithout(d, k) = EntriesOf(d)
      BY <1>1, <3>1 DEF EntriesWithout, EntriesOf
    <3> QED BY <2>1, <2>3, <2>5, <3>2
  <2> QED BY <2>4, <2>5
<1> QED BY <1>2, <1>3

\* No two entries have one key.
LEMMA OneEntryPerKey ==
    ASSUME NEW d, KeysPlaced(d), NEW e \in EntriesOf(d),
           NEW f \in EntriesOf(d), e.key = f.key
    PROVE  e = f
<1>1. PICK i \in 0 .. d.cap - 1 : e = d.entries[i]
  BY DEF EntriesOf
<1>2. PICK j \in 0 .. d.cap - 1 : f = d.entries[j]
  BY DEF EntriesOf
<1>3. e.key # Empty
  BY DEF EntriesOf
<1>4. i = j
  BY <1>1, <1>2, <1>3 DEF KeysPlaced
<1> QED BY <1>1, <1>2, <1>4

\* dict_delete leaves a tombstone, which is not free, for the entry of the key.
LEMMA DictDeleteRight ==
    ASSUME NEW cap \in Nat, NEW d \in DictsOf(cap), NEW k,
           KeyHash(k) \in Nat, d.count = 0 \/ ProbingEnds(d, k),
           NEW u, u = DictDelete(d, k)
    PROVE  /\ u \in DictsOf(cap) /\ u.cap = cap /\ u.count = d.count
           /\ EntriesOf(u) \subseteq EntriesOf(d)
           /\ FreeSlots(u) = FreeSlots(d)
           /\ /\ k \in Addr /\ KeysHashed(d) /\ KeysPlaced(d)
              /\ d.count = 0 => EntriesOf(d) = {}
              => KeysPlaced(u) /\ EntriesOf(u) = EntriesWithout(d, k)
<1>1. d.cap = cap /\ d.count \in Nat
  BY DEF DictsOf
<1>2. CASE DictGet(d, k) = Empty
  <2>1. u = d
    BY <1>2 DEF DictDelete
  <2>2. ASSUME k \in Addr, KeysPlaced(d), d.count = 0 => EntriesOf(d) = {}
        PROVE  EntriesOf(d) = EntriesWithout(d, k)
    <3>1. \A e \in EntriesOf(d) : e.val # Empty
      BY <1>1, ValuesApart DEF EntriesOf, DictsOf, EntryRecords
    <3> QED BY <1>2, <2>2, <3>1, DictGetExact
  <2> QED BY <1>1, <2>1, <2>2
<1>3. CASE DictGet(d, k) # Empty
  <2> DEFINE i == FindEntry(d, k)
             tomb == [key |-> Empty, val |-> True]
  <2>1. d.count # 0 /\ d.entries[i].key # Empty
    BY <1>3 DEF DictGet
  <2>2. i \in 0 .. cap - 1
    BY <2>1, FindEntryRight
  <2>3. u = [d EXCEPT !.entries[i] = tomb]
    BY <1>3 DEF DictDelete
  <2> HIDE DEF i
  <2>4. u = WithEntry(d, i, tomb, d.count)
    BY <1>1, <2>3 DEF WithEntry, DictsOf
  <2>5. tomb \in EntryRecords /\ tomb.key = Empty /\ tomb # NoEntry
    BY DEF EntryRecords, NoEntry
  <2> HIDE DEF tomb
  <2>6. EntryIn(d, i, tomb, d.count, u)
    BY <1>1, <2>4, <2>5, EntryTyped
  <2>7. EntriesOf(u) \subseteq EntriesOf(d)
    BY <1>1, <2>5, <2>6 DEF EntryIn, EntriesOf
  <2>8. FreeSlots(u) = FreeSlots(d)
    <3>1. d.entries[i] # NoEntry
      BY <2>1 DEF NoEntry
    <3> QED BY <1>1, <2>2, <2>5, <2>6, <3>1 DEF EntryIn, FreeSlots
  <2>9. ASSUME k \in Addr, KeysHashed(d), KeysPlaced(d)
        PROVE  KeysPlaced(u) /\ EntriesOf(u) = EntriesWithout(d, k)
    <3>1. \A j \in 0 .. cap - 1 :
              u.entries[j] = IF j = i THEN tomb ELSE d.entries[j]
      BY <1>1, <2>6 DEF EntryIn
    <3>2. d.entries[i].key = k
      <4>1. d.entries[FindEntry(d, k)].key \in {k, Empty}
        BY <2>1, FindEntryRight
      <4> QED BY <2>1, <4>1 DEF i
    <3>3. \A j \in 0 .. cap - 1 : d.entries[j].key = k => j = i
      BY <2>9, FindsKey DEF i
    <3>4. \A j \in 0 .. cap - 1 : u.entries[j] = NoEntry => d.entries[j] = NoEntry
      BY <2>5, <3>1
    <3>5. ASSUME NEW j \in 0 .. cap - 1, u.entries[j].key # Empty
          PROVE  Reaches(u, KeyHash(u.entries[j].key), j)
      <4>1. u.entries[j] = d.entries[j]
        BY <2>5, <3>1, <3>5
      <4>2. /\ KeyHash(d.entries[j].key) \in Nat
            /\ Reaches(d, KeyHash(d.entries[j].key), j)
        BY <1>1, <2>9, <3>5, <4>1 DEF KeysHashed, KeysPlaced
      <4>3. u.cap = cap
        BY <1>1, <2>6 DEF EntryIn
      <4> QED BY <1>1, <3>4, <4>1, <4>2, <4>3, ReachesKept
    <3>6. ASSUME NEW j \in 0 .. cap - 1, NEW l \in 0 .. cap - 1,
                 u.entries[j].key = u.entries[l].key, u.entries[j].key # Empty
          PROVE  j = l
      BY <1>1, <2>5, <2>9, <3>1, <3>6 DEF KeysPlaced
    <3>7. EntriesOf(u) = EntriesWithout(d, k)
      <4>1. \A j \in 0 .. cap - 1 : u.entries[j].key # Empty =>
                d.entries[j].key \notin {k, Empty} /\ u.entries[j] = d.entries[j]
        BY <2>5, <3>1, <3>3
      <4>2. \A j \in 0 .. cap - 1 : d.entries[j].key \notin {k, Empty} =>
                u.entries[j].key # Empty /\ u.entries[j] = d.entries[j]
        BY <3>1, <3>2
      <4>3. u.cap = cap
        BY <1>1, <2>6 DEF EntryIn
      <4> QED BY <1>1, <4>1, <4>2, <4>3 DEF EntriesWithout, EntriesOf
    <3>8. u.cap = cap
      BY <1>1, <2>6 DEF EntryIn
    <3> QED BY <3>5, <3>6, <3>7, <3>8 DEF KeysPlaced
  <2> QED BY <1>1, <2>6, <2>7, <2>8, <2>9 DEF EntryIn
<1> QED BY <1>2, <1>3

\* dict.clear() leaves no entry, and every slot that was free.
LEMMA DictClearRight ==
    ASSUME NEW cap \in Nat, NEW d \in DictsOf(cap), NEW u, u = DictClear(d)
    PROVE  /\ u \in DictsOf(cap) /\ u.cap = cap /\ u.count = 0
           /\ EntriesOf(u) = {} /\ KeysPlaced(u)
           /\ FreeSlots(d) \subseteq FreeSlots(u)
<1> DEFINE entries == [i \in 0 .. cap - 1 |-> [d.entries[i] EXCEPT !.key = Empty]]
<1>1. d.cap = cap /\ d.entries \in [0 .. cap - 1 -> EntryRecords]
  BY DEF DictsOf
<1>2. entries \in [0 .. cap - 1 -> EntryRecords]
  BY <1>1 DEF EntryRecords
<1>3. \A i \in 0 .. cap - 1 :
          entries[i] = [key |-> Empty, val |-> d.entries[i].val]
  BY <1>1 DEF EntryRecords
<1>4. u = [kind |-> "dict", cap |-> cap, count |-> 0, entries |-> entries]
  <2>1. u = [d EXCEPT !.entries = entries, !.count = 0]
    BY <1>1 DEF DictClear
  <2> HIDE DEF entries
  <2> QED BY <2>1 DEF DictsOf
<1> HIDE DEF entries
<1>5. /\ u \in DictsOf(cap) /\ u.cap = cap /\ u.count = 0
      /\ u.entries = entries
  BY <1>2, <1>4 DEF DictsOf
<1>6. EntriesOf(u) = {} /\ KeysPlaced(u)
  <2>1. ASSUME NEW i \in 0 .. cap - 1
        PROVE  u.entries[i].key = Empty
    <3>1. u.entries[i] = [key |-> Empty, val |-> d.entries[i].val]
      BY <1>3, <1>5
    <3> QED BY <3>1
  <2> QED BY <1>5, <2>1 DEF EntriesOf, KeysPlaced
<1>7. FreeSlots(d) \subseteq FreeSlots(u)
  BY <1>1, <1>3, <1>5 DEF FreeSlots, NoEntry
<1> QED BY <1>5, <1>6, <1>7

(* ----------------------------- reachability ------------------------------ *)

\* S contains what a script holds, and what it gets from what is in S.
Enough(S) ==
    /\ Held \cap Addr \subseteq S
    /\ \A a \in S : Gets(a) \subseteq S

\* What the collector marks from an object is what a script gets from it.
LEMMA ReferencesAreGets ==
    ASSUME NEW a
    PROVE  References(a) = Gets(a)
<1>1. CASE IsDict(a)
  <2> DEFINE d == heap[a]
             used == (0 .. d.cap - 1) \ KeySlots(d, Empty)
  <2>1. References(a) = (UNION {{d.entries[i].key, d.entries[i].val} :
                                i \in used}) \cap Addr
    BY <1>1 DEF References
  <2>2. Gets(a) = {v \in Addr : \E e \in EntriesOf(d) : v = e.key \/ v = e.val}
    BY <1>1 DEF Gets
  <2>3. used = {i \in 0 .. d.cap - 1 : d.entries[i].key # Empty}
    BY DEF KeySlots
  <2> HIDE DEF d
  <2>4. EntriesOf(d) = {d.entries[i] : i \in used}
    BY <2>3 DEF EntriesOf
  <2> HIDE DEF used
  <2> QED BY <2>1, <2>2, <2>4
<1>2. CASE ~ IsDict(a)
  BY <1>2 DEF References, Gets
<1> QED BY <1>1, <1>2

\* f starts with base and goes from each set of members of D to what G makes
\* of it, as often as D has members.
Grows(f, D, base, G) ==
    /\ f[0] = base
    /\ \A n \in 1 .. Cardinality(D) :
           f[n - 1] \in SUBSET D => f[n] = G[f[n - 1]]

\* C is the least set that contains base and to which G adds nothing.
IsClosure(C, D, base, G) ==
    /\ C \in SUBSET D /\ base \subseteq C /\ G[C] = C
    /\ \A S : /\ base \subseteq S
              /\ \A R \in SUBSET D : R \subseteq S => G[R] \subseteq S
              => C \subseteq S

\* That set is what f comes to.
LEMMA Closure ==
    ASSUME NEW D, IsFiniteSet(D), NEW base \in SUBSET D,
           NEW G \in [SUBSET D -> SUBSET D], \A S \in SUBSET D : S \subseteq G[S],
           NEW f, Grows(f, D, base, G)
    PROVE  IsClosure(f[Cardinality(D)], D, base, G)
<1> DEFINE N == Cardinality(D)
<1>1. N \in Nat
  BY FS_CardinalityType
<1>2. /\ f[0] = base
      /\ \A n \in 1 .. N : f[n - 1] \in SUBSET D => f[n] = G[f[n - 1]]
  BY DEF Grows
<1> HIDE DEF N
<1>3. ASSUME NEW n \in 0 .. N - 1, f[n] \in SUBSET D
      PROVE  n + 1 \in 0 .. N /\ f[n + 1] = G[f[n]]
  <2>1. n + 1 \in 1 .. N /\ n + 1 - 1 = n
    BY <1>1
  <2> QED BY <1>2, <1>3, <2>1
<1> DEFINE T == {n \in 0 .. N :
                   /\ f[n] \in SUBSET D /\ base \subseteq f[n]
                   /\ Cardinality(f[n]) >= n \/ G[f[n]] = f[n]}
<1>4. \A n \in 0 .. N : n \in T
  <2>1. 0 \in T
    <3>1. Cardinality(base) \in Nat
      BY FS_Subset, FS_CardinalityType
    <3> QED BY <1>1, <1>2, <3>1
  <2>2. ASSUME NEW n \in 0 .. N - 1, n \in T
        PROVE  n + 1 \in T
    <3> DEFINE S == f[n]
               R == f[n + 1]
    <3>1. n + 1 \in 0 .. N /\ R = G[S]
      BY <1>3, <2>2
    <3>2. /\ S \in SUBSET D /\ base \subseteq S
          /\ Cardinality(S) >= n \/ G[S] = S
      BY <2>2
    <3> HIDE DEF S, R
    <3>3. R \in SUBSET D /\ base \subseteq R /\ S \subseteq R
      BY <3>1, <3>2
    <3>4. CASE G[S] = S
      <4>1. R = S
        BY <3>1, <3>4
      <4> QED BY <3>1, <3>3, <3>4, <4>1 DEF R
    <3>5. CASE G[S] # S
      <4>1. IsFiniteSet(R) /\ IsFiniteSet(S)
        BY <3>2, <3>3, FS_Subset
      <4>2. Cardinality(S) <= Cardinality(R)
            /\ Cardinality(S) # Cardinality(R)
        BY <3>1, <3>3, <3>5, <4>1, FS_Subset
      <4>3. Cardinality(S) \in Nat /\ Cardinality(R) \in Nat
        BY <4>1, FS_CardinalityType
      <4>4. Cardinality(R) >= n + 1
        BY <3>2, <3>5, <4>2, <4>3
      <4> QED BY <3>1, <3>3, <4>4 DEF R
    <3> QED BY <3>4, <3>5
  <2> HIDE DEF T
  <2> QED BY <1>1, <2>1, <2>2, UpTo
<1>5. /\ f[N] \in SUBSET D /\ base \subseteq f[N]
      /\ Cardinality(f[N]) >= N \/ G[f[N]] = f[N]
  <2>1. N \in T
    BY <1>1, <1>4
  <2> QED BY <2>1
<1>6. G[f[N]] = f[N]
  <2>1. CASE Cardinality(f[N]) >= N
    <3>1. /\ Cardinality(f[N]) <= Cardinality(D)
          /\ Cardinality(f[N]) = Cardinality(D) => f[N] = D
      BY <1>5, FS_Subset
    <3>2. Cardinality(f[N]) \in Nat
      BY <1>5, FS_Subset, FS_CardinalityType
    <3>3. f[N] = D
      BY <1>1, <2>1, <3>1, <3>2 DEF N
    <3> QED BY <3>3
  <2> QED BY <1>5, <2>1
<1>7. ASSUME NEW S, base \subseteq S,
             \A R \in SUBSET D : R \subseteq S => G[R] \subseteq S
      PROVE  f[N] \subseteq S
  <2> DEFINE U == {n \in 0 .. N : f[n] \subseteq S}
  <2>1. 0 \in U
    BY <1>1, <1>2, <1>7
  <2>2. ASSUME NEW n \in 0 .. N - 1, n \in U
        PROVE  n + 1 \in U
    <3>1. f[n] \in SUBSET D
      BY <1>1, <1>4
    <3> QED BY <1>3, <1>7, <2>2, <3>1
  <2>3. \A n \in 0 .. N : n \in U
    <3> HIDE DEF U
    <3> QED BY <1>1, <2>1, <2>2, UpTo
  <2> QED BY <1>1, <2>3
<1> QED BY <1>5, <1>6, <1>7 DEF N, IsClosure

\* As many steps as there are addresses come to all that can be reached: the
\* least set of objects that has what is held and what is got from it.
LEMMA ReachableRight ==
    /\ Reachable \in SUBSET Addr /\ Enough(Reachable)
    /\ \A S \in SUBSET Addr : Enough(S) => Reachable \subseteq S
<1> DEFINE N == Cardinality(Addr)
           base == Held \cap Addr
           Step(S) == S \cup UNION {Gets(a) : a \in S}
           reach[n \in 0 .. N] ==
               IF n = 0 THEN base
               ELSE reach[n - 1] \cup UNION {Gets(a) : a \in reach[n - 1]}
           F == [n \in 1 .. N |-> [S \in SUBSET Addr |-> Step(S)]]
<1>1. N \in Nat /\ IsFiniteSet(Addr)
  BY FS_CardinalityType
<1>2. \A a : Gets(a) \in SUBSET Addr
  BY DEF Gets
<1>3. F \in [1 .. N -> [SUBSET Addr -> SUBSET Addr]]
  <2>1. \A S \in SUBSET Addr : Step(S) \in SUBSET Addr
    BY <1>2
  <2> HIDE DEF Step
  <2> QED BY <2>1
<1>4. PICK f : Iterates(f, N, SUBSET Addr, base, F)
  <2>1. base \in SUBSET Addr
    OBVIOUS
  <2> HIDE DEF F, base, N
  <2> QED BY <1>1, <1>3, <2>1, Recursion
<1>5. f = [n \in 0 .. N |->
              IF n = 0 THEN base
              ELSE f[n - 1] \cup UNION {Gets(a) : a \in f[n - 1]}]
  <2>1. ASSUME NEW n \in 1 .. N
        PROVE  f[n] = f[n - 1] \cup UNION {Gets(a) : a \in f[n - 1]}
    <3>1. n - 1 \in 0 .. N /\ f[n] = F[n][f[n - 1]]
      <4> HIDE DEF F, base, N
      <4> QED BY <1>1, <1>4 DEF Iterates
    <3>2. f[n - 1] \in SUBSET Addr
      BY <1>4, <3>1 DEF Iterates
    <3>3. F[n][f[n - 1]] = Step(f[n - 1])
      <4> HIDE DEF Step
      <4> QED BY <3>2
    <3> QED BY <3>1, <3>3
  <2> HIDE DEF F, base, N
  <2> QED BY <1>1, <1>4, <2>1 DEF Iterates
<1>6. reach = [n \in 0 .. N |->
                  IF n = 0 THEN base
                  ELSE reach[n - 1] \cup UNION {Gets(a) : a \in reach[n - 1]}]
  <2> HIDE DEF F, base, N
  <2> QED BY <1>5, Zenon
<1>7. Reachable = reach[N]
  BY DEF Reachable
<1> HIDE DEF reach, F, base, N
<1> DEFINE G == [S \in SUBSET Addr |-> Step(S)]
<1>8. /\ G \in [SUBSET Addr -> SUBSET Addr] /\ \A S \in SUBSET Addr : S \subseteq G[S]
      /\ \A S \in SUBSET Addr : G[S] = Step(S)
  BY <1>2
<1>9. base \in SUBSET Addr
  BY DEF base
<1>10. Grows(reach, Addr, base, G)
  <2>1. reach[0] = base
    BY <1>1, <1>6
  <2>2. ASSUME NEW n \in 1 .. N, reach[n - 1] \in SUBSET Addr
        PROVE  reach[n] = G[reach[n - 1]]
    <3>1. n \in 0 .. N /\ n # 0
      BY <1>1
    <3>2. reach[n] = Step(reach[n - 1])
      BY <1>6, <3>1
    <3> HIDE DEF G, Step
    <3> QED BY <1>8, <2>2, <3>2
  <2> HIDE DEF G
  <2> QED BY <2>1, <2>2 DEF Grows, N
<1> HIDE DEF G
<1>11. IsClosure(reach[N], Addr, base, G)
  <2> HIDE DEF Step
  <2> QED BY <1>1, <1>8, <1>9, <1>10, Closure DEF N
<1>12. \A a \in reach[N] : Gets(a) \subseteq reach[N]
  BY <1>8, <1>11 DEF IsClosure
<1>13. ASSUME NEW S \in SUBSET Addr, Enough(S)
       PROVE  reach[N] \subseteq S
  <2>1. base \subseteq S /\ \A a \in S : Gets(a) \subseteq S
    BY <1>13 DEF Enough, base
  <2>2. ASSUME NEW R \in SUBSET Addr, R \subseteq S
        PROVE  G[R] \subseteq S
    <3>1. G[R] = Step(R)
      BY <1>8
    <3> QED BY <2>1, <2>2, <3>1
  <2> QED BY <1>11, <2>1, <2>2 DEF IsClosure
<1> QED BY <1>7, <1>11, <1>12, <1>13 DEF Enough, base, IsClosure

\* string_table_find gives a string of the table that has the characters, if
\* it gives one.
LEMMA FindGives ==
    ASSUME NEW cap \in Nat, NEW t \in TablesOf(cap),
           cap > 0 => EmptySlots(t) # {}, NEW c \in Chars,
           StringTableFind(t, c) # Empty
    PROVE  /\ StringTableFind(t, c) \in Addr
           /\ IsString(StringTableFind(t, c))
           /\ heap[StringTableFind(t, c)].chars = c
<1> DEFINE slots == SlotsHolding(t, c) \cup EmptySlots(t)
           i == FirstOf(Hash[c], cap, slots)
<1>1. t.cap = cap
  BY DEF TablesOf
<1>2. cap \in Nat \ {0} /\ StringTableFind(t, c) = t.data[i]
  BY <1>1 DEF StringTableFind
<1>3. slots \in SUBSET (0 .. cap - 1) /\ slots # {}
  BY <1>1, <1>2 DEF SlotsHolding, EmptySlots
<1>4. i \in slots
  <2> HIDE DEF slots
  <2>1. Hash[c] \in Nat
    OBVIOUS
  <2> QED BY <1>2, <1>3, <2>1, FirstOfFound
<1>5. i \in SlotsHolding(t, c)
  BY <1>2, <1>4 DEF EmptySlots
<1> HIDE DEF i
<1> QED BY <1>2, <1>5 DEF SlotsHolding, IsString

\* A string on a path is in the table.
LEMMA OnPathHeld ==
    ASSUME NEW cap \in Nat, NEW t \in TablesOf(cap), NEW h \in Nat, NEW s,
           OnPath(t, h, s)
    PROVE  \E j \in 0 .. cap - 1 : t.data[j] = s
<1>1. t.cap = cap
  BY DEF TablesOf
<1>2. PICK n \in 0 .. cap - 1 : t.data[Slot(h, cap, n)] = s
  BY <1>1 DEF OnPath
<1>3. cap \in Nat \ {0} /\ n \in Nat
  OBVIOUS
<1>4. Slot(h, cap, n) \in 0 .. cap - 1
  BY <1>3, ProbeReaches
<1> QED BY <1>2, <1>4

(* ------------------------------- invariants ------------------------------ *)

Values == Addr \cup {Null, True}

ObjectTyped(o) ==
    \/ o = Free
    \/ o \in [kind : {"string"}, chars : Chars]
    \/ o.cap \in Nat /\ o \in DictsOf(o.cap) /\ o.count <= o.cap

\* What is allocated after the collection; the strings are not yet there.
Requests == {<<"dict", "dict">>, <<"dict">>} \cup {<<c>> : c \in Chars}

Typed ==
    /\ heap = [a \in Addr |-> heap[a]]
    /\ \A a \in Addr : ObjectTyped(heap[a])
    /\ strings.cap \in Nat /\ strings \in TablesOf(strings.cap)
    /\ stack \in Seq(Values)
    /\ saved = <<>> \/ (saved = <<saved[1]>> /\ saved[1] \in Seq(Values))
    /\ pc \in {"run", "mark", "alloc"}
    /\ IF pc = "run" THEN request = <<>> ELSE request \in Requests
    /\ marked \in SUBSET Addr /\ grey \in SUBSET marked
    /\ pc # "mark" => marked = {}

\* The table is exact and keeps an empty slot; the strings in it are the live
\* ones, each on the path of its hash; no two of them, and none of them and
\* the string that is being made, have the same characters.
TableRight ==
    /\ CountExact(strings) /\ OneSlotEach(strings)
    /\ strings.cap > 0 => EmptySlots(strings) # {}
    /\ \A i \in 0 .. strings.cap - 1 :
           strings.data[i] \in Addr => IsString(strings.data[i])
    /\ \A a \in Addr : IsString(a) => OnPath(strings, KeyHash(a), a)
    /\ \A a, b \in Addr :
           IsString(a) /\ IsString(b) /\ heap[a].chars = heap[b].chars => a = b
    /\ \A c \in Chars : request = <<c>> /\ c # "dict" =>
           \A a \in Addr : IsString(a) => heap[a].chars # c

\* The stack that an await puts aside has no objects.
SavedBare ==
    saved # <<>> => \A i \in DOMAIN saved[1] : saved[1][i] \notin Addr

\* The three colours: the roots are marked, all that a black object refers to
\* is marked, and what is marked is needed.
RootsMarked == pc = "mark" => Locals \cap Addr \subseteq marked
BlackDone == \A a \in marked \ grey : Gets(a) \subseteq marked
MarkedNeeded == \A S \in SUBSET Addr : Enough(S) => marked \subseteq S
MarkingRight ==
    SavedBare /\ RootsMarked /\ BlackDone /\ MarkedNeeded /\ NothingDangles

\* Every dict can be searched; its keys are strings, each in the one place
\* where a search for it ends; and no key is in a dict whose count is 0.
DictsRight ==
    \A a \in Addr : IsDict(a) =>
        /\ DictSound(heap[a]) /\ KeysPlaced(heap[a])
        /\ heap[a].count = 0 => EntriesOf(heap[a]) = {}
        /\ \A e \in EntriesOf(heap[a]) : IsString(e.key)

IInv ==
    /\ Typed /\ TableRight
    /\ ~ MainHolds => MarkingRight
    /\ ~ MainHolds /\ ~ Reuses => DictsRight

(* --------------------------------- types --------------------------------- *)

\* What lies at an address.
LEMMA ObjectIs ==
    ASSUME Typed, NEW a \in Addr
    PROVE  /\ heap[a] = Free \/ IsString(a) \/ IsDict(a)
           /\ a \in Live <=> (IsString(a) \/ IsDict(a))
           /\ IsString(a) => heap[a].chars \in Chars /\ KeyHash(a) \in Nat
           /\ IsDict(a) => /\ heap[a].cap \in Nat
                           /\ heap[a] \in DictsOf(heap[a].cap)
                           /\ heap[a].count <= heap[a].cap
<1>1. ObjectTyped(heap[a])
  BY DEF Typed
<1>2. CASE heap[a] = Free
  BY <1>2 DEF IsString, IsDict, Live, Free
<1>3. CASE heap[a] \in [kind : {"string"}, chars : Chars]
  <2>1. /\ heap[a].kind = "string" /\ heap[a].chars \in Chars
        /\ heap[a] # Free
    BY <1>3 DEF Free
  <2>2. Hash[heap[a].chars] \in Nat
    BY <2>1
  <2> QED BY <2>1, <2>2 DEF IsString, IsDict, Live, KeyHash
<1>4. CASE /\ heap[a].cap \in Nat /\ heap[a] \in DictsOf(heap[a].cap)
           /\ heap[a].count <= heap[a].cap
  <2>1. heap[a].kind = "dict" /\ heap[a] # Free
    BY <1>4 DEF DictsOf, Free
  <2> QED BY <1>4, <2>1 DEF IsString, IsDict, Live
<1> QED BY <1>1, <1>2, <1>3, <1>4 DEF ObjectTyped

\* The strings of the table are on their paths.
LEMMA TableFacts ==
    ASSUME Typed, TableRight
    PROVE  /\ strings.cap \in Nat /\ strings \in TablesOf(strings.cap)
           /\ strings.data \in
                  [0 .. strings.cap - 1 -> Addr \cup {Empty, Gone}]
           /\ CountExact(strings) /\ OneSlotEach(strings)
           /\ PathsKept(strings)
           /\ strings.cap > 0 => EmptySlots(strings) # {}
<1>1. strings.cap \in Nat /\ strings \in TablesOf(strings.cap)
  BY DEF Typed
<1>2. PathsKept(strings)
  <2> SUFFICES ASSUME NEW j \in 0 .. strings.cap - 1,
                      strings.data[j] \in Addr
               PROVE  /\ KeyHash(strings.data[j]) \in Nat
                      /\ OnPath(strings, KeyHash(strings.data[j]),
                                strings.data[j])
    BY DEF PathsKept
  <2>1. IsString(strings.data[j])
    BY DEF TableRight
  <2> QED BY <2>1, ObjectIs DEF TableRight
<1> QED BY <1>1, <1>2 DEF TableRight, TablesOf

\* A step of the running script keeps the types when it keeps those of the
\* heap and of its stack.
LEMMA RunTyped ==
    ASSUME Typed, Runs, NEW s \in Seq(Values), Becomes(s),
           heap' = [a \in Addr |-> heap'[a]],
           \A a \in Addr : ObjectTyped(heap'[a])
    PROVE  Typed'
BY DEF Typed, Runs, Becomes

\* The heap after one object has changed.
LEMMA OneChanged ==
    ASSUME Typed, NEW d \in Addr, NEW o, ObjectTyped(o),
           heap' = [heap EXCEPT ![d] = o]
    PROVE  /\ heap' = [a \in Addr |-> heap'[a]]
           /\ \A a \in Addr : heap'[a] = IF a = d THEN o ELSE heap[a]
           /\ \A a \in Addr : ObjectTyped(heap'[a])
<1>1. heap = [a \in Addr |-> heap[a]] /\ \A a \in Addr : ObjectTyped(heap[a])
  BY DEF Typed
<1>2. heap' = [a \in Addr |-> IF a = d THEN o ELSE heap[a]]
  BY <1>1
<1>3. \A a \in Addr : heap'[a] = IF a = d THEN o ELSE heap[a]
  BY <1>2
<1>4. heap' = [a \in Addr |-> heap'[a]]
  BY <1>2
<1>5. \A a \in Addr : ObjectTyped(heap'[a])
  BY <1>1, <1>3
<1> QED BY <1>3, <1>4, <1>5

\* The locals of a script are values.
LEMMA LocalsTyped ==
    ASSUME Typed
    PROVE  Locals \subseteq Values
BY DEF Typed, Locals

\* An object and a key of it, as the opcodes and methods of dicts have them.
LEMMA EntryFacts ==
    ASSUME Typed, NEW d \in Addr, NEW k \in Addr, Entry(d, k)
    PROVE  /\ Runs /\ d \in Locals /\ k \in Locals /\ IsDict(d) /\ IsString(k)
           /\ heap[d].cap \in Nat /\ heap[d] \in DictsOf(heap[d].cap)
           /\ heap[d].count <= heap[d].cap /\ KeyHash(k) \in Nat
BY ObjectIs DEF Entry

\* What a dict gives is a value.
LEMMA GotTyped ==
    ASSUME Typed, NEW d \in Addr, NEW k \in Addr, Entry(d, k), Returns(d, k),
           DictGet(heap[d], k) # Empty
    PROVE  DictGet(heap[d], k) \in Values
           /\ (DictGet(heap[d], k) \in Addr => DictGet(heap[d], k) \in Gets(d))
<1>1. /\ heap[d].cap \in Nat /\ heap[d] \in DictsOf(heap[d].cap)
      /\ KeyHash(k) \in Nat /\ IsDict(d)
  BY EntryFacts
<1>2. PICK e \in EntriesOf(heap[d]) : DictGet(heap[d], k) = e.val
  BY <1>1, DictGetRight DEF Returns
<1>3. e \in EntryRecords
  BY <1>1 DEF EntriesOf, DictsOf
<1>4. e.val \in Values
  BY <1>3 DEF EntryRecords, Values
<1> QED BY <1>1, <1>2, <1>4 DEF Gets

\* A dict that was stored into, or from which an entry was taken, is one.
LEMMA ChangedTyped ==
    ASSUME Typed, NEW d \in Addr, NEW k \in Addr, Entry(d, k)
    PROVE  /\ \A v \in Values : ObjectTyped(DictSet(heap[d], k, v))
           /\ Returns(d, k) => ObjectTyped(DictDelete(heap[d], k))
<1>1. /\ heap[d].cap \in Nat /\ heap[d] \in DictsOf(heap[d].cap)
      /\ heap[d].count <= heap[d].cap /\ KeyHash(k) \in Nat
  BY EntryFacts
<1>2. ASSUME NEW v \in Values
      PROVE  ObjectTyped(DictSet(heap[d], k, v))
  <2>1. Stored(heap[d], k, v, DictSet(heap[d], k, v))
    BY <1>1, DictSetRight DEF Values
  <2> QED BY <2>1 DEF Stored, ObjectTyped
<1>3. ASSUME Returns(d, k)
      PROVE  ObjectTyped(DictDelete(heap[d], k))
  <2> DEFINE u == DictDelete(heap[d], k)
  <2>1. /\ u \in DictsOf(heap[d].cap) /\ u.cap = heap[d].cap
        /\ u.count = heap[d].count
    BY <1>1, <1>3, DictDeleteRight DEF Returns
  <2> QED BY <1>1, <2>1 DEF ObjectTyped
<1> QED BY <1>2, <1>3

\* Initially nothing is allocated.
LEMMA TypedInit == Init => Typed
<1> SUFFICES ASSUME Init PROVE Typed
  OBVIOUS
<1>1. strings \in TablesOf(0) /\ strings.cap = 0
  BY FreshTableIs DEF Init, FreshTable
<1>2. <<>> \in Seq(Values)
  OBVIOUS
<1>3. \A a \in Addr : ObjectTyped(heap[a])
  BY DEF Init, ObjectTyped
<1> QED BY <1>1, <1>2, <1>3 DEF Init, Typed

\* The types of the variables that an opcode and an allocation change.
LEMMA AllocatingTyped ==
    ASSUME Typed, Runs, NEW what \in Requests, Allocating(what)
    PROVE  Typed'
<1>1. heap' = heap /\ strings' = strings /\ stack' = stack /\ saved' = saved
      /\ request' = what
  BY DEF Allocating
<1>2. pc = "run" /\ marked = {} /\ grey = {}
  BY DEF Typed, Runs
<1>3. CASE pc' = "alloc" /\ marked' = marked /\ grey' = grey
  BY <1>1, <1>2, <1>3 DEF Typed
<1>4. CASE /\ pc' = "mark" /\ marked' = marked \cup (Locals \cap Addr)
           /\ grey' = marked' \ marked
  BY <1>1, <1>2, <1>4 DEF Typed
<1> QED BY <1>3, <1>4 DEF Allocating, CollectOrNot

\* A running script keeps the types.
LEMMA RunsTyped ==
    ASSUME Typed, TableRight,
           \/ \E c \in Chars : String(c)
           \/ CreateDict \/ Pop
           \/ \E d, k \in Addr : SetIndex(d, k) \/ GetIndex(d, k) \/ DictPop(d, k)
           \/ \E d \in Addr : Clear(d)
           \/ Await \/ Return
    PROVE  Typed'
<1> USE DEF Values
<1>1. stack \in Seq(Values) /\ heap = [a \in Addr |-> heap[a]]
      /\ \A a \in Addr : ObjectTyped(heap[a])
  BY DEF Typed
<1>2. ASSUME NEW v \in Values PROVE Append(stack, v) \in Seq(Values)
  BY <1>1
<1>3. ASSUME NEW c \in Chars, String(c) PROVE Typed'
  <2> DEFINE s == StringTableFind(strings, c)
  <2>1. CASE s # Empty /\ Becomes(Append(stack, s)) /\ UNCHANGED heap
    <3>1. s \in Addr
      BY <2>1, TableFacts, FindGives
    <3> QED BY <1>1, <1>2, <1>3, <2>1, <3>1, RunTyped DEF String
  <2>2. CASE Allocating(<<c>>)
    BY <1>3, <2>2, AllocatingTyped DEF String, Requests
  <2> QED BY <1>3, <2>1, <2>2 DEF String
<1>4. ASSUME CreateDict PROVE Typed'
  BY <1>4, AllocatingTyped DEF CreateDict, Requests
<1>5. ASSUME Pop PROVE Typed'
  <2> DEFINE s == SubSeq(stack, 1, Len(stack) - 1)
  <2>1. s \in Seq(Values)
    BY <1>1, <1>5 DEF Pop
  <2> QED BY <1>1, <1>5, <2>1, RunTyped DEF Pop
<1>6. ASSUME NEW d \in Addr, NEW k \in Addr, SetIndex(d, k) PROVE Typed'
  <2>1. Entry(d, k) /\ Runs /\ Becomes(stack)
    BY <1>6 DEF SetIndex, Entry
  <2>2. PICK v \in Locals : heap' = [heap EXCEPT ![d] = DictSet(heap[d], k, v)]
    BY <1>6 DEF SetIndex
  <2>3. ObjectTyped(DictSet(heap[d], k, v))
    BY <2>1, <2>2, LocalsTyped, ChangedTyped
  <2> QED BY <1>1, <2>1, <2>2, <2>3, OneChanged, RunTyped
<1>7. ASSUME NEW d \in Addr, NEW k \in Addr, GetIndex(d, k) PROVE Typed'
  <2>1. DictGet(heap[d], k) \in Values
    BY <1>7, GotTyped DEF GetIndex
  <2>2. Runs /\ Becomes(Append(stack, DictGet(heap[d], k))) /\ heap' = heap
    BY <1>7 DEF GetIndex, Entry
  <2> QED BY <1>1, <1>2, <2>1, <2>2, RunTyped
<1>8. ASSUME NEW d \in Addr, NEW k \in Addr, DictPop(d, k) PROVE Typed'
  <2> DEFINE g == DictGet(heap[d], k)
             v == IF g = Empty THEN Null ELSE g
  <2>1. Entry(d, k) /\ Returns(d, k) /\ Runs /\ Becomes(Append(stack, v))
        /\ heap' = [heap EXCEPT ![d] = DictDelete(heap[d], k)]
    BY <1>8 DEF DictPop, Entry
  <2>2. v \in Values
    BY <2>1, GotTyped
  <2> HIDE DEF v
  <2>3. ObjectTyped(DictDelete(heap[d], k))
    BY <2>1, ChangedTyped
  <2> QED BY <1>1, <1>2, <2>1, <2>2, <2>3, OneChanged, RunTyped
<1>9. ASSUME NEW d \in Addr, Clear(d) PROVE Typed'
  <2>1. IsDict(d) /\ Runs /\ Becomes(stack)
        /\ heap' = [heap EXCEPT ![d] = DictClear(heap[d])]
    BY <1>9 DEF Clear
  <2>2. heap[d].cap \in Nat /\ heap[d] \in DictsOf(heap[d].cap)
    BY <2>1, ObjectIs
  <2>3. ObjectTyped(DictClear(heap[d]))
    <3>1. /\ DictClear(heap[d]) \in DictsOf(heap[d].cap)
          /\ DictClear(heap[d]).cap = heap[d].cap
          /\ DictClear(heap[d]).count = 0
      BY <2>2, DictClearRight
    <3> QED BY <2>2, <3>1 DEF ObjectTyped
  <2> QED BY <1>1, <2>1, <2>3, OneChanged, RunTyped
<1>10. ASSUME Await PROVE Typed'
  <2>1. saved' = <<stack>> /\ stack' = <<>>
        /\ UNCHANGED <<heap, strings, pc, request, marked, grey>>
    BY <1>10 DEF Await
  <2>2. saved' = <<saved'[1]>> /\ saved'[1] \in Seq(Values)
        /\ stack' \in Seq(Values)
    BY <1>1, <2>1
  <2> QED BY <2>1, <2>2 DEF Typed
<1>11. ASSUME Return PROVE Typed'
  <2>1. /\ stack' = Append(saved[1], stack[Len(stack)]) /\ saved' = <<>>
        /\ UNCHANGED <<heap, strings, pc, request, marked, grey>>
        /\ saved # <<>> /\ stack # <<>>
    BY <1>11 DEF Return
  <2>2. saved[1] \in Seq(Values) /\ stack[Len(stack)] \in Values
    BY <1>1, <2>1 DEF Typed
  <2>3. stack' \in Seq(Values)
    BY <2>1, <2>2
  <2> QED BY <2>1, <2>3 DEF Typed
<1> QED BY <1>3, <1>4, <1>5, <1>6, <1>7, <1>8, <1>9, <1>10, <1>11

(* ------------------------- collecting, allocating ------------------------ *)

\* What a sweep frees.
Garbage == Live \ marked
GarbageStrings == {a \in Garbage : IsString(a)}

\* What a sweep leaves.
LEMMA SweepFacts ==
    ASSUME Typed, TableRight, Sweep
    PROVE  /\ heap' = [a \in Addr |-> heap'[a]]
           /\ \A a \in Addr :
                  heap'[a] = IF a \in Garbage THEN Free ELSE heap[a]
           /\ strings' = StringTableRemove(strings, GarbageStrings)
           /\ strings'.cap = strings.cap
           /\ strings' \in TablesOf(strings.cap)
           /\ CountExact(strings') /\ OneSlotEach(strings')
           /\ EmptySlots(strings') = EmptySlots(strings)
           /\ \A i \in 0 .. strings.cap - 1 :
                  strings'.data[i] = IF strings.data[i] \in GarbageStrings
                                     THEN Gone ELSE strings.data[i]
           /\ \A h \in Nat, a \in Addr \ GarbageStrings :
                  OnPath(strings, h, a) => OnPath(strings', h, a)
<1>1. /\ heap' = [a \in Addr |-> IF a \in Garbage THEN Free ELSE heap[a]]
      /\ strings' = StringTableRemove(strings, GarbageStrings)
  BY DEF Sweep, Garbage, GarbageStrings
<1>2. GarbageStrings \in SUBSET Addr
  BY DEF GarbageStrings, Garbage, Live
<1>3. /\ strings' \in TablesOf(strings.cap)
      /\ CountExact(strings') /\ OneSlotEach(strings')
      /\ EmptySlots(strings') = EmptySlots(strings)
      /\ \A i \in 0 .. strings.cap - 1 :
             strings'.data[i] = IF strings.data[i] \in GarbageStrings
                                THEN Gone ELSE strings.data[i]
      /\ \A h \in Nat, a \in Addr \ GarbageStrings :
             OnPath(strings, h, a) => OnPath(strings', h, a)
  BY <1>1, <1>2, TableFacts, RemoveRight
<1>4. strings'.cap = strings.cap
  BY <1>3 DEF TablesOf
<1>5. heap' = [a \in Addr |-> heap'[a]]
      /\ \A a \in Addr : heap'[a] = IF a \in Garbage THEN Free ELSE heap[a]
  BY <1>1
<1> QED BY <1>1, <1>3, <1>4, <1>5

\* Objects are allocated one at a time.
LEMMA RequestIs ==
    ASSUME Typed, pc = "alloc"
    PROVE  \/ /\ \E c \in Chars \cup {"dict"} : request = <<c>>
              /\ Len(request) = 1 /\ Tail(request) = <<>>
           \/ /\ request = <<"dict", "dict">>
              /\ Len(request) = 2 /\ Tail(request) = <<"dict">>
              /\ Head(request) = "dict"
<1>1. CASE request = <<"dict", "dict">>
  BY <1>1
<1>2. CASE request # <<"dict", "dict">>
  <2>1. PICK c \in Chars \cup {"dict"} : request = <<c>>
    BY <1>2 DEF Typed, Requests
  <2>2. Len(request) = 1 /\ Tail(request) = <<>>
    BY <2>1
  <2> QED BY <2>1, <2>2
<1> QED BY <1>1, <1>2

\* What an allocation adds: a fresh dict, or a string that the table did not
\* have and now has.
Allocated(a) ==
    /\ a \in Addr /\ heap[a] = Free
    /\ heap' = [b \in Addr |-> heap'[b]]
    /\ \A b \in Addr \ {a} : heap'[b] = heap[b]
    /\ \/ /\ heap'[a] = NewDict /\ strings' = strings
       \/ \E c \in Chars :
              /\ request = <<c>> /\ c # "dict"
              /\ heap'[a] = [kind |-> "string", chars |-> c]
              /\ InsertedRight(strings, a, Hash[c], strings')

\* An allocation ends with the object on the stack, or with another to make
\* and perhaps another collection.
AllocationGoesOn(a) ==
    /\ saved' = saved
    /\ \/ /\ pc' = "run" /\ request' = <<>>
          /\ stack' = Append(stack, a)
          /\ marked' = marked /\ grey' = grey
       \/ /\ request = <<"dict", "dict">> /\ request' = <<"dict">>
          /\ stack' = stack
          /\ \/ pc' = "alloc" /\ marked' = marked /\ grey' = grey
             \/ /\ pc' = "mark" /\ marked' = marked \cup (Locals \cap Addr)
                /\ grey' = marked' \ marked

\* Every allocation is of this form.
LEMMA AllocateFacts ==
    ASSUME Typed, TableRight, Allocate
    PROVE  \E a : Allocated(a) /\ AllocationGoesOn(a)
<1>1. PICK a \in Addr \ Live :
          /\ heap' = [heap EXCEPT ![a] =
                 IF Head(request) = "dict" THEN NewDict
                 ELSE [kind |-> "string", chars |-> Head(request)]]
          /\ strings' = IF Head(request) = "dict" THEN strings
                        ELSE StringTableSet(strings, a, Head(request))
          /\ stack' = IF Len(request) = 1 THEN Append(stack, a) ELSE stack
  BY DEF Allocate
<1>2. /\ pc = "alloc" /\ request' = Tail(request) /\ saved' = saved
      /\ IF Len(request) = 1
         THEN pc' = "run" /\ UNCHANGED <<marked, grey>>
         ELSE CollectOrNot
  BY DEF Allocate
<1>3. heap = [b \in Addr |-> heap[b]] /\ heap[a] = Free
  BY DEF Typed, Live
<1>4. heap' = [b \in Addr |-> heap'[b]]
      /\ \A b \in Addr \ {a} : heap'[b] = heap[b]
  BY <1>1, <1>3
<1>5. CASE Head(request) = "dict"
  <2>1. heap'[a] = NewDict /\ strings' = strings
    BY <1>1, <1>3, <1>5
  <2>2. Allocated(a)
    BY <1>3, <1>4, <2>1 DEF Allocated
  <2>3. CASE Len(request) = 1
    <3>1. Tail(request) = <<>>
      BY <1>2, <2>3, RequestIs
    <3>2. AllocationGoesOn(a)
      BY <1>1, <1>2, <2>3, <3>1 DEF AllocationGoesOn
    <3> QED BY <2>2, <3>2
  <2>4. CASE Len(request) # 1
    <3>1. request = <<"dict", "dict">> /\ Tail(request) = <<"dict">>
      BY <1>2, <2>4, RequestIs
    <3>2. AllocationGoesOn(a)
      BY <1>1, <1>2, <2>4, <3>1 DEF AllocationGoesOn, CollectOrNot
    <3> QED BY <2>2, <3>2
  <2> QED BY <2>3, <2>4
<1>6. CASE Head(request) # "dict"
  <2>1. PICK c \in Chars : request = <<c>>
    <3>1. PICK c \in Chars \cup {"dict"} : request = <<c>>
      BY <1>2, <1>6, RequestIs
    <3> QED BY <1>6, <3>1
  <2>2. Head(request) = c /\ Len(request) = 1 /\ Tail(request) = <<>>
    BY <2>1
  <2>3. heap'[a] = [kind |-> "string", chars |-> c]
        /\ strings' = StringTableSet(strings, a, c)
    BY <1>1, <1>3, <1>6, <2>2
  <2>4. InsertedRight(strings, a, Hash[c], strings')
    <3>1. \A j \in 0 .. strings.cap - 1 : strings.data[j] # a
      <4> SUFFICES ASSUME NEW j \in 0 .. strings.cap - 1,
                          strings.data[j] = a
                   PROVE  FALSE
        OBVIOUS
      <4>1. IsString(a)
        BY DEF TableRight
      <4> QED BY <4>1, ObjectIs
    <3> QED BY <2>3, <3>1, TableFacts, SetRight
  <2>5. Allocated(a)
    BY <1>3, <1>4, <1>6, <2>1, <2>2, <2>3, <2>4 DEF Allocated
  <2>6. AllocationGoesOn(a)
    BY <1>1, <1>2, <2>2 DEF AllocationGoesOn
  <2> QED BY <2>5, <2>6
<1> QED BY <1>5, <1>6

\* The collector and the allocation keep the types.
LEMMA CollectsTyped ==
    ASSUME Typed, TableRight, Blacken \/ Sweep \/ Allocate
    PROVE  Typed'
<1>1. CASE Blacken
  <2>1. PICK a \in grey :
            /\ marked' = marked \cup References(a)
            /\ grey' = (grey \ {a}) \cup (References(a) \ marked)
    BY <1>1 DEF Blacken
  <2>2. pc = "mark" /\ UNCHANGED <<heap, strings, stack, saved, pc, request>>
    BY <1>1 DEF Blacken
  <2>3. References(a) \in SUBSET Addr
    BY DEF References
  <2> QED BY <2>1, <2>2, <2>3 DEF Typed
<1>2. CASE Sweep
  <2>1. /\ pc = "mark" /\ grey = {} /\ marked' = {} /\ pc' = "alloc"
        /\ UNCHANGED <<stack, saved, request, grey>>
    BY <1>2 DEF Sweep
  <2>2. \A a \in Addr : ObjectTyped(heap'[a])
    BY <1>2, SweepFacts DEF Typed, ObjectTyped
  <2>3. /\ heap' = [a \in Addr |-> heap'[a]]
        /\ strings'.cap \in Nat /\ strings' \in TablesOf(strings'.cap)
    BY <1>2, SweepFacts, TableFacts
  <2> QED BY <2>1, <2>2, <2>3 DEF Typed
<1>3. CASE Allocate
  <2>1. PICK a : Allocated(a) /\ AllocationGoesOn(a)
    BY <1>3, AllocateFacts
  <2>2. /\ heap' = [b \in Addr |-> heap'[b]] /\ a \in Addr
        /\ \A b \in Addr : ObjectTyped(heap'[b])
    <3>1. ObjectTyped(heap'[a])
      <4>1. ObjectTyped(NewDict)
        <5>1. NewDict \in DictsOf(0) /\ NewDict.count = 0
          BY FreshDictIs DEF NewDict
        <5>2. NewDict.cap = 0
          BY <5>1 DEF DictsOf
        <5> QED BY <5>1, <5>2 DEF ObjectTyped
      <4> QED BY <2>1, <4>1 DEF Allocated, ObjectTyped
    <3> QED BY <2>1, <3>1 DEF Allocated, Typed
  <2>3. strings'.cap \in Nat /\ strings' \in TablesOf(strings'.cap)
    BY <2>1, TableFacts DEF Allocated, InsertedRight
  <2>4. pc = "alloc" /\ marked = {} /\ grey = {}
    BY <1>3 DEF Allocate, Typed
  <2>5. stack' \in Seq(Values)
    <3>1. stack \in Seq(Values) /\ a \in Values
      BY <2>2 DEF Typed, Values
    <3>2. Append(stack, a) \in Seq(Values)
      BY <3>1
    <3> QED BY <2>1, <3>1, <3>2 DEF AllocationGoesOn
  <2>6. /\ saved' = <<>> \/ (saved' = <<saved'[1]>> /\ saved'[1] \in Seq(Values))
        /\ IF pc' = "run" THEN request' = <<>> ELSE request' \in Requests
        /\ pc' \in {"run", "mark", "alloc"}
        /\ marked' \in SUBSET Addr /\ grey' \in SUBSET marked'
        /\ pc' # "mark" => marked' = {}
    BY <2>1, <2>4 DEF AllocationGoesOn, Typed, Requests
  <2> QED BY <2>2, <2>3, <2>5, <2>6 DEF Typed
<1> QED BY <1>1, <1>2, <1>3

(* ------------------------------- interning ------------------------------- *)

\* The step keeps every string, and makes none.
StringsStay ==
    \A a \in Addr : /\ IsString(a)' <=> IsString(a)
                    /\ IsString(a) => heap'[a] = heap[a]

\* The table stays right while neither it nor the strings change.
LEMMA TableKept ==
    ASSUME Typed, TableRight, strings' = strings, StringsStay,
           \A c \in Chars : request' = <<c>> /\ c # "dict" =>
               \A a \in Addr : IsString(a) => heap[a].chars # c
    PROVE  TableRight'
<1>1. CountExact(strings') /\ OneSlotEach(strings')
      /\ (strings'.cap > 0 => EmptySlots(strings') # {})
  BY DEF TableRight
<1>2. ASSUME NEW i \in 0 .. strings'.cap - 1, strings'.data[i] \in Addr
      PROVE  IsString(strings.data[i])'
  <2>1. IsString(strings.data[i])
    BY <1>2 DEF TableRight
  <2> QED BY <1>2, <2>1 DEF StringsStay, IsString
<1>3. ASSUME NEW a \in Addr, IsString(a)'
      PROVE  OnPath(strings', KeyHash(a)', a)
  <2>1. IsString(a) /\ heap'[a] = heap[a]
    BY <1>3 DEF StringsStay
  <2>2. OnPath(strings, KeyHash(a), a)
    BY <2>1 DEF TableRight
  <2> QED BY <2>1, <2>2 DEF KeyHash
<1>4. ASSUME NEW a \in Addr, NEW b \in Addr, IsString(a)', IsString(b)',
             heap'[a].chars = heap'[b].chars
      PROVE  a = b
  BY <1>4 DEF StringsStay, TableRight
<1>5. ASSUME NEW c \in Chars, request' = <<c>>, c # "dict",
             NEW a \in Addr, IsString(a)'
      PROVE  heap'[a].chars # c
  BY <1>5 DEF StringsStay
<1> QED BY <1>1, <1>2, <1>3, <1>4, <1>5 DEF TableRight

\* A string that is not found is not there.
LEMMA NotFound ==
    ASSUME Typed, TableRight, NEW c \in Chars,
           StringTableFind(strings, c) = Empty
    PROVE  \A a \in Addr : IsString(a) => heap[a].chars # c
<1> SUFFICES ASSUME NEW a \in Addr, IsString(a), heap[a].chars = c
             PROVE  FALSE
  OBVIOUS
<1>1. OnPath(strings, Hash[heap[a].chars], a)
  BY DEF TableRight, KeyHash
<1>2. \A b \in Addr : IsString(b) /\ heap[b].chars = heap[a].chars => b = a
  BY DEF TableRight
<1>3. StringTableFind(strings, heap[a].chars) = a
  BY <1>1, <1>2, TableFacts, FindRight
<1> QED BY <1>3

\* Changing a dict changes no string.
LEMMA DictChanged ==
    ASSUME Typed, NEW d \in Addr, IsDict(d), NEW o, NEW cap,
           o \in DictsOf(cap), heap' = [heap EXCEPT ![d] = o]
    PROVE  StringsStay
<1>1. o.kind = "dict"
  BY DEF DictsOf
<1>2. \A a \in Addr : heap'[a] = IF a = d THEN o ELSE heap[a]
  BY DEF Typed
<1> QED BY <1>1, <1>2 DEF StringsStay, IsString, IsDict

\* A running script changes no string and not the table.
LEMMA RunsInterned ==
    ASSUME Typed, TableRight,
           \/ \E c \in Chars : String(c)
           \/ CreateDict \/ Pop
           \/ \E d, k \in Addr : SetIndex(d, k) \/ GetIndex(d, k) \/ DictPop(d, k)
           \/ \E d \in Addr : Clear(d)
           \/ Await \/ Return
    PROVE  TableRight'
<1>1. heap' = heap => StringsStay
  BY DEF StringsStay, IsString
<1>2. \A c \in Chars : request = <<c>> /\ c # "dict" =>
          \A a \in Addr : IsString(a) => heap[a].chars # c
  BY DEF TableRight
<1>3. ASSUME NEW c \in Chars, String(c) PROVE TableRight'
  <2> DEFINE s == StringTableFind(strings, c)
  <2>1. CASE s # Empty /\ Becomes(Append(stack, s)) /\ UNCHANGED heap
    BY <1>1, <1>2, <2>1, TableKept DEF Becomes
  <2>2. CASE s = Empty /\ Allocating(<<c>>)
    <3>1. /\ heap' = heap /\ strings' = strings /\ request' = <<c>>
          /\ \A e \in Chars : request' = <<e>> => e = c
      BY <2>2 DEF Allocating
    <3>2. \A a \in Addr : IsString(a) => heap[a].chars # c
      BY <2>2, NotFound
    <3> QED BY <1>1, <3>1, <3>2, TableKept
  <2> QED BY <1>3, <2>1, <2>2 DEF String
<1>4. ASSUME CreateDict PROVE TableRight'
  <2>1. heap' = heap /\ strings' = strings /\ request' = <<"dict", "dict">>
    BY <1>4 DEF CreateDict, Allocating
  <2>2. \A c \in Chars : request' # <<c>>
    <3>1. Len(request') = 2
      BY <2>1
    <3> QED BY <3>1
  <2> QED BY <1>1, <2>1, <2>2, TableKept
<1>5. ASSUME \/ Pop \/ Await \/ Return
             \/ \E d, k \in Addr : GetIndex(d, k)
      PROVE  TableRight'
  <2>1. heap' = heap /\ strings' = strings /\ request' = request
    BY <1>5 DEF Pop, Await, Return, GetIndex, Becomes
  <2> QED BY <1>1, <1>2, <2>1, TableKept
<1>6. ASSUME NEW d \in Addr, NEW k \in Addr, SetIndex(d, k) PROVE TableRight'
  <2>1. Entry(d, k) /\ strings' = strings /\ request' = request
    BY <1>6 DEF SetIndex, Becomes
  <2>2. PICK v \in Locals : heap' = [heap EXCEPT ![d] = DictSet(heap[d], k, v)]
    BY <1>6 DEF SetIndex
  <2>3. Stored(heap[d], k, v, DictSet(heap[d], k, v)) /\ IsDict(d)
    BY <2>1, EntryFacts, LocalsTyped, DictSetRight DEF Values
  <2>4. StringsStay
    BY <2>2, <2>3, DictChanged DEF Stored
  <2> QED BY <1>2, <2>1, <2>4, TableKept
<1>7. ASSUME NEW d \in Addr, NEW k \in Addr, DictPop(d, k) PROVE TableRight'
  <2>1. Entry(d, k) /\ Returns(d, k) /\ strings' = strings
        /\ request' = request
        /\ heap' = [heap EXCEPT ![d] = DictDelete(heap[d], k)]
    BY <1>7 DEF DictPop, Becomes
  <2>2. DictDelete(heap[d], k) \in DictsOf(heap[d].cap) /\ IsDict(d)
    BY <2>1, EntryFacts, DictDeleteRight DEF Returns
  <2>3. StringsStay
    BY <2>1, <2>2, DictChanged
  <2> QED BY <1>2, <2>1, <2>3, TableKept
<1>8. ASSUME NEW d \in Addr, Clear(d) PROVE TableRight'
  <2>1. IsDict(d) /\ strings' = strings /\ request' = request
        /\ heap' = [heap EXCEPT ![d] = DictClear(heap[d])]
    BY <1>8 DEF Clear, Becomes
  <2>2. DictClear(heap[d]) \in DictsOf(heap[d].cap)
    BY <2>1, ObjectIs, DictClearRight
  <2>3. StringsStay
    BY <2>1, <2>2, DictChanged
  <2> QED BY <1>2, <2>1, <2>3, TableKept
<1> QED BY <1>3, <1>4, <1>5, <1>6, <1>7, <1>8

\* A sweep takes the strings that it frees out of the table, and the others
\* stay where they are found.
LEMMA SweepInterned ==
    ASSUME Typed, TableRight, Sweep
    PROVE  TableRight'
<1>1. /\ \A a \in Addr :
             heap'[a] = IF a \in Garbage THEN Free ELSE heap[a]
      /\ strings'.cap = strings.cap
      /\ \A i \in 0 .. strings.cap - 1 :
             strings'.data[i] = IF strings.data[i] \in GarbageStrings
                                THEN Gone ELSE strings.data[i]
  BY SweepFacts
<1>2. /\ CountExact(strings') /\ OneSlotEach(strings')
      /\ EmptySlots(strings') = EmptySlots(strings)
      /\ \A h \in Nat, a \in Addr \ GarbageStrings :
             OnPath(strings, h, a) => OnPath(strings', h, a)
  BY SweepFacts
<1>3. ASSUME NEW a \in Addr
      PROVE  /\ IsString(a)' <=> IsString(a) /\ a \notin GarbageStrings
             /\ IsString(a)' => heap'[a] = heap[a]
  BY <1>1, ObjectIs DEF IsString, Free, GarbageStrings, Garbage
<1>4. ASSUME NEW i \in 0 .. strings.cap - 1, strings'.data[i] \in Addr
      PROVE  IsString(strings.data[i])'
  <2>1. strings'.data[i] = strings.data[i]
        /\ strings.data[i] \notin GarbageStrings
    BY <1>1, <1>4
  <2>2. IsString(strings.data[i])
    BY <1>4, <2>1 DEF TableRight
  <2>3. heap'[strings.data[i]] = heap[strings.data[i]]
    BY <1>1, <2>1, <2>2 DEF GarbageStrings, IsString
  <2> QED BY <2>1, <2>2, <2>3 DEF IsString
<1>5. ASSUME NEW a \in Addr, IsString(a)'
      PROVE  OnPath(strings', KeyHash(a)', a)
  <2>1. IsString(a) /\ a \notin GarbageStrings /\ heap'[a] = heap[a]
    BY <1>3, <1>5
  <2>2. OnPath(strings, KeyHash(a), a) /\ KeyHash(a) \in Nat
    BY <2>1, ObjectIs DEF TableRight
  <2>3. OnPath(strings', KeyHash(a), a)
    BY <1>2, <2>1, <2>2
  <2> QED BY <2>1, <2>3 DEF KeyHash
<1>6. ASSUME NEW a \in Addr, NEW b \in Addr, IsString(a)', IsString(b)',
             heap'[a].chars = heap'[b].chars
      PROVE  a = b
  BY <1>3, <1>6 DEF TableRight
<1>7. request' = request
  BY DEF Sweep
<1>8. ASSUME NEW c \in Chars, request' = <<c>>, c # "dict",
             NEW a \in Addr, IsString(a)'
      PROVE  heap'[a].chars # c
  BY <1>3, <1>7, <1>8 DEF TableRight
<1>9. strings'.cap > 0 => EmptySlots(strings') # {}
  BY <1>1, <1>2 DEF TableRight
<1> QED BY <1>1, <1>2, <1>4, <1>5, <1>6, <1>8, <1>9 DEF TableRight

\* A new string is on its path, and the others are on theirs.
LEMMA AllocateInterned ==
    ASSUME Typed, TableRight, Allocate
    PROVE  TableRight'
<1>1. PICK a : Allocated(a) /\ AllocationGoesOn(a)
  BY AllocateFacts
<1>2. \A c \in Chars : request' = <<c>> => c = "dict"
  BY <1>1 DEF AllocationGoesOn
<1>3. a \in Addr /\ ~ IsString(a) /\ \A b \in Addr \ {a} : heap'[b] = heap[b]
  BY <1>1, ObjectIs DEF Allocated, IsString, Free
<1>4. CASE heap'[a] = NewDict /\ strings' = strings
  <2>1. ~ IsString(a)'
    BY <1>4 DEF IsString, NewDict, FreshDict
  <2>2. StringsStay
    BY <1>3, <2>1 DEF StringsStay, IsString
  <2> QED BY <1>2, <1>4, <2>2, TableKept
<1>5. ASSUME NEW c \in Chars, request = <<c>>, c # "dict",
             heap'[a] = [kind |-> "string", chars |-> c],
             InsertedRight(strings, a, Hash[c], strings')
      PROVE  TableRight'
  <2>1. \A b \in Addr : IsString(b) => heap[b].chars # c
    BY <1>5 DEF TableRight
  <2>2. ASSUME NEW b \in Addr
        PROVE  /\ IsString(b)' <=> IsString(b) \/ b = a
               /\ b # a => heap'[b] = heap[b]
    BY <1>3, <1>5 DEF IsString
  <2>3. /\ CountExact(strings') /\ OneSlotEach(strings')
        /\ EmptySlots(strings') # {} /\ OnPath(strings', Hash[c], a)
        /\ \A i \in 0 .. strings'.cap - 1 : strings'.data[i] \in Addr =>
               \/ strings'.data[i] = a
               \/ \E j \in 0 .. strings.cap - 1 :
                      strings'.data[i] = strings.data[j]
        /\ \A j \in 0 .. strings.cap - 1 : strings.data[j] \in Addr =>
               OnPath(strings', KeyHash(strings.data[j]), strings.data[j])
    BY <1>5 DEF InsertedRight
  <2>4. \A i \in 0 .. strings'.cap - 1 : strings'.data[i] \in Addr =>
            IsString(strings.data[i])'
    <3> SUFFICES ASSUME NEW i \in 0 .. strings'.cap - 1,
                        strings'.data[i] \in Addr
                 PROVE  IsString(strings.data[i])'
      OBVIOUS
    <3>1. strings'.data[i] = a \/ IsString(strings'.data[i])
      BY <2>3 DEF TableRight
    <3>2. heap'[strings'.data[i]].kind = "string"
      BY <1>3, <1>5, <3>1 DEF IsString
    <3> QED BY <3>2 DEF IsString
  <2>5. ASSUME NEW b \in Addr, IsString(b)'
        PROVE  OnPath(strings', KeyHash(b)', b)
    <3>1. CASE b = a
      BY <1>5, <2>3, <3>1 DEF KeyHash
    <3>2. CASE b # a
      <4>1. IsString(b) /\ heap'[b] = heap[b]
        BY <2>2, <2>5, <3>2
      <4>2. OnPath(strings, KeyHash(b), b) /\ KeyHash(b) \in Nat
        BY <4>1, ObjectIs DEF TableRight
      <4>3. \E j \in 0 .. strings.cap - 1 : strings.data[j] = b
        BY <4>2, TableFacts, OnPathHeld
      <4>4. OnPath(strings', KeyHash(b), b)
        BY <2>3, <4>3
      <4> QED BY <4>1, <4>4 DEF KeyHash
    <3> QED BY <3>1, <3>2
  <2>6. ASSUME NEW b \in Addr, NEW d \in Addr, IsString(b)', IsString(d)',
               heap'[b].chars = heap'[d].chars
        PROVE  b = d
    <3>1. b = a => heap'[b].chars = c
      BY <1>5
    <3>2. d = a => heap'[d].chars = c
      BY <1>5
    <3>3. b # a => IsString(b) /\ heap'[b] = heap[b] /\ heap[b].chars # c
      BY <2>1, <2>2, <2>6
    <3>4. d # a => IsString(d) /\ heap'[d] = heap[d] /\ heap[d].chars # c
      BY <2>1, <2>2, <2>6
    <3> QED BY <2>6, <3>1, <3>2, <3>3, <3>4 DEF TableRight
  <2> QED BY <1>2, <2>3, <2>4, <2>5, <2>6 DEF TableRight
<1> QED BY <1>1, <1>4, <1>5 DEF Allocated

\* Types and interning, together, are inductive.
LEMMA StringsInductive ==
    ASSUME Typed, TableRight, [Next]_vars
    PROVE  Typed' /\ TableRight'
<1>1. ASSUME UNCHANGED vars PROVE Typed' /\ TableRight'
  <2>1. Typed'
    BY <1>1 DEF vars, Typed
  <2>2. StringsStay /\ strings' = strings /\ request' = request
    BY <1>1 DEF vars, StringsStay, IsString
  <2>3. TableRight'
    BY <2>2, TableKept DEF TableRight
  <2> QED BY <2>1, <2>3
<1>2. ASSUME \/ \E c \in Chars : String(c)
             \/ CreateDict \/ Pop
             \/ \E d, k \in Addr :
                    SetIndex(d, k) \/ GetIndex(d, k) \/ DictPop(d, k)
             \/ \E d \in Addr : Clear(d)
             \/ Await \/ Return
      PROVE  Typed' /\ TableRight'
  BY <1>2, RunsTyped, RunsInterned
<1>3. ASSUME Blacken PROVE Typed' /\ TableRight'
  <2>1. StringsStay /\ strings' = strings /\ request' = request
    BY <1>3 DEF Blacken, StringsStay, IsString
  <2>2. TableRight'
    BY <2>1, TableKept DEF TableRight
  <2> QED BY <1>3, <2>2, CollectsTyped
<1>4. ASSUME Sweep \/ Allocate PROVE Typed' /\ TableRight'
  BY <1>4, CollectsTyped, SweepInterned, AllocateInterned
<1> QED BY <1>1, <1>2, <1>3, <1>4 DEF Next

\* The invariant gives the types.
LEMMA TypeOKHolds ==
    ASSUME Typed, TableRight
    PROVE  TypeOK
<1>1. ASSUME NEW a \in Addr
      PROVE  \/ heap[a] = Free
             \/ IsString(a) /\ heap[a].chars \in Chars
             \/ IsDict(a) /\ DictCorrect(heap[a])
  <2>1. CASE IsDict(a)
    <3>1. /\ heap[a].cap \in Nat /\ heap[a] \in DictsOf(heap[a].cap)
          /\ heap[a].count <= heap[a].cap
      BY <2>1, ObjectIs
    <3>2. /\ heap[a].count \in 0 .. heap[a].cap
          /\ heap[a].entries \in [0 .. heap[a].cap - 1 -> EntryRecords]
      BY <3>1 DEF DictsOf
    <3>3. ASSUME NEW i \in 0 .. heap[a].cap - 1
          PROVE  /\ heap[a].entries[i].key \in Addr \cup {Empty}
                 /\ IsValue(heap[a].entries[i].val)
      <4>1. heap[a].entries[i] \in EntryRecords
        BY <3>2
      <4> QED BY <4>1 DEF EntryRecords, IsValue
    <3> QED BY <2>1, <3>1, <3>2, <3>3 DEF DictCorrect
  <2>2. CASE ~ IsDict(a)
    BY <2>2, ObjectIs
  <2> QED BY <2>1, <2>2
<1>2. TableCorrect(strings)
  BY TableFacts DEF TableCorrect, CountExact
<1>3. \A i \in DOMAIN stack : IsValue(stack[i])
  BY DEF Typed, IsValue, Values
<1>4. Len(saved) < 2
      /\ \A j \in DOMAIN saved : \A i \in DOMAIN saved[j] : IsValue(saved[j][i])
  <2>1. CASE saved = <<>>
    BY <2>1
  <2>2. CASE saved # <<>>
    <3>1. saved = <<saved[1]>> /\ saved[1] \in Seq(Values)
      BY <2>2 DEF Typed
    <3>2. Len(saved) = 1 /\ DOMAIN saved = {1}
      BY <3>1
    <3> QED BY <3>1, <3>2 DEF IsValue, Values
  <2> QED BY <2>1, <2>2
<1>5. \A i \in DOMAIN request : request[i] \in Chars \cup {"dict"}
  <2>1. CASE request = <<>>
    BY <2>1
  <2>2. CASE request \in Requests
    BY <2>2 DEF Requests
  <2> QED BY <2>1, <2>2 DEF Typed
<1>6. /\ pc \in {"run", "mark", "alloc"}
      /\ marked \in SUBSET Addr /\ grey \in SUBSET marked
  BY DEF Typed
<1> QED BY <1>1, <1>2, <1>3, <1>4, <1>5, <1>6 DEF TypeOK

\* The invariant gives the interning: the table finds every live string, and
\* has no other.
LEMMA InternedHolds ==
    ASSUME Typed, TableRight
    PROVE  Interned
<1>1. ASSUME NEW a \in Live, IsString(a)
      PROVE  StringTableFind(strings, heap[a].chars) = a
  <2>1. a \in Addr /\ heap[a].chars \in Chars
    BY <1>1, ObjectIs DEF IsString
  <2>2. OnPath(strings, Hash[heap[a].chars], a)
    BY <1>1, <2>1 DEF TableRight, KeyHash
  <2>3. \A b \in Addr : IsString(b) /\ heap[b].chars = heap[a].chars => b = a
    BY <1>1, <2>1 DEF TableRight
  <2> QED BY <1>1, <2>1, <2>2, <2>3, TableFacts, FindRight
<1>2. ASSUME NEW i \in 0 .. strings.cap - 1
      PROVE  strings.data[i] \in Live \cup {Empty, Gone}
  <2>1. strings.data[i] \in Addr \cup {Empty, Gone}
    BY TableFacts
  <2>2. strings.data[i] \in Addr => IsString(strings.data[i])
    BY DEF TableRight
  <2> QED BY <2>1, <2>2, ObjectIs
<1> QED BY <1>1, <1>2 DEF Interned

\* Initially the table is empty.
LEMMA TableInit == Init => TableRight
<1> SUFFICES ASSUME Init PROVE TableRight
  OBVIOUS
<1>1. /\ CountExact(strings) /\ OneSlotEach(strings) /\ strings.cap = 0
  BY FreshTableIs DEF Init, FreshTable
<1>2. \A a \in Addr : ~ IsString(a)
  BY DEF Init, IsString, Free
<1>3. \A c \in Chars : request # <<c>>
  BY DEF Init
<1> QED BY <1>1, <1>2, <1>3 DEF TableRight

\* Typed and TableRight hold always, whatever the scripts do.
THEOREM StringsRight == Spec => [](Typed /\ TableRight)
<1>1. Init => Typed /\ TableRight
  BY TypedInit, TableInit
<1>2. Typed /\ TableRight /\ [Next]_vars => (Typed /\ TableRight)'
  BY StringsInductive
<1> QED BY <1>1, <1>2, PTL DEF Spec

\* Every variable keeps its type and the table its count, across growth,
\* removal, reuse of addresses and tombstones.
THEOREM TypeCorrect == Spec => []TypeOK
<1>1. Typed /\ TableRight => TypeOK
  BY TypeOKHolds
<1> QED BY <1>1, StringsRight, PTL

\* Two live strings never have the same characters, string_table_find finds
\* each, and the table never keeps one that was freed: comparing addresses
\* compares strings.
THEOREM StringsInterned == Spec => []Interned
<1>1. Typed /\ TableRight => Interned
  BY InternedHolds
<1> QED BY <1>1, StringsRight, PTL

(* ------------------------------- collecting ------------------------------ *)

HeldIsLocals == Held \cap Addr = Locals \cap Addr

\* No object is on a stack that was put aside.
LEMMA HeldLocals == Typed /\ SavedBare => HeldIsLocals
<1> SUFFICES ASSUME Typed, SavedBare PROVE HeldIsLocals
  OBVIOUS
<1>1. CASE saved = <<>>
  <2>1. {stack} \cup {saved[j] : j \in DOMAIN saved} = {stack}
    BY <1>1
  <2> QED BY <2>1 DEF HeldIsLocals, Held, Locals
<1>2. CASE saved # <<>>
  <2>1. saved = <<saved[1]>>
    BY <1>2 DEF Typed
  <2>2. DOMAIN saved = {1}
    BY <2>1
  <2>3. {stack} \cup {saved[j] : j \in DOMAIN saved} = {stack, saved[1]}
    BY <2>2
  <2>4. Held = Locals \cup {saved[1][i] : i \in DOMAIN saved[1]}
    BY <2>3 DEF Held, Locals
  <2>5. \A i \in DOMAIN saved[1] : saved[1][i] \notin Addr
    BY <1>2 DEF SavedBare
  <2> QED BY <2>4, <2>5 DEF HeldIsLocals
<1> QED BY <1>1, <1>2

\* The same after a step.
LEMMA HeldLocalsNext == Typed' /\ SavedBare' => HeldIsLocals'
BY HeldLocals, PTL

\* Nothing dangles when the running script has live objects only and every
\* live object refers to such.
LEMMA NothingDanglesNext ==
    ASSUME Typed', SavedBare',
           \A a \in Addr : a \in Locals' => a \in Live',
           \A a \in Live' : Gets(a)' \subseteq Live'
    PROVE  NothingDangles'
<1>1. HeldIsLocals'
  BY HeldLocalsNext
<1>2. (Held \cap Addr)' \subseteq Live'
  BY <1>1 DEF HeldIsLocals
<1> QED BY <1>2 DEF NothingDangles

\* Between collections there are no marks.
LEMMA MarkingIdle ==
    ASSUME Typed', SavedBare', NothingDangles', pc' # "mark"
    PROVE  MarkingRight'
<1>1. marked' = {}
  BY DEF Typed
<1> QED BY <1>1 DEF MarkingRight, RootsMarked, BlackDone, MarkedNeeded

\* While the heap stays, so does what is live and what refers to what.
LEMMA SameHeap ==
    ASSUME heap' = heap
    PROVE  Live' = Live /\ \A a : Gets(a)' = Gets(a)
BY DEF Live, Gets, IsDict, EntriesOf

\* A dict with new entries of live objects leaves nothing dangling.
LEMMA SameObjects ==
    ASSUME Typed, NothingDangles, NEW d \in Addr, IsDict(d), NEW o, NEW cap,
           o \in DictsOf(cap), heap' = [heap EXCEPT ![d] = o],
           \A e \in EntriesOf(o) :
               \/ e \in EntriesOf(heap[d])
               \/ /\ e.key \in Addr => e.key \in Live
                  /\ e.val \in Addr => e.val \in Live
    PROVE  Live' = Live /\ \A a \in Live : Gets(a)' \subseteq Live
<1>1. o.kind = "dict" /\ o # Free
  BY DEF DictsOf, Free
<1>2. \A a \in Addr : heap'[a] = IF a = d THEN o ELSE heap[a]
  BY DEF Typed
<1>3. d \in Live
  BY ObjectIs
<1>4. Live' = Live
  BY <1>1, <1>2, <1>3 DEF Live
<1>5. Gets(d)' \subseteq Live
  <2> SUFFICES ASSUME NEW v \in Gets(d)' PROVE v \in Live
    OBVIOUS
  <2>1. heap'[d] = o
    BY <1>2
  <2>2. PICK e \in EntriesOf(o) : v \in Addr /\ (v = e.key \/ v = e.val)
    BY <1>1, <2>1 DEF Gets, IsDict
  <2>3. e \in EntriesOf(heap[d]) => v \in Gets(d)
    BY <2>2 DEF Gets
  <2>4. Gets(d) \subseteq Live
    BY <1>3 DEF NothingDangles
  <2> QED BY <2>2, <2>3, <2>4
<1>6. ASSUME NEW a \in Live, a # d
      PROVE  Gets(a)' \subseteq Live
  <2>1. heap'[a] = heap[a] /\ a \in Addr
    BY <1>2, <1>6 DEF Live
  <2>2. Gets(a)' = Gets(a)
    BY <2>1 DEF Gets, IsDict
  <2> QED BY <2>2 DEF NothingDangles
<1> QED BY <1>4, <1>5, <1>6

\* A running script dangles nothing: what it has comes from what it had.
LEMMA RunsMark ==
    ASSUME Typed, TableRight, ~ MainHolds, MarkingRight, Typed',
           \/ Pop
           \/ \E d, k \in Addr : SetIndex(d, k) \/ GetIndex(d, k) \/ DictPop(d, k)
           \/ \E d \in Addr : Clear(d)
           \/ Await \/ Return
    PROVE  MarkingRight'
<1>1. SavedBare /\ NothingDangles /\ HeldIsLocals
  BY HeldLocals DEF MarkingRight
<1>2. \A a \in Addr : a \in Locals => a \in Live
  BY <1>1 DEF HeldIsLocals, NothingDangles
<1>3. \A a \in Live : Gets(a) \subseteq Live
  BY <1>1 DEF NothingDangles
<1>4. stack \in Seq(Values)
  BY DEF Typed
<1>5. ASSUME NEW v, stack' = Append(stack, v)
      PROVE  \A a \in Addr : a \in Locals' => a \in Locals \/ a = v
  BY <1>4, <1>5 DEF Locals
<1>6. pc = "run" /\ pc' = "run"
  BY DEF Pop, SetIndex, GetIndex, DictPop, Clear, Await, Return, Becomes,
         Runs, Entry
<1>7. ASSUME SavedBare', \A a \in Addr : a \in Locals' => a \in Live',
             \A a \in Live' : Gets(a)' \subseteq Live'
      PROVE  MarkingRight'
  BY <1>6, <1>7, NothingDanglesNext, MarkingIdle
<1>8. saved' = saved => SavedBare'
  BY <1>1 DEF SavedBare
<1>9. ASSUME Pop PROVE MarkingRight'
  <2>1. heap' = heap /\ saved' = saved /\ stack # <<>>
        /\ stack' = SubSeq(stack, 1, Len(stack) - 1)
    BY <1>9 DEF Pop, Becomes
  <2>2. \A a \in Addr : a \in Locals' => a \in Locals
    BY <1>4, <2>1 DEF Locals
  <2> QED BY <1>2, <1>3, <1>7, <1>8, <2>1, <2>2, SameHeap
<1>10. ASSUME NEW d \in Addr, NEW k \in Addr, SetIndex(d, k)
       PROVE  MarkingRight'
  <2>1. Entry(d, k) /\ saved' = saved /\ stack' = stack
    BY <1>10 DEF SetIndex, Becomes
  <2>2. PICK v \in Locals : heap' = [heap EXCEPT ![d] = DictSet(heap[d], k, v)]
    BY <1>10 DEF SetIndex
  <2> DEFINE o == DictSet(heap[d], k, v)
  <2>3. Stored(heap[d], k, v, o) /\ IsDict(d) /\ k \in Locals
    BY <2>1, EntryFacts, LocalsTyped, DictSetRight DEF Values
  <2>4. o \in DictsOf(o.cap)
    BY <2>3 DEF Stored
  <2>5. \A e \in EntriesOf(o) :
            \/ e \in EntriesOf(heap[d])
            \/ /\ e.key \in Addr => e.key \in Live
               /\ e.val \in Addr => e.val \in Live
    BY <1>2, <2>3 DEF Stored
  <2> HIDE DEF o
  <2>6. Live' = Live /\ \A a \in Live : Gets(a)' \subseteq Live
    <3>1. heap' = [heap EXCEPT ![d] = o]
      BY <2>2 DEF o
    <3> QED BY <1>1, <2>3, <2>4, <2>5, <3>1, SameObjects
  <2>7. Locals' = Locals
    BY <2>1 DEF Locals
  <2> QED BY <1>2, <1>7, <1>8, <2>1, <2>6, <2>7
<1>11. ASSUME NEW d \in Addr, NEW k \in Addr, GetIndex(d, k)
       PROVE  MarkingRight'
  <2> DEFINE v == DictGet(heap[d], k)
  <2>1. Entry(d, k) /\ heap' = heap /\ saved' = saved
        /\ stack' = Append(stack, v)
    BY <1>11 DEF GetIndex, Becomes
  <2>2. v \in Addr => v \in Gets(d)
    BY <1>11, GotTyped DEF GetIndex
  <2>3. d \in Live
    BY <1>2, <2>1, EntryFacts
  <2> HIDE DEF v
  <2>4. v \in Addr => v \in Live
    BY <1>3, <2>2, <2>3
  <2>5. \A a \in Addr : a \in Locals' => a \in Live
    BY <1>2, <1>5, <2>1, <2>4
  <2> QED BY <1>3, <1>7, <1>8, <2>1, <2>5, SameHeap
<1>12. ASSUME NEW d \in Addr, NEW k \in Addr, DictPop(d, k)
       PROVE  MarkingRight'
  <2> DEFINE g == DictGet(heap[d], k)
             v == IF g = Empty THEN Null ELSE g
             o == DictDelete(heap[d], k)
  <2>1. Entry(d, k) /\ Returns(d, k) /\ saved' = saved
        /\ stack' = Append(stack, v) /\ heap' = [heap EXCEPT ![d] = o]
    BY <1>12 DEF DictPop, Becomes
  <2>2. d \in Live /\ IsDict(d)
    BY <1>2, <2>1, EntryFacts
  <2>3. v \in Addr => v \in Live
    <3>1. g \in Addr => g \in Gets(d)
      BY <2>1, GotTyped
    <3> QED BY <1>3, <2>2, <3>1
  <2>4. o \in DictsOf(heap[d].cap) /\ EntriesOf(o) \subseteq EntriesOf(heap[d])
    BY <2>1, EntryFacts, DictDeleteRight DEF Returns
  <2> HIDE DEF v, o
  <2>5. Live' = Live /\ \A a \in Live : Gets(a)' \subseteq Live
    BY <1>1, <2>1, <2>2, <2>4, SameObjects
  <2>6. \A a \in Addr : a \in Locals' => a \in Live
    BY <1>2, <1>5, <2>1, <2>3
  <2> QED BY <1>7, <1>8, <2>1, <2>5, <2>6
<1>13. ASSUME NEW d \in Addr, Clear(d) PROVE MarkingRight'
  <2> DEFINE o == DictClear(heap[d])
  <2>1. IsDict(d) /\ saved' = saved /\ stack' = stack
        /\ heap' = [heap EXCEPT ![d] = o]
    BY <1>13 DEF Clear, Becomes
  <2>2. o \in DictsOf(heap[d].cap) /\ EntriesOf(o) = {}
    BY <2>1, ObjectIs, DictClearRight
  <2> HIDE DEF o
  <2>3. Live' = Live /\ \A a \in Live : Gets(a)' \subseteq Live
    BY <1>1, <2>1, <2>2, SameObjects
  <2>4. Locals' = Locals
    BY <2>1 DEF Locals
  <2> QED BY <1>2, <1>7, <1>8, <2>1, <2>3, <2>4
<1>14. ASSUME Await PROVE MarkingRight'
  <2>1. Held \cap Addr = {} /\ saved' = <<stack>> /\ stack' = <<>>
        /\ heap' = heap
    BY <1>14 DEF Await
  <2>2. \A i \in DOMAIN stack : stack[i] \notin Addr
    BY <1>1, <2>1 DEF HeldIsLocals, Locals
  <2>3. SavedBare'
    BY <2>1, <2>2 DEF SavedBare
  <2>4. \A a \in Addr : a \notin Locals'
    BY <2>1 DEF Locals
  <2> QED BY <1>3, <1>7, <2>1, <2>3, <2>4, SameHeap
<1>15. ASSUME Return PROVE MarkingRight'
  <2>1. /\ stack' = Append(saved[1], stack[Len(stack)]) /\ saved' = <<>>
        /\ heap' = heap /\ saved # <<>> /\ stack # <<>>
    BY <1>15 DEF Return
  <2>2. saved[1] \in Seq(Values) /\ \A i \in DOMAIN saved[1] : saved[1][i] \notin Addr
    BY <1>1, <2>1 DEF Typed, SavedBare
  <2>3. stack[Len(stack)] \in Locals
    BY <1>4, <2>1 DEF Locals
  <2>4. \A a \in Addr : a \in Locals' => a = stack[Len(stack)]
    BY <2>1, <2>2 DEF Locals
  <2>5. SavedBare'
    BY <2>1 DEF SavedBare
  <2> QED BY <1>2, <1>3, <1>7, <2>1, <2>3, <2>4, <2>5, SameHeap
<1> QED BY <1>9, <1>10, <1>11, <1>12, <1>13, <1>14, <1>15

\* A collection begins with the roots, which are needed.
LEMMA MarkingBegins ==
    ASSUME Typed, Typed', SavedBare', NothingDangles', marked = {},
           stack' = stack, marked' = Locals \cap Addr, grey' = marked'
    PROVE  MarkingRight'
<1>1. Locals' = Locals
  BY DEF Locals
<1>2. MarkedNeeded'
  <2>1. (Held \cap Addr)' = Locals \cap Addr
    BY <1>1, HeldLocalsNext DEF HeldIsLocals
  <2> QED BY <2>1 DEF MarkedNeeded, Enough
<1> QED BY <1>1, <1>2 DEF MarkingRight, RootsMarked, BlackDone

\* To ask for memory changes no object, whether a collection begins or not.
LEMMA AllocatingMarks ==
    ASSUME Typed, MarkingRight, Typed', Runs, NEW what, Allocating(what)
    PROVE  MarkingRight'
<1>1. heap' = heap /\ stack' = stack /\ saved' = saved /\ marked = {}
  BY DEF Allocating, Typed, Runs
<1>2. SavedBare'
  BY <1>1 DEF MarkingRight, SavedBare
<1>3. NothingDangles'
  <2>1. Held' = Held
    BY <1>1 DEF Held
  <2> QED BY <1>1, <2>1, SameHeap DEF MarkingRight, NothingDangles
<1>4. CASE pc' = "alloc"
  BY <1>2, <1>3, <1>4, MarkingIdle
<1>5. CASE /\ pc' = "mark" /\ marked' = marked \cup (Locals \cap Addr)
           /\ grey' = marked' \ marked
  BY <1>1, <1>2, <1>3, <1>5, MarkingBegins
<1> QED BY <1>4, <1>5 DEF Allocating, CollectOrNot

\* To find a string gives a live one.
LEMMA StringMarks ==
    ASSUME Typed, TableRight, MarkingRight, Typed', NEW c \in Chars, String(c)
    PROVE  MarkingRight'
<1> DEFINE s == StringTableFind(strings, c)
<1>1. CASE s # Empty /\ Becomes(Append(stack, s)) /\ UNCHANGED heap
  <2>1. s \in Addr /\ IsString(s)
    BY <1>1, TableFacts, FindGives
  <2>2. heap' = heap /\ saved' = saved /\ stack' = Append(stack, s)
        /\ pc' = "run"
    BY <1>1 DEF Becomes, String, Runs
  <2> HIDE DEF s
  <2>3. SavedBare' /\ HeldIsLocals
    BY <2>2, HeldLocals DEF MarkingRight, SavedBare
  <2>4. \A a \in Addr : a \in Locals' => a \in Live'
    <3>1. s \in Live
      BY <2>1, ObjectIs
    <3>2. stack \in Seq(Values)
      BY DEF Typed
    <3>3. \A a \in Addr : a \in Locals' => a \in Locals \/ a = s
      BY <2>2, <3>2 DEF Locals
    <3> QED BY <2>2, <2>3, <3>1, <3>3, SameHeap
            DEF MarkingRight, NothingDangles, HeldIsLocals
  <2>5. NothingDangles'
    BY <2>2, <2>3, <2>4, SameHeap, NothingDanglesNext
       DEF MarkingRight, NothingDangles
  <2> QED BY <2>2, <2>3, <2>5, MarkingIdle
<1>2. CASE Allocating(<<c>>)
  BY <1>2, AllocatingMarks DEF String
<1> QED BY <1>1, <1>2 DEF String

\* Blackening an object marks what it refers to.
LEMMA BlackenMarks ==
    ASSUME Typed, MarkingRight, Typed', Blacken
    PROVE  MarkingRight'
<1>1. PICK a \in grey : /\ marked' = marked \cup Gets(a)
                        /\ grey' = (grey \ {a}) \cup (Gets(a) \ marked)
  BY ReferencesAreGets DEF Blacken
<1>2. heap' = heap /\ stack' = stack /\ saved' = saved /\ pc' = pc
  BY DEF Blacken
<1>3. Held' = Held /\ Locals' = Locals
  BY <1>2 DEF Held, Locals
<1>4. a \in marked
  BY <1>1 DEF Typed
<1>5. SavedBare' /\ RootsMarked' /\ NothingDangles'
  BY <1>1, <1>2, <1>3, SameHeap
     DEF MarkingRight, SavedBare, RootsMarked, NothingDangles
<1>6. BlackDone'
  <2> SUFFICES ASSUME NEW b \in marked' \ grey' PROVE Gets(b)' \subseteq marked'
    BY DEF BlackDone
  <2>1. b = a \/ b \in marked \ grey
    BY <1>1, <1>4
  <2> QED BY <1>1, <1>2, <2>1, SameHeap DEF MarkingRight, BlackDone
<1>7. MarkedNeeded'
  <2> SUFFICES ASSUME NEW S \in SUBSET Addr, Enough(S)'
               PROVE  marked' \subseteq S
    BY DEF MarkedNeeded
  <2>1. Enough(S)
    BY <1>2, <1>3, SameHeap DEF Enough
  <2>2. marked \subseteq S
    BY <2>1 DEF MarkingRight, MarkedNeeded
  <2> QED BY <1>1, <1>4, <2>1, <2>2 DEF Enough
<1> QED BY <1>5, <1>6, <1>7 DEF MarkingRight

\* When nothing is grey, what is marked is what can be reached.
LEMMA MarkedIsReachable ==
    ASSUME Typed, MarkingRight, pc = "mark", grey = {}
    PROVE  marked = Reachable /\ marked \subseteq Live
<1>1. HeldIsLocals
  BY HeldLocals DEF MarkingRight
<1>2. Enough(marked) /\ marked \in SUBSET Addr
  BY <1>1 DEF MarkingRight, RootsMarked, BlackDone, Enough, HeldIsLocals, Typed
<1>3. marked = Reachable
  BY <1>2, ReachableRight DEF MarkingRight, MarkedNeeded
<1>4. Enough(Live) /\ Live \in SUBSET Addr
  BY DEF MarkingRight, NothingDangles, Enough, Live
<1>5. marked \subseteq Live
  BY <1>4 DEF MarkingRight, MarkedNeeded
<1> QED BY <1>3, <1>5

\* A sweep leaves what was marked, as it was.
LEMMA SweepLeaves ==
    ASSUME Typed, TableRight, MarkingRight, Sweep
    PROVE  /\ Live' = Reachable /\ marked = Reachable
           /\ \A a \in Live' : a \in Live /\ heap'[a] = heap[a]
           /\ \A a \in Live' : Gets(a)' = Gets(a) /\ Gets(a) \subseteq Live'
<1>1. marked = Reachable /\ marked \subseteq Live
  BY MarkedIsReachable DEF Sweep
<1>2. \A a \in Addr : heap'[a] = IF a \in Live \ marked THEN Free ELSE heap[a]
  BY SweepFacts DEF Garbage
<1>3. Live' = marked
  BY <1>1, <1>2 DEF Live
<1>4. \A a \in Live' : a \in Live /\ heap'[a] = heap[a]
  BY <1>1, <1>2, <1>3 DEF Live
<1>5. ASSUME NEW a \in Live'
      PROVE  Gets(a)' = Gets(a) /\ Gets(a) \subseteq Live'
  <2>1. heap'[a] = heap[a]
    BY <1>4
  <2>2. Gets(a)' = Gets(a)
    BY <2>1 DEF Gets, IsDict
  <2>3. Gets(a) \subseteq marked
    BY <1>3 DEF MarkingRight, BlackDone, Sweep
  <2> QED BY <1>3, <2>2, <2>3
<1> QED BY <1>1, <1>3, <1>4, <1>5

\* A sweep dangles nothing.
LEMMA SweepMarks ==
    ASSUME Typed, TableRight, MarkingRight, Typed', Sweep
    PROVE  MarkingRight'
<1>1. stack' = stack /\ saved' = saved /\ pc = "mark" /\ pc' = "alloc"
  BY DEF Sweep
<1>2. SavedBare'
  BY <1>1 DEF MarkingRight, SavedBare
<1>3. \A a \in Addr : a \in Locals' => a \in Live'
  <2>1. Locals' = Locals
    BY <1>1 DEF Locals
  <2> QED BY <1>1, <2>1, SweepLeaves DEF MarkingRight, RootsMarked
<1>4. NothingDangles'
  BY <1>2, <1>3, SweepLeaves, NothingDanglesNext
<1> QED BY <1>1, <1>2, <1>4, MarkingIdle

\* A new object refers to nothing, and nothing to it.
LEMMA AllocateMarks ==
    ASSUME Typed, TableRight, MarkingRight, Typed', Allocate
    PROVE  MarkingRight'
<1>1. PICK a : Allocated(a) /\ AllocationGoesOn(a)
  BY AllocateFacts
<1>2. saved' = saved /\ marked = {} /\ stack \in Seq(Values) /\ HeldIsLocals
  BY <1>1, HeldLocals DEF AllocationGoesOn, Allocate, Typed, MarkingRight
<1>3. SavedBare'
  BY <1>2 DEF MarkingRight, SavedBare
<1>4. Live' = Live \cup {a}
  <2>1. a \in Addr /\ heap'[a] # Free
    BY <1>1 DEF Allocated, NewDict, FreshDict, Free
  <2> QED BY <1>1, <2>1 DEF Allocated, Live
<1>5. Gets(a)' = {}
  <2>1. CASE heap'[a] = NewDict
    <3>1. EntriesOf(NewDict) = {}
      BY DEF NewDict, FreshDict, EntriesOf
    <3> QED BY <2>1, <3>1 DEF Gets
  <2>2. CASE heap'[a].kind = "string"
    BY <2>2 DEF Gets, IsDict
  <2> QED BY <1>1, <2>1, <2>2 DEF Allocated
<1>6. ASSUME NEW b \in Live PROVE Gets(b)' \subseteq Live
  <2>1. heap'[b] = heap[b]
    BY <1>1 DEF Allocated, Live
  <2>2. Gets(b)' = Gets(b)
    BY <2>1 DEF Gets, IsDict
  <2> QED BY <2>2 DEF MarkingRight, NothingDangles
<1>7. \A b \in Addr : b \in Locals' => b \in Live'
  <2>1. \A b \in Addr : b \in Locals => b \in Live
    BY <1>2 DEF MarkingRight, NothingDangles, HeldIsLocals
  <2>2. stack' = stack \/ stack' = Append(stack, a)
    BY <1>1 DEF AllocationGoesOn
  <2>3. \A b \in Addr : b \in Locals' => b \in Locals \/ b = a
    BY <1>2, <2>2 DEF Locals
  <2> QED BY <1>4, <2>1, <2>3
<1>8. NothingDangles'
  BY <1>3, <1>4, <1>5, <1>6, <1>7, NothingDanglesNext
<1>9. CASE pc' # "mark"
  BY <1>3, <1>8, <1>9, MarkingIdle
<1>10. CASE pc' = "mark"
  <2>1. /\ stack' = stack /\ marked' = marked \cup (Locals \cap Addr)
        /\ grey' = marked' \ marked
    BY <1>1, <1>10 DEF AllocationGoesOn
  <2> QED BY <1>2, <1>3, <1>8, <2>1, MarkingBegins
<1> QED BY <1>9, <1>10

\* The marking is inductive.
LEMMA MarkingInductive ==
    ASSUME Typed, TableRight, Typed', ~ MainHolds, MarkingRight, [Next]_vars
    PROVE  MarkingRight'
<1>1. ASSUME UNCHANGED vars PROVE MarkingRight'
  <2>1. /\ heap' = heap /\ stack' = stack /\ saved' = saved
        /\ pc' = pc /\ marked' = marked /\ grey' = grey
    BY <1>1 DEF vars
  <2>2. Held' = Held /\ Locals' = Locals
    BY <2>1 DEF Held, Locals
  <2>3. \A S : Enough(S)' <=> Enough(S)
    BY <2>1, <2>2, SameHeap DEF Enough
  <2> QED BY <2>1, <2>2, <2>3, SameHeap
          DEF MarkingRight, SavedBare, RootsMarked, BlackDone, MarkedNeeded,
              NothingDangles
<1>2. ASSUME NEW c \in Chars, String(c) PROVE MarkingRight'
  BY <1>2, StringMarks
<1>3. ASSUME CreateDict PROVE MarkingRight'
  BY <1>3, AllocatingMarks DEF CreateDict
<1>4. ASSUME \/ Pop
             \/ \E d, k \in Addr :
                    SetIndex(d, k) \/ GetIndex(d, k) \/ DictPop(d, k)
             \/ \E d \in Addr : Clear(d)
             \/ Await \/ Return
      PROVE  MarkingRight'
  BY <1>4, RunsMark
<1>5. ASSUME Blacken \/ Sweep \/ Allocate PROVE MarkingRight'
  BY <1>5, BlackenMarks, SweepMarks, AllocateMarks
<1> QED BY <1>1, <1>2, <1>3, <1>4, <1>5 DEF Next

(* --------------------------------- dicts --------------------------------- *)

DictRight(a) ==
    /\ DictSound(heap[a]) /\ KeysPlaced(heap[a])
    /\ heap[a].count = 0 => EntriesOf(heap[a]) = {}
    /\ \A e \in EntriesOf(heap[a]) : IsString(e.key)

\* While the keys of a dict are strings, their hashes are known.
LEMMA KeysAreHashed ==
    ASSUME Typed, NEW a \in Addr, IsDict(a),
           \A e \in EntriesOf(heap[a]) : IsString(e.key)
    PROVE  KeysHashed(heap[a])
<1> SUFFICES ASSUME NEW i \in 0 .. heap[a].cap - 1,
                    heap[a].entries[i].key # Empty
             PROVE  KeyHash(heap[a].entries[i].key) \in Nat
  BY DEF KeysHashed
<1>1. IsString(heap[a].entries[i].key)
  BY DEF EntriesOf
<1>2. heap[a].entries[i].key \in Addr
  BY <1>1 DEF IsString
<1> QED BY <1>1, <1>2, ObjectIs

\* The keys of o stay in their places while their characters do.
LEMMA KeysStayPlaced ==
    ASSUME NEW o, KeysPlaced(o), NEW a, heap'[a] = o,
           \A e \in EntriesOf(o) : heap'[e.key].chars = heap[e.key].chars
    PROVE  KeysPlaced(heap[a])'
<1>1. ASSUME NEW i \in 0 .. o.cap - 1, o.entries[i].key # Empty
      PROVE  Reaches(o, Hash[heap'[o.entries[i].key].chars], i)
  <2>1. o.entries[i] \in EntriesOf(o)
    BY <1>1 DEF EntriesOf
  <2>2. Hash[heap'[o.entries[i].key].chars] = KeyHash(o.entries[i].key)
    BY <2>1 DEF KeyHash
  <2> QED BY <1>1, <2>2 DEF KeysPlaced
<1>2. ASSUME NEW i \in 0 .. heap'[a].cap - 1, heap'[a].entries[i].key # Empty
      PROVE  Reaches(heap[a], KeyHash(heap[a].entries[i].key), i)'
  <2>1. Reaches(o, Hash[heap'[o.entries[i].key].chars], i)
    BY <1>1, <1>2
  <2> QED BY <2>1 DEF Reaches, KeyHash
<1> QED BY <1>2 DEF KeysPlaced

\* A dict that no step touches stays right while its keys do.
LEMMA DictKept ==
    ASSUME NEW a \in Addr, IsDict(a), DictRight(a), heap'[a] = heap[a],
           \A e \in EntriesOf(heap[a]) : heap'[e.key] = heap[e.key]
    PROVE  DictRight(a)'
<1>1. KeysPlaced(heap[a])'
  <2>1. \A e \in EntriesOf(heap[a]) : heap'[e.key].chars = heap[e.key].chars
    OBVIOUS
  <2>2. PICK o : heap[a] = o
    OBVIOUS
  <2>3. /\ KeysPlaced(o) /\ heap'[a] = o
        /\ \A e \in EntriesOf(o) : heap'[e.key].chars = heap[e.key].chars
    BY <2>1, <2>2 DEF DictRight
  <2> QED BY <2>3, KeysStayPlaced
<1> QED BY <1>1 DEF DictRight, IsString

\* One dict changes, and keeps or takes strings as keys.
LEMMA DictsKept ==
    ASSUME Typed, DictsRight, NEW d \in Addr, IsDict(d), NEW o, NEW cap,
           o \in DictsOf(cap), heap' = [heap EXCEPT ![d] = o], DictSound(o),
           KeysPlaced(o), o.count = 0 => EntriesOf(o) = {},
           \A e \in EntriesOf(o) :
               e \in EntriesOf(heap[d]) \/ IsString(e.key)
    PROVE  DictsRight'
<1>1. \A a \in Addr : heap'[a] = IF a = d THEN o ELSE heap[a]
  BY DEF Typed
<1>2. StringsStay
  BY DictChanged
<1>3. ASSUME NEW a \in Addr, IsDict(a)'
      PROVE  DictRight(a)'
  <2>1. CASE a = d
    <3>1. heap'[a] = o
      BY <1>1, <2>1
    <3>2. ASSUME NEW e \in EntriesOf(o)
          PROVE  IsString(e.key)'
      <4>1. IsString(e.key)
        BY <3>2 DEF DictsRight
      <4>2. e.key \in Addr
        BY <4>1 DEF IsString
      <4> QED BY <1>2, <4>1, <4>2 DEF StringsStay
    <3>3. ASSUME NEW e \in EntriesOf(o)
          PROVE  heap'[e.key].chars = heap[e.key].chars
      <4>1. IsString(e.key)
        BY DEF DictsRight
      <4>2. e.key \in Addr
        BY <4>1 DEF IsString
      <4> QED BY <1>2, <4>1, <4>2 DEF StringsStay
    <3>4. KeysPlaced(heap[a])'
      BY <3>1, <3>3, KeysStayPlaced
    <3> QED BY <3>1, <3>2, <3>4 DEF DictRight
  <2>2. CASE a # d
    <3>1. heap'[a] = heap[a] /\ IsDict(a)
      BY <1>1, <1>3, <2>2 DEF IsDict
    <3>2. DictRight(a)
      BY <3>1 DEF DictsRight, DictRight
    <3>3. ASSUME NEW e \in EntriesOf(heap[a])
          PROVE  heap'[e.key] = heap[e.key]
      <4>1. IsString(e.key)
        BY <3>2 DEF DictRight
      <4>2. e.key \in Addr
        BY <4>1 DEF IsString
      <4> QED BY <1>2, <4>1, <4>2 DEF StringsStay
    <3> QED BY <3>1, <3>2, <3>3, DictKept
  <2> QED BY <2>1, <2>2
<1> QED BY <1>3 DEF DictsRight, DictRight

\* No dict changes: the strings and the dicts that are left are what they were.
LEMMA DictsLeft ==
    ASSUME Typed, DictsRight,
           \A a \in Addr : IsDict(a)' =>
               \/ heap'[a] = NewDict
               \/ /\ heap'[a] = heap[a]
                  /\ \A e \in EntriesOf(heap[a]) : heap'[e.key] = heap[e.key]
    PROVE  DictsRight'
<1> SUFFICES ASSUME NEW a \in Addr, IsDict(a)'
             PROVE  DictRight(a)'
  BY DEF DictsRight, DictRight
<1>1. CASE heap'[a] = NewDict
  <2>1. NewDict.cap = 0 /\ NewDict.count = 0
    BY DEF NewDict, FreshDict
  <2>2. EntriesOf(NewDict) = {} /\ DictSound(NewDict)
    BY <2>1 DEF EntriesOf, DictSound
  <2>3. KeysPlaced(heap[a])'
    BY <1>1, <2>1 DEF KeysPlaced
  <2> QED BY <1>1, <2>2, <2>3 DEF DictRight
<1>2. CASE /\ heap'[a] = heap[a]
           /\ \A e \in EntriesOf(heap[a]) : heap'[e.key] = heap[e.key]
  <2>1. IsDict(a)
    BY <1>2 DEF IsDict
  <2>2. DictRight(a)
    BY <2>1 DEF DictsRight, DictRight
  <2> QED BY <1>2, <2>1, <2>2, DictKept
<1> QED BY <1>1, <1>2

\* Every step leaves every dict with a free slot and strings as keys, unless
\* a script stores into a dict after clear().
LEMMA DictsInductive ==
    ASSUME Typed, TableRight, MarkingRight, DictsRight, MarkingRight',
           ~ MainHolds, ~ Reuses, [Next]_vars
    PROVE  DictsRight'
<1>1. ASSUME heap' = heap PROVE DictsRight'
  <2> SUFFICES ASSUME NEW a \in Addr, IsDict(a)' PROVE DictRight(a)'
    BY DEF DictsRight, DictRight
  <2>1. IsDict(a)
    BY <1>1 DEF IsDict
  <2>2. DictRight(a)
    BY <2>1 DEF DictsRight, DictRight
  <2> QED BY <1>1, <2>1, <2>2, DictKept
<1>2. ASSUME NEW d \in Addr, NEW k \in Addr, SetIndex(d, k) PROVE DictsRight'
  <2>1. Entry(d, k) /\ (heap[d].cap = 0 \/ heap[d].count > 0)
    BY <1>2 DEF SetIndex
  <2>2. PICK v \in Locals : heap' = [heap EXCEPT ![d] = DictSet(heap[d], k, v)]
    BY <1>2 DEF SetIndex
  <2> DEFINE o == DictSet(heap[d], k, v)
  <2>3. /\ Stored(heap[d], k, v, o) /\ IsDict(d) /\ IsString(k)
        /\ KeyHash(k) \in Nat
    BY <2>1, EntryFacts, LocalsTyped, DictSetRight DEF Values
  <2>4. KeysHashed(heap[d]) /\ DictSound(heap[d])
    BY <2>3, KeysAreHashed DEF DictsRight
  <2> HIDE DEF o
  <2>5. /\ DictSound(o) /\ KeysPlaced(o) /\ o.count # 0 /\ o \in DictsOf(o.cap)
        /\ \A e \in EntriesOf(o) :
               e \in EntriesOf(heap[d]) \/ IsString(e.key)
    BY <2>1, <2>3, <2>4 DEF Stored, DictsRight
  <2>6. heap' = [heap EXCEPT ![d] = o]
    BY <2>2 DEF o
  <2> QED BY <2>3, <2>5, <2>6, DictsKept
<1>3. ASSUME NEW d \in Addr, NEW k \in Addr, DictPop(d, k) PROVE DictsRight'
  <2> DEFINE o == DictDelete(heap[d], k)
  <2>1. Entry(d, k) /\ Returns(d, k) /\ heap' = [heap EXCEPT ![d] = o]
    BY <1>3 DEF DictPop
  <2>2. /\ o \in DictsOf(heap[d].cap) /\ o.cap = heap[d].cap
        /\ o.count = heap[d].count /\ FreeSlots(o) = FreeSlots(heap[d])
        /\ EntriesOf(o) \subseteq EntriesOf(heap[d]) /\ IsDict(d)
        /\ KeysPlaced(o)
    <3>1. /\ IsDict(d) /\ IsString(k) /\ KeyHash(k) \in Nat
          /\ heap[d] \in DictsOf(heap[d].cap)
      BY <2>1, EntryFacts
    <3>2. /\ KeysHashed(heap[d]) /\ KeysPlaced(heap[d])
          /\ (heap[d].count = 0 => EntriesOf(heap[d]) = {})
      BY <3>1, KeysAreHashed DEF DictsRight
    <3>3. heap[d].count = 0 \/ ProbingEnds(heap[d], k)
      BY <2>1 DEF Returns
    <3>4. heap[d].cap \in Nat
      BY <3>1, ObjectIs
    <3> QED BY <3>1, <3>2, <3>3, <3>4, DictDeleteRight
  <2> HIDE DEF o
  <2>3. DictSound(o)
    BY <2>2 DEF DictsRight, DictSound, FreeExact
  <2>4. o.count = 0 => EntriesOf(o) = {}
    BY <2>2 DEF DictsRight
  <2> QED BY <2>1, <2>2, <2>3, <2>4, DictsKept
<1>4. ASSUME NEW d \in Addr, Clear(d) PROVE DictsRight'
  <2> DEFINE o == DictClear(heap[d])
  <2>1. IsDict(d) /\ heap' = [heap EXCEPT ![d] = o]
    BY <1>4 DEF Clear
  <2>2. /\ o \in DictsOf(heap[d].cap) /\ o.cap = heap[d].cap
        /\ o.count = 0 /\ EntriesOf(o) = {} /\ KeysPlaced(o)
        /\ FreeSlots(heap[d]) \subseteq FreeSlots(o)
    BY <2>1, ObjectIs, DictClearRight
  <2> HIDE DEF o
  <2>3. DictSound(o)
    BY <2>1, <2>2 DEF DictsRight, DictSound
  <2> QED BY <2>1, <2>2, <2>3, DictsKept
<1>5. ASSUME Sweep PROVE DictsRight'
  <2> SUFFICES ASSUME NEW a \in Addr, IsDict(a)'
               PROVE  /\ heap'[a] = heap[a]
                      /\ \A e \in EntriesOf(heap[a]) :
                             heap'[e.key] = heap[e.key]
    BY DictsLeft
  <2>1. a \in Live'
    BY DEF IsDict, Live, Free
  <2>2. a \in Live /\ heap'[a] = heap[a] /\ Gets(a) \subseteq Live'
    BY <1>5, <2>1, SweepLeaves
  <2>3. IsDict(a)
    BY <2>2 DEF IsDict
  <2>4. ASSUME NEW e \in EntriesOf(heap[a])
        PROVE  heap'[e.key] = heap[e.key]
    <3>1. IsString(e.key)
      BY <2>3 DEF DictsRight
    <3>2. e.key \in Gets(a)
      BY <2>3, <3>1 DEF Gets, IsString
    <3> QED BY <1>5, <2>2, <3>2, SweepLeaves
  <2> QED BY <2>2, <2>4
<1>6. ASSUME Allocate PROVE DictsRight'
  <2>1. PICK a : Allocated(a)
    BY <1>6, AllocateFacts
  <2> SUFFICES ASSUME NEW b \in Addr, IsDict(b)', heap'[b] # NewDict
               PROVE  /\ heap'[b] = heap[b]
                      /\ \A e \in EntriesOf(heap[b]) :
                             heap'[e.key] = heap[e.key]
    BY DictsLeft
  <2>2. b # a /\ heap'[b] = heap[b]
    BY <2>1 DEF Allocated, IsDict
  <2>3. IsDict(b)
    BY <2>2 DEF IsDict
  <2>4. ASSUME NEW e \in EntriesOf(heap[b])
        PROVE  heap'[e.key] = heap[e.key]
    <3>1. IsString(e.key)
      BY <2>3 DEF DictsRight
    <3>2. e.key \in Addr /\ e.key # a
      BY <2>1, <3>1 DEF Allocated, IsString, Free
    <3> QED BY <2>1, <3>2 DEF Allocated
  <2> QED BY <2>2, <2>4
<1>7. ASSUME \/ UNCHANGED vars
             \/ \E c \in Chars : String(c)
             \/ CreateDict \/ Pop \/ Await \/ Return \/ Blacken
             \/ \E d, k \in Addr : GetIndex(d, k)
      PROVE  DictsRight'
  <2>1. heap' = heap
    BY <1>7 DEF vars, String, CreateDict, Allocating, Pop, Await, Return,
                Blacken, GetIndex
  <2> QED BY <1>1, <2>1
<1> QED BY <1>2, <1>3, <1>4, <1>5, <1>6, <1>7 DEF Next

(* -------------------------------- theorems ------------------------------- *)

\* Nothing is marked and nothing held at first.
LEMMA MarkingInit == Init => MarkingRight /\ DictsRight
<1> SUFFICES ASSUME Init PROVE MarkingRight /\ DictsRight
  OBVIOUS
<1>1. \A a \in Addr : ~ IsDict(a)
  BY DEF Init, IsDict, Free
<1>2. Locals = {} /\ saved = <<>> /\ marked = {} /\ grey = {}
  BY DEF Init, Locals
<1>3. SavedBare /\ HeldIsLocals
  BY <1>2, TypedInit, HeldLocals DEF SavedBare
<1>4. NothingDangles
  BY <1>1, <1>2, <1>3 DEF NothingDangles, HeldIsLocals, Live, Gets
<1> QED BY <1>1, <1>2, <1>3, <1>4
        DEF MarkingRight, RootsMarked, BlackDone, MarkedNeeded, DictsRight

\* IInv is an invariant.
THEOREM Inductive == Spec => []IInv
<1>1. Init => IInv
  BY TypedInit, TableInit, MarkingInit DEF IInv
<1>2. IInv /\ [Next]_vars => IInv'
  <2> SUFFICES ASSUME IInv, [Next]_vars PROVE IInv'
    OBVIOUS
  <2>1. Typed' /\ TableRight'
    BY StringsInductive DEF IInv
  <2>2. ~ MainHolds => MarkingRight'
    BY <2>1, MarkingInductive DEF IInv
  <2>3. ~ MainHolds /\ ~ Reuses => DictsRight'
    BY <2>2, DictsInductive DEF IInv
  <2> QED BY <2>1, <2>2, <2>3 DEF IInv
<1> QED BY <1>1, <1>2, PTL DEF Spec

\* The collector frees no object that a script can still get at, whatever
\* moved, was removed or was allocated in between, in a script whose main part
\* awaits with no objects on its stack.
THEOREM NoDangling == ~ MainHolds => (Spec => []NothingDangles)
<1> SUFFICES ASSUME ~ MainHolds PROVE Spec => []NothingDangles
  OBVIOUS
<1>1. IInv => NothingDangles
  BY DEF IInv, MarkingRight
<1> QED BY <1>1, Inductive, PTL

\* And a collection leaves no garbage: what is live after it is what could be
\* reached, cycles and removed entries notwithstanding.
THEOREM CollectsAll == ~ MainHolds => (Spec => AllGarbageGoes)
<1> SUFFICES ASSUME ~ MainHolds PROVE Spec => AllGarbageGoes
  OBVIOUS
<1>1. IInv /\ [Next]_vars =>
          [pc = "mark" /\ pc' = "alloc" => Live' = Reachable]_vars
  <2> SUFFICES ASSUME IInv, Next, pc = "mark", pc' = "alloc"
               PROVE  Live' = Reachable
    OBVIOUS
  <2>1. Sweep
    BY DEF Next, String, CreateDict, Pop, SetIndex, GetIndex, DictPop, Clear,
           Entry, Await, Return, Blacken, Allocate, Runs
  <2> QED BY <2>1, SweepLeaves DEF IInv
<1> QED BY <1>1, Inductive, PTL DEF Spec, AllGarbageGoes

\* A search for what is not there ends, in the intern table always and in
\* every dict of a script that does not store into one after clear().
THEOREM SearchesEnd == ~ MainHolds /\ ~ Reuses => (Spec => []ProbesEnd)
<1> SUFFICES ASSUME ~ MainHolds, ~ Reuses PROVE Spec => []ProbesEnd
  OBVIOUS
<1>1. IInv => ProbesEnd
  <2> SUFFICES ASSUME IInv PROVE ProbesEnd
    OBVIOUS
  <2>1. strings.cap > 0 => EmptySlots(strings) # {}
    BY DEF IInv, TableRight
  <2>2. \A a \in Live : IsDict(a) /\ heap[a].cap > 0 => FreeSlots(heap[a]) # {}
    BY DEF IInv, DictsRight, DictSound, Live
  <2> QED BY <2>1, <2>2 DEF ProbesEnd
<1> QED BY <1>1, Inductive, PTL
=============================================================================
