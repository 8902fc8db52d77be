---------------------------- MODULE QueueLemmas ----------------------------
(***************************************************************************)
(* Facts about queues, counters and rings that the proofs of several       *)
(* components share: what enqueueing and dequeueing do to the set of       *)
(* queued elements, how many of them there are, remainders, and climbing   *)
(* from 0 to a number.                                                     *)
(***************************************************************************)
EXTENDS Integers, Sequences, FiniteSets, SequenceTheorems, FiniteSetTheorems,
        WellFoundedInduction, TLAPS

Entries(q) == {q[i] : i \in DOMAIN q}
Distinct(q) == \A i, j \in DOMAIN q : q[i] = q[j] => i = j

\* What Append does to the set of elements and to their being distinct.
LEMMA AppendEntries ==
    ASSUME NEW S, NEW q \in Seq(S), NEW e \in S
    PROVE  /\ Append(q, e) \in Seq(S)
           /\ Entries(Append(q, e)) = Entries(q) \cup {e}
           /\ Distinct(q) /\ e \notin Entries(q) => Distinct(Append(q, e))
<1> DEFINE r == Append(q, e)
<1>1. /\ r \in Seq(S) /\ DOMAIN r = 1..(Len(q) + 1)
      /\ DOMAIN q = 1..Len(q) /\ Len(q) \in Nat
      /\ r[Len(q) + 1] = e
      /\ \A i \in 1..Len(q) : r[i] = q[i]
  OBVIOUS
<1>2. Entries(r) = Entries(q) \cup {e}
  BY <1>1 DEF Entries
<1>3. ASSUME Distinct(q), e \notin Entries(q)
      PROVE  Distinct(r)
  BY <1>1, <1>3 DEF Distinct, Entries
<1> QED BY <1>1, <1>2, <1>3

\* Removing the head of a queue removes that element only.
LEMMA TailEntries ==
    ASSUME NEW S, NEW q \in Seq(S), q # <<>>
    PROVE  /\ Head(q) \in S
           /\ Head(q) \in Entries(q)
           /\ Tail(q) \in Seq(S)
           /\ Distinct(q) => /\ Distinct(Tail(q))
                             /\ Entries(Tail(q)) = Entries(q) \ {Head(q)}
<1>1. /\ Head(q) = q[1] /\ Len(q) \in Nat \ {0} /\ DOMAIN q = 1..Len(q)
      /\ Tail(q) \in Seq(S)
      /\ DOMAIN Tail(q) = 1..(Len(q) - 1)
      /\ \A i \in 1..(Len(q) - 1) : Tail(q)[i] = q[i + 1]
  OBVIOUS
<1>2. Head(q) \in S /\ Head(q) \in Entries(q)
  BY <1>1 DEF Entries
<1>3. ASSUME Distinct(q)
      PROVE  Distinct(Tail(q)) /\ Entries(Tail(q)) = Entries(q) \ {Head(q)}
  <2>1. Distinct(Tail(q))
    BY <1>1, <1>3 DEF Distinct
  <2>2. \A x \in Entries(Tail(q)) : x \in Entries(q) /\ x # Head(q)
    BY <1>1, <1>3 DEF Distinct, Entries
  <2>3. ASSUME NEW x \in Entries(q), x # Head(q)
        PROVE  x \in Entries(Tail(q))
    <3>1. PICK i \in 1..Len(q) : x = q[i]
      BY <1>1, <2>3 DEF Entries
    <3>2. i # 1 /\ i - 1 \in 1..(Len(q) - 1) /\ Tail(q)[i - 1] = q[i]
      BY <1>1, <2>3, <3>1
    <3> QED BY <1>1, <3>1, <3>2 DEF Entries
  <2> QED BY <2>1, <2>2, <2>3
<1> QED BY <1>1, <1>2, <1>3

\* The first element of a queue.
LEMMA AppendToEmpty == \A e : Append(<<>>, e) = <<e>>
OBVIOUS

\* Overwriting a position keeps a sequence over the same set.
LEMMA ExceptInSeq ==
    ASSUME NEW S, NEW s \in Seq(S), NEW i, NEW e \in S
    PROVE  [s EXCEPT ![i] = e] \in Seq(S)
<1>1. PICK n \in Nat : s \in [1..n -> S]
  BY SeqDef
<1>2. [s EXCEPT ![i] = e] \in [1..n -> S]
  BY <1>1
<1> QED BY <1>2, SeqDef

\* A nonempty finite set of integers has a greatest element: the one with
\* the fewest elements above it.
LEMMA GreatestExists ==
    ASSUME NEW T, IsFiniteSet(T), T \subseteq Int, T # {}
    PROVE  \E i \in T : \A j \in T : j <= i
<1> DEFINE Above(i) == {j \in T : j > i}
           Uppers == {Above(i) : i \in T}
<1>1. \A i \in T : Above(i) \in FiniteSubsetsOf(T)
  <2> TAKE i \in T
  <2>1. Above(i) \in SUBSET T
    OBVIOUS
  <2> HIDE DEF Above
  <2> QED BY <2>1, FS_Subset DEF FiniteSubsetsOf
<1>2. Uppers \subseteq FiniteSubsetsOf(T) /\ Uppers # {}
  BY <1>1
<1>3. PICK A \in Uppers :
          \A B \in Uppers : <<B, A>> \notin StrictSubsetOrdering(T)
  <2> HIDE DEF Uppers
  <2> QED BY <1>2, FS_StrictSubsetOrderingWellFounded, WFMin
<1>4. PICK i \in T : A = Above(i)
  OBVIOUS
<1>5. ASSUME NEW j \in T, j > i
      PROVE  FALSE
  <2>1. \A k \in T : k > j => k > i
    BY <1>5
  <2>2. ~ (j > j)
    BY <1>5
  <2>3. Above(j) \subseteq A /\ j \in A /\ j \notin Above(j)
    BY <1>4, <1>5, <2>1, <2>2
  <2>4. Above(j) \in Uppers /\ Above(j) \in SUBSET T /\ A \in SUBSET T
    BY <1>4
  <2> HIDE DEF Above, Uppers
  <2> QED BY <1>3, <2>3, <2>4 DEF StrictSubsetOrdering
<1> QED BY <1>5

\* A queue of distinct elements is as long as it has elements.
LEMMA EntriesCardinality ==
    ASSUME NEW S, NEW q \in Seq(S), Distinct(q)
    PROVE  IsFiniteSet(Entries(q)) /\ Cardinality(Entries(q)) = Len(q)
<1>1. Len(q) \in Nat /\ DOMAIN q = 1 .. Len(q)
  OBVIOUS
<1> DEFINE f == [i \in 1 .. Len(q) |-> q[i]]
<1>2. f \in Bijection(1 .. Len(q), Entries(q))
  BY <1>1 DEF Bijection, Injection, Surjection, IsInjective, Distinct, Entries
<1>3. ExistsBijection(1 .. Len(q), Entries(q))
  BY <1>2 DEF ExistsBijection
<1>4. IsFiniteSet(1 .. Len(q)) /\ Cardinality(1 .. Len(q)) = Len(q)
  BY <1>1, FS_Interval
<1> QED BY <1>3, <1>4, FS_Bijection

\* The positions of an element: one if it is queued, and else none.
LEMMA PositionsOf ==
    ASSUME NEW S, NEW q \in Seq(S), Distinct(q), NEW e
    PROVE  Cardinality({i \in DOMAIN q : q[i] = e}) =
               IF e \in Entries(q) THEN 1 ELSE 0
<1>1. CASE e \in Entries(q)
  <2>1. PICK i \in DOMAIN q : q[i] = e
    BY <1>1 DEF Entries
  <2>2. {j \in DOMAIN q : q[j] = e} = {i}
    BY <2>1 DEF Distinct
  <2> QED BY <1>1, <2>2, FS_Singleton
<1>2. CASE e \notin Entries(q)
  <2>1. {j \in DOMAIN q : q[j] = e} = {}
    BY <1>2 DEF Entries
  <2> QED BY <1>2, <2>1, FS_EmptySet
<1> QED BY <1>1, <1>2

\* Taking a subset out of a finite set subtracts its size.
LEMMA CardinalityWithout ==
    ASSUME NEW S, IsFiniteSet(S), NEW T \in SUBSET S
    PROVE  /\ IsFiniteSet(S \ T)
           /\ Cardinality(S \ T) = Cardinality(S) - Cardinality(T)
           /\ Cardinality(S \ T) \in Nat
<1>1. IsFiniteSet(T) /\ IsFiniteSet(S \ T)
  BY FS_Subset
<1>2. Cardinality((S \ T) \cup T) =
          Cardinality(S \ T) + Cardinality(T) - Cardinality((S \ T) \cap T)
  BY <1>1, FS_Union
<1>3. (S \ T) \cup T = S /\ (S \ T) \cap T = {}
  OBVIOUS
<1>4. /\ Cardinality(S) \in Nat /\ Cardinality(T) \in Nat
      /\ Cardinality(S \ T) \in Nat
  BY <1>1, FS_CardinalityType
<1>5. Cardinality((S \ T) \cap T) = 0
  BY <1>3, FS_EmptySet
<1>6. Cardinality(S) = Cardinality(S \ T) + Cardinality(T) - 0
  BY <1>2, <1>3, <1>5
<1> QED BY <1>1, <1>4, <1>6

\* A finite set that is not empty has at least one element.
LEMMA CardinalityPositive ==
    ASSUME NEW S, IsFiniteSet(S), S # {}
    PROVE  Cardinality(S) \in Nat \ {0}
BY FS_CardinalityType, FS_EmptySet

\* A nonempty set of natural numbers has a least element.
LEMMA SmallestExists ==
    ASSUME NEW T \in SUBSET Nat, T # {}
    PROVE  \E n \in T : \A m \in T : n <= m
<1> DEFINE R == OpToRel(<, Nat)
<1>1. IsWellFoundedOn(R, Nat)
  BY NatLessThanWellFounded
<1>2. PICK n \in T : \A m \in T : ~ (<<m, n>> \in R)
  <2> HIDE DEF R
  <2> QED BY <1>1, WFMin
<1>3. \A m \in T : m < n => <<m, n>> \in R
  BY DEF OpToRel
<1>4. \A m \in T : ~ (m < n)
  <2> HIDE DEF R
  <2> QED BY <1>2, <1>3
<1>5. \A m \in T : n <= m
  BY <1>4
<1> QED BY <1>5

\* A set that contains 0 and with every number the next one contains all.
LEMMA UpTo ==
    ASSUME NEW N \in Nat, NEW T, 0 \in T,
           \A n \in 0 .. N - 1 : n \in T => n + 1 \in T
    PROVE  \A n \in 0 .. N : n \in T
<1> DEFINE Out == {n \in 0 .. N : n \notin T}
<1>1. ASSUME Out # {} PROVE FALSE
  <2>1. Out \in SUBSET Nat
    OBVIOUS
  <2>2. PICK n \in Out : \A m \in Out : n <= m
    <3> HIDE DEF Out
    <3> QED BY <1>1, <2>1, SmallestExists
  <2>3. n # 0 /\ n - 1 \in 0 .. N - 1 /\ n - 1 \in T
    BY <2>2
  <2>4. n - 1 + 1 \in T
    BY <2>3
  <2> QED BY <2>2, <2>4
<1> QED BY <1>1

\* Division with remainder.
LEMMA DivMod ==
    ASSUME NEW h \in Nat, NEW c \in Nat \ {0}
    PROVE  /\ h % c \in 0 .. c - 1
           /\ h \div c \in Nat
           /\ h = (h \div c) * c + (h % c)
<1>1. h % c \in 0 .. c - 1
  OBVIOUS
<1>2. h \div c \in Nat
  OBVIOUS
<1>3. h = c * (h \div c) + (h % c)
  OBVIOUS
<1>4. c * (h \div c) = (h \div c) * c
  BY <1>2
<1> QED BY <1>1, <1>2, <1>3, <1>4

\* The remainder is the only one.
LEMMA ModUnique ==
    ASSUME NEW q \in Nat, NEW c \in Nat \ {0}, NEW r \in 0 .. c - 1
    PROVE  (q * c + r) % c = r
OBVIOUS
=============================================================================
