---------------------------- MODULE LexerProofs ----------------------------
(***************************************************************************)
(* Theorems about Lexer, for every text and every size of the stack of     *)
(* levels and of the ring of pending tokens.  The ring has no test for     *)
(* being full: the texts are those whose lines start in no more different  *)
(* columns, with column 0, than the ring has slots.  They never have more  *)
(* levels open than that, the outermost included.                          *)
(***************************************************************************)
EXTENDS Lexer, QueueLemmas

USE LexerAssumption

(* ---------------------------------- texts --------------------------------- *)

\* The tokens of a line are not those that the lexer makes of its column.
IsText(src) ==
    /\ Len(src.lines) \in Nat
    /\ \A n \in 1 .. Len(src.lines) :
           /\ src.lines[n].cols \in Nat /\ Len(src.lines[n].toks) \in Nat
           /\ \A p \in 1 .. Len(src.lines[n].toks) :
                  src.lines[n].toks[p].k \notin {"indent", "dedent"}

\* The columns in which lines with tokens start, and column 0.
Columns(src) ==
    {0} \cup {src.lines[n].cols :
                 n \in {m \in 1 .. Len(src.lines) : src.lines[m].toks # <<>>}}
Shallow(src) == Cardinality(Columns(src)) <= PendingSlots

\* What the lexer may return.
TokensOf(src) ==
    {Word(k) : k \in {"indent", "dedent", "newline", "eof", "error"}}
    \cup UNION {{src.lines[n].toks[p] : p \in 1 .. Len(src.lines[n].toks)} :
                   n \in 1 .. Len(src.lines)}

(* ---------------------------------- counts -------------------------------- *)

Got(k, s) == {i \in DOMAIN s : s[i].k = k}

\* A token more is one more of its kind.
LEMMA GotOneMore ==
    ASSUME NEW S, NEW s \in Seq(S), NEW t \in S, NEW k
    PROVE  /\ Cardinality(Got(k, s)) \in Nat
           /\ Cardinality(Got(k, Append(s, t))) =
                  Cardinality(Got(k, s)) + (IF t.k = k THEN 1 ELSE 0)
<1> DEFINE n == Len(s)
           r == Append(s, t)
<1>1. /\ n \in Nat /\ DOMAIN s = 1 .. n /\ DOMAIN r = 1 .. n + 1
      /\ r[n + 1] = t /\ \A i \in 1 .. n : r[i] = s[i]
  OBVIOUS
<1> HIDE DEF n, r
<1>2. IsFiniteSet(Got(k, s)) /\ Cardinality(Got(k, s)) \in Nat
  <2>1. IsFiniteSet(1 .. n)
    BY <1>1, FS_Interval
  <2>2. Got(k, s) \in SUBSET (1 .. n)
    BY <1>1 DEF Got
  <2>3. IsFiniteSet(Got(k, s))
    BY <2>1, <2>2, FS_Subset
  <2> QED BY <2>3, FS_CardinalityType
<1>3. CASE t.k = k
  <2>1. Got(k, r) = Got(k, s) \cup {n + 1} /\ n + 1 \notin Got(k, s)
    BY <1>1, <1>3 DEF Got
  <2> QED BY <1>2, <1>3, <2>1, FS_AddElement DEF r
<1>4. CASE t.k # k
  <2>1. Got(k, r) = Got(k, s)
    BY <1>1, <1>4 DEF Got
  <2> QED BY <1>2, <1>4, <2>1 DEF r
<1> QED BY <1>3, <1>4, <1>2

(* ----------------------------------- ring --------------------------------- *)

\* A Lexer struct over some columns.
LexersOf(C) ==
    [line : Nat \ {0}, pos : Nat \ {0}, atLineStart : BOOLEAN, indents : Seq(C),
     pending : [0 .. PendingSlots - 1 -> {Word("none"), Word("dedent"), Word("eof")}],
     head : 0 .. PendingSlots - 1, count : 0 .. PendingSlots]

\* The slot of the n-th pending token, and the pending DEDENTs.
SlotOf(l, n) == (l.head + n) % PendingSlots
Waiting(l) == {n \in 0 .. l.count - 1 : l.pending[SlotOf(l, n)].k = "dedent"}
RingRight(l) ==
    \A n \in 0 .. l.count - 1 : l.pending[SlotOf(l, n)] \in {Word("dedent"), Word("eof")}

\* The slots go round once.
LEMMA RoundOnce ==
    ASSUME NEW h \in 0 .. PendingSlots - 1, NEW n \in 0 .. PendingSlots
    PROVE  (h + n) % PendingSlots =
               IF h + n < PendingSlots THEN h + n ELSE h + n - PendingSlots
<1> DEFINE P == PendingSlots
<1>1. CASE h + n < P
  <2>1. (0 * P + (h + n)) % P = h + n
    BY <1>1, ModUnique
  <2>2. 0 * P + (h + n) = h + n
    OBVIOUS
  <2> QED BY <1>1, <2>1, <2>2
<1>2. CASE h + n >= P
  <2>1. h + n - P \in 0 .. P - 1
    BY <1>2
  <2>2. (1 * P + (h + n - P)) % P = h + n - P
    BY <2>1, ModUnique
  <2>3. 1 * P + (h + n - P) = h + n
    BY <1>2
  <2> QED BY <1>2, <2>2, <2>3
<1> QED BY <1>1, <1>2

\* Two of as many steps as there are slots do not meet.
LEMMA SlotsApart ==
    ASSUME NEW C, NEW l \in LexersOf(C),
           NEW m \in 0 .. PendingSlots - 1, NEW n \in 0 .. PendingSlots - 1
    PROVE  /\ SlotOf(l, m) \in 0 .. PendingSlots - 1
           /\ SlotOf(l, m) = SlotOf(l, n) => m = n
<1>1. l.head \in 0 .. PendingSlots - 1
  BY DEF LexersOf
<1>2. PICK h \in 0 .. PendingSlots - 1 : h = l.head
  BY <1>1
<1>3. /\ (h + m) % PendingSlots =
             IF h + m < PendingSlots THEN h + m ELSE h + m - PendingSlots
      /\ (h + n) % PendingSlots =
             IF h + n < PendingSlots THEN h + n ELSE h + n - PendingSlots
  BY RoundOnce
<1> QED BY <1>2, <1>3 DEF SlotOf

\* The DEDENTs are no more than the tokens.
LEMMA WaitingCounted ==
    ASSUME NEW C, NEW l \in LexersOf(C)
    PROVE  IsFiniteSet(Waiting(l)) /\ Cardinality(Waiting(l)) \in Nat
<1>1. l.count \in Nat
  BY DEF LexersOf
<1>2. IsFiniteSet(0 .. l.count - 1)
  BY <1>1, FS_Interval
<1>3. Waiting(l) \in SUBSET (0 .. l.count - 1)
  BY DEF Waiting
<1>4. IsFiniteSet(Waiting(l))
  BY <1>2, <1>3, FS_Subset
<1> QED BY <1>4, FS_CardinalityType

\* What the token that is popped leaves.
LEMMA PopRight ==
    ASSUME NEW C, NEW l \in LexersOf(C), RingRight(l), l.count > 0,
           NEW t, t = l.pending[l.head], NEW u, u = PopPending(l)
    PROVE  /\ u \in LexersOf(C) /\ RingRight(u) /\ u.indents = l.indents
           /\ u.count = l.count - 1 /\ t \in {Word("dedent"), Word("eof")}
           /\ Cardinality(Waiting(l)) =
                  Cardinality(Waiting(u)) + (IF t.k = "dedent" THEN 1 ELSE 0)
<1> DEFINE P == PendingSlots
<1>1. /\ l.head \in 0 .. P - 1 /\ l.count \in 1 .. P
      /\ u = [l EXCEPT !.head = (l.head + 1) % P, !.count = l.count - 1]
  BY DEF LexersOf, PopPending
<1>2. /\ u.head = (l.head + 1) % P /\ u.count = l.count - 1
      /\ u.pending = l.pending /\ u.indents = l.indents
  BY <1>1 DEF LexersOf
<1>3. u \in LexersOf(C)
  <2>1. (l.head + 1) % P \in 0 .. P - 1 /\ l.count - 1 \in 0 .. P
    <3>1. PICK h \in 0 .. P - 1 : h = l.head
      BY <1>1
    <3>2. 1 \in 0 .. P /\ P \in Nat
      OBVIOUS
    <3>3. (h + 1) % P = IF h + 1 < P THEN h + 1 ELSE h + 1 - P
      BY <3>2, RoundOnce
    <3> QED BY <1>1, <3>1, <3>2, <3>3
  <2> QED BY <1>1, <2>1 DEF LexersOf
<1>4. ASSUME NEW n \in 0 .. u.count - 1
      PROVE  n + 1 \in 1 .. l.count - 1 /\ SlotOf(u, n) = SlotOf(l, n + 1)
  <2>1. PICK h, g : h = l.head /\ g = u.head
    OBVIOUS
  <2>2. h \in 0 .. P - 1 /\ g \in 0 .. P - 1 /\ 1 \in 0 .. P
        /\ n \in 0 .. P /\ n + 1 \in 0 .. P
    <3>1. h \in 0 .. P - 1 /\ g \in 0 .. P - 1
      BY <1>1, <1>3, <2>1 DEF LexersOf
    <3>2. l.count - 1 \in 0 .. P - 1 /\ u.count = l.count - 1
      BY <1>1, <1>2
    <3> QED BY <3>1, <3>2
  <2>3. /\ (h + 1) % P = IF h + 1 < P THEN h + 1 ELSE h + 1 - P
        /\ (g + n) % P = IF g + n < P THEN g + n ELSE g + n - P
        /\ (h + (n + 1)) % P =
               IF h + (n + 1) < P THEN h + (n + 1) ELSE h + (n + 1) - P
    BY <2>2, RoundOnce
  <2>4. (g + n) % P = (h + (n + 1)) % P
    BY <1>1, <1>2, <2>1, <2>2, <2>3
  <2> QED BY <1>1, <1>2, <2>1, <2>4 DEF SlotOf
<1>5. 0 \in 0 .. l.count - 1 /\ SlotOf(l, 0) = l.head
  <2>1. PICK h \in 0 .. P - 1 : h = l.head
    BY <1>1
  <2>2. (h + 0) % P = h
    <3>1. 0 \in 0 .. P /\ h + 0 = h /\ h < P
      OBVIOUS
    <3>2. (h + 0) % P = IF h + 0 < P THEN h + 0 ELSE h + 0 - P
      BY <3>1, RoundOnce
    <3> QED BY <3>1, <3>2
  <2> QED BY <1>1, <2>1, <2>2 DEF SlotOf
<1>6. t \in {Word("dedent"), Word("eof")}
  BY <1>5 DEF RingRight
<1>7. RingRight(u)
  BY <1>1, <1>2, <1>4 DEF RingRight
<1>8. Waiting(l) \ {0} = {n + 1 : n \in Waiting(u)}
  <2>1. ASSUME NEW n \in Waiting(u) PROVE n + 1 \in Waiting(l) \ {0}
    <3>1. n \in 0 .. u.count - 1 /\ u.pending[SlotOf(u, n)].k = "dedent"
      BY DEF Waiting
    <3>2. n + 1 \in 1 .. l.count - 1 /\ l.pending[SlotOf(l, n + 1)].k = "dedent"
      BY <1>2, <1>4, <3>1
    <3> QED BY <1>1, <3>2 DEF Waiting
  <2>2. ASSUME NEW m \in Waiting(l), m # 0
        PROVE  \E n \in Waiting(u) : m = n + 1
    <3>1. m \in 1 .. l.count - 1 /\ l.pending[SlotOf(l, m)].k = "dedent"
      BY <1>1, <2>2 DEF Waiting
    <3>2. PICK n : n = m - 1
      OBVIOUS
    <3>3. n \in 0 .. u.count - 1 /\ m = n + 1
      BY <1>1, <1>2, <3>1, <3>2
    <3>4. u.pending[SlotOf(u, n)].k = "dedent"
      BY <1>2, <1>4, <3>1, <3>3
    <3> QED BY <3>3, <3>4 DEF Waiting
  <2> QED BY <2>1, <2>2
<1>9. Cardinality(Waiting(l) \ {0}) = Cardinality(Waiting(u))
  <2> DEFINE f == [n \in Waiting(u) |-> n + 1]
  <2>1. Waiting(u) \subseteq Nat
    BY <1>1, <1>2 DEF Waiting
  <2>2. f \in Bijection(Waiting(u), Waiting(l) \ {0})
    BY <1>8, <2>1 DEF Bijection, Injection, Surjection, IsInjective
  <2>3. ExistsBijection(Waiting(u), Waiting(l) \ {0})
    BY <2>2 DEF ExistsBijection
  <2>4. IsFiniteSet(Waiting(u))
    BY <1>3, WaitingCounted
  <2> QED BY <2>3, <2>4, FS_Bijection
<1>10. IsFiniteSet(Waiting(l)) /\ IsFiniteSet(Waiting(u))
       /\ Cardinality(Waiting(l)) \in Nat /\ Cardinality(Waiting(u)) \in Nat
  BY <1>3, WaitingCounted
<1>11. CASE t.k = "dedent"
  <2>1. 0 \in Waiting(l)
    BY <1>5, <1>11 DEF Waiting
  <2>2. Cardinality(Waiting(l) \ {0}) = Cardinality(Waiting(l)) - 1
    BY <1>10, <2>1, FS_RemoveElement
  <2> QED BY <1>2, <1>3, <1>6, <1>7, <1>9, <1>10, <1>11, <2>2
<1>12. CASE t.k # "dedent"
  <2>1. 0 \notin Waiting(l)
    BY <1>5, <1>12 DEF Waiting
  <2>2. Waiting(l) \ {0} = Waiting(l)
    BY <2>1
  <2>3. Cardinality(Waiting(l)) = Cardinality(Waiting(u)) + 0
    BY <1>9, <1>10, <2>2
  <2> QED BY <1>2, <1>3, <1>6, <1>7, <1>12, <2>3
<1> QED BY <1>11, <1>12

\* As many DEDENTs as there is room for, in an empty ring.
LEMMA PushTimesRight ==
    ASSUME NEW C, NEW l \in LexersOf(C), l.count = 0,
           NEW n \in 0 .. PendingSlots, NEW u, u = PushTimes(l, Word("dedent"), n)
    PROVE  /\ u \in LexersOf(C) /\ RingRight(u) /\ u.indents = l.indents
           /\ u.count = n /\ Cardinality(Waiting(u)) = n
<1> DEFINE P == PendingSlots
           ring == [s \in 0 .. P - 1 |->
                       IF \E m \in 0 .. n - 1 : s = (l.head + l.count + m) % P
                       THEN Word("dedent") ELSE l.pending[s]]
<1>1. l.head \in 0 .. P - 1 /\ l.count = 0
      /\ u = [l EXCEPT !.pending = ring, !.count = n]
  BY DEF LexersOf, PushTimes
<1>2. ring \in [0 .. P - 1 -> {Word("none"), Word("dedent"), Word("eof")}]
  BY DEF LexersOf
<1>3. /\ u.pending = ring /\ u.count = n /\ u.head = l.head
      /\ u.indents = l.indents /\ u \in LexersOf(C)
  <2> HIDE DEF ring
  <2> QED BY <1>1, <1>2 DEF LexersOf
<1>4. ASSUME NEW m \in 0 .. n - 1
      PROVE  u.pending[SlotOf(u, m)] = Word("dedent")
  <2>1. SlotOf(u, m) \in 0 .. P - 1
    BY <1>3, SlotsApart
  <2>2. SlotOf(u, m) = (l.head + l.count + m) % P
    <3>1. l.head + l.count + m = u.head + m
      BY <1>1, <1>3
    <3> QED BY <3>1 DEF SlotOf
  <2> QED BY <1>3, <2>1, <2>2
<1> HIDE DEF ring
<1>5. Waiting(u) = 0 .. n - 1
  <2>1. Word("dedent").k = "dedent"
    BY DEF Word
  <2> QED BY <1>3, <1>4, <2>1 DEF Waiting
<1>6. Cardinality(0 .. n - 1) = n
  BY FS_Interval
<1>7. RingRight(u)
  BY <1>3, <1>4 DEF RingRight
<1> QED BY <1>3, <1>5, <1>6, <1>7

\* The end of the text is one token more and no DEDENT.
LEMMA PushEofRight ==
    ASSUME NEW C, NEW l \in LexersOf(C), RingRight(l), l.count < PendingSlots,
           NEW u, u = PushPending(l, Word("eof"))
    PROVE  /\ u \in LexersOf(C) /\ RingRight(u) /\ u.indents = l.indents
           /\ u.count = l.count + 1 /\ Waiting(u) = Waiting(l)
<1> DEFINE P == PendingSlots
           i == SlotOf(l, l.count)
<1>1. /\ l.head \in 0 .. P - 1 /\ l.count \in 0 .. P - 1 /\ i \in 0 .. P - 1
      /\ u = [l EXCEPT !.pending = [l.pending EXCEPT ![i] = Word("eof")],
                       !.count = l.count + 1]
  <2>1. l.head \in 0 .. P - 1 /\ l.count \in 0 .. P - 1
    BY DEF LexersOf
  <2>2. i \in 0 .. P - 1
    BY <2>1, SlotsApart
  <2>3. u = [l EXCEPT !.pending = [l.pending EXCEPT ![i] = Word("eof")],
                      !.count = l.count + 1]
    BY DEF PushPending, SlotOf, LexersOf
  <2> QED BY <2>1, <2>2, <2>3
<1> HIDE DEF i
<1>2. /\ u.pending = [l.pending EXCEPT ![i] = Word("eof")]
      /\ u.count = l.count + 1 /\ u.head = l.head /\ u.indents = l.indents
      /\ u \in LexersOf(C)
  <2>1. l.count + 1 \in 0 .. P
    BY <1>1
  <2>2. PICK ring : ring = [l.pending EXCEPT ![i] = Word("eof")]
    OBVIOUS
  <2>3. ring \in [0 .. P - 1 -> {Word("none"), Word("dedent"), Word("eof")}]
    BY <2>2 DEF LexersOf
  <2>4. u = [l EXCEPT !.pending = ring, !.count = l.count + 1]
    BY <1>1, <2>2
  <2> QED BY <2>1, <2>2, <2>3, <2>4 DEF LexersOf
<1>3. l.pending = [s \in 0 .. P - 1 |-> l.pending[s]]
  BY DEF LexersOf
<1>4. u.pending[SlotOf(u, l.count)] = Word("eof")
  BY <1>1, <1>2, <1>3 DEF SlotOf, i
<1>5. ASSUME NEW n \in 0 .. l.count - 1
      PROVE  u.pending[SlotOf(u, n)] = l.pending[SlotOf(l, n)]
  <2>1. n \in 0 .. P - 1 /\ n # l.count
    BY <1>1
  <2>2. SlotOf(l, n) \in 0 .. P - 1 /\ SlotOf(l, n) # i
    BY <1>1, <2>1, SlotsApart DEF i
  <2>3. SlotOf(u, n) = SlotOf(l, n)
    BY <1>2 DEF SlotOf
  <2> QED BY <1>2, <1>3, <2>2, <2>3
<1>6. \A n \in 0 .. u.count - 1 : n \in 0 .. l.count - 1 \/ n = l.count
  BY <1>1, <1>2
<1>7. RingRight(u)
  BY <1>4, <1>5, <1>6 DEF RingRight
<1>8. Waiting(u) = Waiting(l)
  <2>1. Word("eof").k # "dedent"
    BY DEF Word
  <2>2. \A n \in 0 .. l.count - 1 : n \in 0 .. u.count - 1
    BY <1>1, <1>2
  <2> QED BY <1>4, <1>5, <1>6, <2>1, <2>2 DEF Waiting
<1> QED BY <1>2, <1>7, <1>8

(* ---------------------------------- levels -------------------------------- *)

LevelsRight(s) ==
    /\ Len(s) > 0 /\ s[1] = 0
    /\ \A i, j \in 1 .. Len(s) : i < j => s[i] < s[j]

\* Columns are finitely many natural numbers.
LEMMA ColumnsFinite ==
    ASSUME NEW src, IsText(src)
    PROVE  IsFiniteSet(Columns(src)) /\ Columns(src) \subseteq Nat
<1> DEFINE D == {m \in 1 .. Len(src.lines) : src.lines[m].toks # <<>>}
           f == [n \in D |-> src.lines[n].cols]
<1>1. IsFiniteSet(D)
  <2>1. IsFiniteSet(1 .. Len(src.lines))
    BY FS_Interval DEF IsText
  <2> QED BY <2>1, FS_Subset
<1>2. Columns(src) = {0} \cup {f[n] : n \in D} /\ {f[n] : n \in D} \subseteq Nat
  BY DEF Columns, IsText
<1> HIDE DEF D
<1>3. IsFiniteSet({f[n] : n \in D})
  <2>1. f \in Surjection(D, {f[n] : n \in D})
    BY DEF Surjection
  <2> QED BY <1>1, <2>1, FS_Surjection
<1> HIDE DEF f
<1>4. IsFiniteSet({f[n] : n \in D} \cup {0})
  BY <1>3, FS_AddElement
<1>5. Columns(src) = {f[n] : n \in D} \cup {0}
  BY <1>2
<1> QED BY <1>2, <1>4, <1>5

\* Levels that grow are different columns, so there are no more of them.
LEMMA LevelsFit ==
    ASSUME NEW src, IsText(src), Shallow(src),
           NEW s \in Seq(Columns(src)), LevelsRight(s)
    PROVE  Len(s) \in 1 .. PendingSlots
<1> DEFINE C == Columns(src)
<1>1. IsFiniteSet(C) /\ C \subseteq Nat /\ Cardinality(C) <= PendingSlots
  BY ColumnsFinite DEF Shallow
<1> HIDE DEF C
<1>2. s \in Seq(C) /\ Len(s) \in Nat /\ DOMAIN s = 1 .. Len(s)
      /\ \A i \in 1 .. Len(s) : s[i] \in C
  BY DEF C
<1>3. Distinct(s)
  <2> SUFFICES ASSUME NEW i \in 1 .. Len(s), NEW j \in 1 .. Len(s), s[i] = s[j]
               PROVE  i = j
    BY <1>2 DEF Distinct
  <2>1. s[i] \in Nat /\ s[j] \in Nat
    BY <1>1, <1>2
  <2>2. (i < j => s[i] < s[j]) /\ (j < i => s[j] < s[i])
    BY DEF LevelsRight
  <2> QED BY <1>2, <2>1, <2>2
<1>4. Cardinality(Entries(s)) = Len(s)
  BY <1>2, <1>3, EntriesCardinality
<1>5. Entries(s) \in SUBSET C
  BY <1>2 DEF Entries
<1>6. Cardinality(Entries(s)) <= Cardinality(C) /\ Cardinality(C) \in Nat
  BY <1>1, <1>5, FS_Subset, FS_CardinalityType
<1> QED BY <1>1, <1>2, <1>4, <1>6 DEF LevelsRight

\* A deeper level.
LEMMA LevelOpens ==
    ASSUME NEW C \in SUBSET Nat, NEW s \in Seq(C), LevelsRight(s),
           NEW c \in C, c > s[Len(s)], NEW r, r = Append(s, c)
    PROVE  r \in Seq(C) /\ LevelsRight(r) /\ Len(r) = Len(s) + 1
<1> DEFINE n == Len(s)
<1>1. /\ n \in Nat \ {0} /\ \A i \in 1 .. n : s[i] \in C
      /\ r \in Seq(C) /\ Len(r) = n + 1 /\ r[n + 1] = c
      /\ \A i \in 1 .. n : r[i] = s[i]
  BY DEF LevelsRight
<1> HIDE DEF n
<1>2. \A i, j \in 1 .. n : i < j => s[i] < s[j]
  BY DEF LevelsRight, n
<1>3. ASSUME NEW i \in 1 .. n PROVE s[i] <= s[n]
  <2>1. n \in 1 .. n
    BY <1>1
  <2>2. s[i] \in C /\ s[n] \in C
    BY <1>1, <2>1
  <2>3. s[i] \in Nat /\ s[n] \in Nat
    BY <2>2
  <2>4. i # n => i < n
    BY <1>1
  <2> QED BY <1>2, <2>1, <2>3, <2>4
<1>4. ASSUME NEW i \in 1 .. n + 1, NEW j \in 1 .. n + 1, i < j
      PROVE  r[i] < r[j]
  <2>1. i \in 1 .. n
    BY <1>1, <1>4
  <2>2. CASE j = n + 1
    <3>1. s[i] <= s[n] /\ s[i] \in Nat /\ s[n] \in Nat /\ c \in Nat /\ c > s[n]
      <4>1. n \in 1 .. n
        BY <1>1
      <4> QED BY <1>1, <1>3, <2>1, <4>1 DEF n
    <3> QED BY <1>1, <2>1, <2>2, <3>1
  <2>3. CASE j # n + 1
    <3>1. j \in 1 .. n
      BY <1>1, <2>3
    <3> QED BY <1>1, <1>2, <1>4, <2>1, <3>1
  <2> QED BY <2>2, <2>3
<1>5. r[1] = 0 /\ Len(r) > 0
  BY <1>1 DEF LevelsRight
<1> QED BY <1>1, <1>4, <1>5 DEF LevelsRight, n

\* Levels close from the inside.
LEMMA LevelsClose ==
    ASSUME NEW C, NEW s \in Seq(C), LevelsRight(s),
           NEW n \in 1 .. Len(s), NEW r, r = SubSeq(s, 1, n)
    PROVE  r \in Seq(C) /\ LevelsRight(r) /\ Len(r) = n
<1>1. /\ r \in Seq(C) /\ Len(r) = n /\ n \in Nat \ {0}
      /\ \A i \in 1 .. n : r[i] = s[i] /\ i \in 1 .. Len(s)
  OBVIOUS
<1> QED BY <1>1 DEF LevelsRight

\* The line that is found is the next one with tokens.
LEMMA ContentLineIs ==
    ASSUME IsText(text), NEW n \in Nat \ {0}
    PROVE  /\ ContentLine(n) \in Nat \ {0}
           /\ ContentLine(n) <= Len(Lines) =>
                  Lines[ContentLine(n)].cols \in Columns(text)
<1> DEFINE rest == {m \in n .. Len(Lines) : ~ Blank(m)}
<1>1. Len(Lines) \in Nat
  BY DEF IsText, Lines
<1>2. CASE rest = {}
  <2>1. ContentLine(n) = Len(Lines) + 1
    BY <1>2 DEF ContentLine
  <2> QED BY <1>1, <2>1
<1>3. CASE rest # {}
  <2>1. rest \in SUBSET Nat
    <3>1. PICK k \in Nat : k = Len(Lines)
      BY <1>1
    <3>2. \A m \in n .. k : m \in Nat
      OBVIOUS
    <3>3. \A m \in rest : m \in n .. k
      BY <3>1
    <3> QED BY <3>2, <3>3
  <2>2. \E m \in rest : \A o \in rest : m <= o
    <3> HIDE DEF rest
    <3> QED BY <1>3, <2>1, SmallestExists
  <2>3. ContentLine(n) = CHOOSE m \in rest : \A o \in rest : m <= o
    BY <1>3 DEF ContentLine
  <2>4. ContentLine(n) \in rest
    <3> HIDE DEF rest
    <3> QED BY <2>2, <2>3
  <2> QED BY <1>1, <2>4 DEF Columns, Lines, Blank
<1> QED BY <1>2, <1>3

(* --------------------------------- the lexer ------------------------------ *)

\* The inductive invariant: the ring holds DEDENTs and the end of the text,
\* the levels are columns of the text and grow, and the counts agree.
LexInv ==
    /\ IsText(text) /\ Shallow(text)
    /\ lex \in LexersOf(Columns(text)) /\ RingRight(lex)
    /\ LevelsRight(lex.indents)
    /\ tokens \in Seq(TokensOf(text))
    /\ Cardinality(Got("indent", tokens)) =
           Cardinality(Got("dedent", tokens)) + Cardinality(Waiting(lex))
           + Len(lex.indents) - 1

\* What a token adds to the INDENTs, and to the DEDENTs.
One(k, t) == IF t.k = k THEN 1 ELSE 0

\* A call of lexer_next keeps the invariant when the token it returns is the
\* difference that it makes to levels and pending DEDENTs.
LEMMA ReturnKeeps ==
    ASSUME LexInv, NEW l \in LexersOf(Columns(text)), RingRight(l),
           LevelsRight(l.indents), NEW t \in TokensOf(text), Returns(l, t),
           One("indent", t) + Cardinality(Waiting(lex)) + Len(lex.indents) =
               One("dedent", t) + Cardinality(Waiting(l)) + Len(l.indents)
    PROVE  LexInv'
<1>1. lex' = l /\ tokens' = Append(tokens, t) /\ text' = text
  BY DEF Returns
<1>2. tokens \in Seq(TokensOf(text))
  BY DEF LexInv
<1>3. tokens' \in Seq(TokensOf(text))
  BY <1>1, <1>2
<1>4. /\ Cardinality(Waiting(lex)) \in Nat /\ Cardinality(Waiting(l)) \in Nat
      /\ Len(lex.indents) \in Nat /\ Len(l.indents) \in Nat
  BY WaitingCounted DEF LexInv, LexersOf
<1>5. /\ Cardinality(Got("indent", tokens)) \in Nat
      /\ Cardinality(Got("dedent", tokens)) \in Nat
      /\ Cardinality(Got("indent", Append(tokens, t))) =
             Cardinality(Got("indent", tokens)) + One("indent", t)
      /\ Cardinality(Got("dedent", Append(tokens, t))) =
             Cardinality(Got("dedent", tokens)) + One("dedent", t)
  BY <1>2, GotOneMore DEF One
<1>6. Cardinality(Got("indent", tokens)) =
          Cardinality(Got("dedent", tokens)) + Cardinality(Waiting(lex))
          + Len(lex.indents) - 1
  BY DEF LexInv
<1>7. One("indent", t) \in Nat /\ One("dedent", t) \in Nat
  BY DEF One
<1>8. Cardinality(Got("indent", Append(tokens, t))) =
          Cardinality(Got("dedent", Append(tokens, t))) + Cardinality(Waiting(l))
          + Len(l.indents) - 1
  <2>1. PICK gi, gd, wb, wa, lb, la, oi, od :
            /\ gi = Cardinality(Got("indent", tokens))
            /\ gd = Cardinality(Got("dedent", tokens))
            /\ wb = Cardinality(Waiting(lex)) /\ wa = Cardinality(Waiting(l))
            /\ lb = Len(lex.indents) /\ la = Len(l.indents)
            /\ oi = One("indent", t) /\ od = One("dedent", t)
    OBVIOUS
  <2>2. /\ gi \in Nat /\ gd \in Nat /\ wb \in Nat /\ wa \in Nat
        /\ lb \in Nat /\ la \in Nat /\ oi \in Nat /\ od \in Nat
        /\ gi = gd + wb + lb - 1 /\ oi + wb + lb = od + wa + la
    BY <1>4, <1>5, <1>6, <1>7, <2>1
  <2>3. gi + oi = (gd + od) + wa + la - 1
    BY <2>2
  <2> QED BY <1>5, <2>1, <2>3
<1>9. IsText(text)' /\ Shallow(text)'
  BY <1>1 DEF LexInv
<1> QED BY <1>1, <1>3, <1>8, <1>9 DEF LexInv

\* Tokens that the lexer makes itself.
LEMMA OwnTokens ==
    /\ \A k \in {"indent", "dedent", "newline", "eof", "error"} :
           Word(k) \in TokensOf(text) /\ Word(k).k = k
    /\ \A k \in {"newline", "eof", "error"} :
           One("indent", Word(k)) = 0 /\ One("dedent", Word(k)) = 0
    /\ One("indent", Word("indent")) = 1 /\ One("dedent", Word("indent")) = 0
    /\ One("indent", Word("dedent")) = 0 /\ One("dedent", Word("dedent")) = 1
BY DEF TokensOf, Word, One

\* A raw token is none of INDENT and DEDENT, and leaves levels and ring alone.
LEMMA RawRight ==
    ASSUME IsText(text), NEW C, NEW l \in LexersOf(C)
    PROVE  /\ RawToken(l) \in TokensOf(text)
           /\ One("indent", RawToken(l)) = 0 /\ One("dedent", RawToken(l)) = 0
           /\ AfterRaw(l) \in LexersOf(C) /\ AfterRaw(l).indents = l.indents
           /\ AfterRaw(l).count = l.count /\ AfterRaw(l).head = l.head
           /\ AfterRaw(l).pending = l.pending
<1>1. l.line \in Nat \ {0} /\ l.pos \in Nat \ {0} /\ Len(Lines) \in Nat
  BY DEF LexersOf, IsText, Lines
<1>2. /\ RawToken(l) \in TokensOf(text)
      /\ One("indent", RawToken(l)) = 0 /\ One("dedent", RawToken(l)) = 0
  <2>1. CASE RawToken(l) \in {Word("eof"), Word("newline")}
    BY <2>1, OwnTokens
  <2>2. CASE RawToken(l) \notin {Word("eof"), Word("newline")}
    <3>1. /\ l.line \in 1 .. Len(Lines)
          /\ l.pos <= Len(Lines[l.line].toks)
          /\ RawToken(l) = Lines[l.line].toks[l.pos]
      BY <1>1, <2>2 DEF RawToken
    <3>2. l.pos \in 1 .. Len(Lines[l.line].toks)
      BY <1>1, <3>1 DEF IsText, Lines
    <3>3. RawToken(l).k \notin {"indent", "dedent"}
      BY <3>1, <3>2 DEF IsText, Lines
    <3>4. RawToken(l) \in TokensOf(text)
      BY <3>1, <3>2 DEF TokensOf, Lines
    <3> QED BY <3>3, <3>4 DEF One
  <2> QED BY <2>1, <2>2
<1>3. \/ AfterRaw(l) = [l EXCEPT !.line = l.line + 1, !.pos = 1, !.atLineStart = TRUE]
      \/ AfterRaw(l) = l
      \/ AfterRaw(l) = [l EXCEPT !.pos = l.pos + 1]
  BY DEF AfterRaw
<1>4. l.line + 1 \in Nat \ {0} /\ l.pos + 1 \in Nat \ {0} /\ 1 \in Nat \ {0}
  BY <1>1
<1>5. /\ AfterRaw(l) \in LexersOf(C) /\ AfterRaw(l).indents = l.indents
      /\ AfterRaw(l).count = l.count /\ AfterRaw(l).head = l.head
      /\ AfterRaw(l).pending = l.pending
  BY <1>3, <1>4 DEF LexersOf
<1> QED BY <1>2, <1>5

\* An empty ring has nothing pending, whatever else the lexer did.
LEMMA NothingPending ==
    ASSUME NEW l, l.count = 0
    PROVE  Cardinality(Waiting(l)) = 0 /\ RingRight(l)
<1>1. 0 .. l.count - 1 = {}
  OBVIOUS
<1>2. Waiting(l) = {}
  BY <1>1 DEF Waiting
<1> QED BY <1>1, <1>2, FS_EmptySet DEF RingRight

\* The lexer at the next line with tokens.
LEMMA AtContentRight ==
    ASSUME LexInv
    PROVE  /\ AtContent \in LexersOf(Columns(text))
           /\ AtContent.indents = lex.indents /\ AtContent.count = lex.count
           /\ AtContent.head = lex.head /\ AtContent.pending = lex.pending
           /\ ContentLine(lex.line) <= Len(Lines) => Cols \in Columns(text)
<1>1. lex \in LexersOf(Columns(text)) /\ lex.line \in Nat \ {0} /\ IsText(text)
  BY DEF LexInv, LexersOf
<1>2. ContentLine(lex.line) \in Nat \ {0}
      /\ (ContentLine(lex.line) <= Len(Lines) =>
             Lines[ContentLine(lex.line)].cols \in Columns(text))
  BY <1>1, ContentLineIs
<1>3. PICK n \in Nat \ {0} : n = ContentLine(lex.line)
  BY <1>2
<1>4. AtContent = [lex EXCEPT !.line = n, !.atLineStart = FALSE]
  BY <1>3 DEF AtContent
<1>5. /\ AtContent \in LexersOf(Columns(text)) /\ AtContent.line = n
      /\ AtContent.indents = lex.indents /\ AtContent.count = lex.count
      /\ AtContent.head = lex.head /\ AtContent.pending = lex.pending
  BY <1>1, <1>4 DEF LexersOf
<1> QED BY <1>2, <1>3, <1>5 DEF Cols

\* NextPending: the token that leaves the ring is the one the parser gets.
LEMMA PendingKeeps == LexInv /\ NextPending => LexInv'
<1> SUFFICES ASSUME LexInv, NextPending PROVE LexInv'
  OBVIOUS
<1>1. PICK u, t : u = PopPending(lex) /\ t = lex.pending[lex.head]
  OBVIOUS
<1>2. /\ lex \in LexersOf(Columns(text)) /\ RingRight(lex) /\ lex.count > 0
      /\ LevelsRight(lex.indents) /\ Returns(u, t)
  BY <1>1 DEF LexInv, NextPending
<1>3. /\ u \in LexersOf(Columns(text)) /\ RingRight(u) /\ u.indents = lex.indents
      /\ t \in {Word("dedent"), Word("eof")}
      /\ Cardinality(Waiting(lex)) =
             Cardinality(Waiting(u)) + (IF t.k = "dedent" THEN 1 ELSE 0)
  BY <1>1, <1>2, PopRight
<1>4. t \in TokensOf(text) /\ One("indent", t) = 0
  BY <1>3, OwnTokens
<1>5. Cardinality(Waiting(lex)) = Cardinality(Waiting(u)) + One("dedent", t)
  BY <1>3 DEF One
<1>6. One("indent", t) + Cardinality(Waiting(lex)) + Len(lex.indents) =
          One("dedent", t) + Cardinality(Waiting(u)) + Len(u.indents)
  <2>1. /\ Cardinality(Waiting(u)) \in Nat /\ One("dedent", t) \in Nat
        /\ Len(lex.indents) \in Nat
    BY <1>2, <1>3, WaitingCounted DEF One, LexersOf
  <2> QED BY <1>3, <1>4, <1>5, <2>1
<1> QED BY <1>2, <1>3, <1>4, <1>6, ReturnKeeps

\* At the first content line of a logical line nothing is pending.
LEMMA StartRight ==
    ASSUME LexInv, StartsLine
    PROVE  /\ AtContent \in LexersOf(Columns(text)) /\ RingRight(AtContent)
           /\ AtContent.indents = lex.indents /\ AtContent.count = 0
           /\ lex.indents \in Seq(Columns(text)) /\ LevelsRight(lex.indents)
           /\ Cardinality(Waiting(lex)) = 0 /\ Cardinality(Waiting(AtContent)) = 0
           /\ Cols \in Columns(text) /\ Len(lex.indents) \in 1 .. PendingSlots
<1>1. lex.count = 0 /\ ContentLine(lex.line) <= Len(Lines)
  BY DEF StartsLine
<1>2. /\ AtContent \in LexersOf(Columns(text)) /\ AtContent.indents = lex.indents
      /\ AtContent.count = 0 /\ Cols \in Columns(text)
  BY <1>1, AtContentRight
<1>3. /\ lex.indents \in Seq(Columns(text)) /\ LevelsRight(lex.indents)
      /\ IsText(text) /\ Shallow(text)
  BY DEF LexInv, LexersOf
<1>4. Len(lex.indents) \in 1 .. PendingSlots
  BY <1>3, LevelsFit
<1> QED BY <1>1, <1>2, <1>3, <1>4, NothingPending

\* NextIndent: one level and one INDENT more, or an error and neither.
LEMMA IndentKeeps == LexInv /\ NextIndent => LexInv'
<1> SUFFICES ASSUME LexInv, NextIndent PROVE LexInv'
  OBVIOUS
<1>1. StartsLine /\ Cols > Top(lex)
  BY DEF NextIndent
<1>2. /\ AtContent \in LexersOf(Columns(text)) /\ RingRight(AtContent)
      /\ AtContent.indents = lex.indents /\ AtContent.count = 0
      /\ lex.indents \in Seq(Columns(text)) /\ LevelsRight(lex.indents)
      /\ Cardinality(Waiting(lex)) = 0 /\ Cardinality(Waiting(AtContent)) = 0
      /\ Cols \in Columns(text) /\ Len(lex.indents) \in 1 .. PendingSlots
  BY <1>1, StartRight
<1>3. CASE Len(lex.indents) >= IndentMax
  <2>1. Returns(AtContent, Word("error"))
    BY <1>3 DEF NextIndent
  <2>2. Word("error") \in TokensOf(text)
        /\ One("indent", Word("error")) = 0 /\ One("dedent", Word("error")) = 0
    BY OwnTokens
  <2>3. One("indent", Word("error")) + Cardinality(Waiting(lex)) + Len(lex.indents) =
            One("dedent", Word("error")) + Cardinality(Waiting(AtContent))
            + Len(AtContent.indents)
    BY <1>2, <2>2
  <2>4. LevelsRight(AtContent.indents)
    BY <1>2
  <2> QED BY <1>2, <2>1, <2>2, <2>3, <2>4, ReturnKeeps
<1>4. CASE ~ (Len(lex.indents) >= IndentMax)
  <2>1. PICK r : r = Append(lex.indents, Cols)
    OBVIOUS
  <2>2. PICK l : l = [AtContent EXCEPT !.indents = r]
    OBVIOUS
  <2>3. r \in Seq(Columns(text)) /\ LevelsRight(r) /\ Len(r) = Len(lex.indents) + 1
    <3>1. Columns(text) \in SUBSET Nat
      BY ColumnsFinite DEF LexInv
    <3>2. Cols > lex.indents[Len(lex.indents)]
      BY <1>1 DEF Top
    <3>3. PICK C, s, c : C = Columns(text) /\ s = lex.indents /\ c = Cols
      OBVIOUS
    <3>4. /\ C \in SUBSET Nat /\ s \in Seq(C) /\ LevelsRight(s) /\ c \in C
          /\ c > s[Len(s)] /\ r = Append(s, c)
      BY <1>2, <2>1, <3>1, <3>2, <3>3
    <3>5. r \in Seq(C) /\ LevelsRight(r) /\ Len(r) = Len(s) + 1
      BY <3>4, LevelOpens
    <3> QED BY <3>3, <3>5
  <2>4. l \in LexersOf(Columns(text)) /\ l.indents = r /\ l.count = 0
    BY <1>2, <2>2, <2>3 DEF LexersOf
  <2>5. Returns(l, Word("indent"))
    <3>1. [AtContent EXCEPT !.indents = Append(@, Cols)] = l
      BY <1>2, <2>1, <2>2
    <3> QED BY <1>4, <3>1 DEF NextIndent
  <2>6. Cardinality(Waiting(l)) = 0 /\ RingRight(l)
    BY <2>4, NothingPending
  <2>7. Word("indent") \in TokensOf(text)
        /\ One("indent", Word("indent")) = 1 /\ One("dedent", Word("indent")) = 0
    BY OwnTokens
  <2>8. One("indent", Word("indent")) + Cardinality(Waiting(lex)) + Len(lex.indents) =
            One("dedent", Word("indent")) + Cardinality(Waiting(l)) + Len(l.indents)
    BY <1>2, <2>3, <2>4, <2>6, <2>7
  <2> QED BY <2>3, <2>4, <2>5, <2>6, <2>7, <2>8, ReturnKeeps
<1> QED BY <1>3, <1>4

\* NextSameLevel and NextInLine: a token of the line, and no level changes.
LEMMA RawKeeps ==
    ASSUME LexInv, NEW l \in LexersOf(Columns(text)), lex.count = 0, l.count = 0,
           l.indents = lex.indents, Returns(AfterRaw(l), RawToken(l))
    PROVE  LexInv'
<1>1. PICK u, t : u = AfterRaw(l) /\ t = RawToken(l)
  OBVIOUS
<1>2. IsText(text) /\ LevelsRight(lex.indents) /\ lex \in LexersOf(Columns(text))
  BY DEF LexInv
<1>3. /\ t \in TokensOf(text) /\ One("indent", t) = 0 /\ One("dedent", t) = 0
      /\ u \in LexersOf(Columns(text)) /\ u.indents = lex.indents /\ u.count = 0
  BY <1>1, <1>2, RawRight
<1>4. /\ Cardinality(Waiting(lex)) = 0 /\ Cardinality(Waiting(u)) = 0
      /\ RingRight(u)
  BY <1>3, NothingPending
<1>5. One("indent", t) + Cardinality(Waiting(lex)) + Len(lex.indents) =
          One("dedent", t) + Cardinality(Waiting(u)) + Len(u.indents)
  BY <1>3, <1>4
<1>6. Returns(u, t) /\ LevelsRight(u.indents)
  BY <1>1, <1>2, <1>3
<1> QED BY <1>3, <1>4, <1>5, <1>6, ReturnKeeps

\* The tokens of a line, the first of a line at the level before included.
LEMMA InLineKeeps == LexInv /\ (NextSameLevel \/ NextInLine) => LexInv'
<1> SUFFICES ASSUME LexInv, NextSameLevel \/ NextInLine PROVE LexInv'
  OBVIOUS
<1>1. CASE NextSameLevel
  <2>1. StartsLine /\ Returns(AfterRaw(AtContent), RawToken(AtContent))
    BY <1>1 DEF NextSameLevel
  <2>2. /\ AtContent \in LexersOf(Columns(text)) /\ AtContent.count = 0
        /\ AtContent.indents = lex.indents /\ lex.count = 0
    BY <2>1, StartRight DEF StartsLine
  <2> QED BY <2>1, <2>2, RawKeeps
<1>2. CASE NextInLine
  <2>1. lex.count = 0 /\ Returns(AfterRaw(lex), RawToken(lex))
    BY <1>2 DEF NextInLine
  <2>2. lex \in LexersOf(Columns(text))
    BY DEF LexInv
  <2> QED BY <2>1, <2>2, RawKeeps
<1> QED BY <1>1, <1>2

\* NextDedent: as many DEDENTs as levels close, the first of them returned, or
\* an error and all of them left pending.
LEMMA DedentKeeps == LexInv /\ NextDedent => LexInv'
<1> SUFFICES ASSUME LexInv, NextDedent PROVE LexInv'
  OBVIOUS
<1>1. StartsLine /\ Cols < Top(lex)
  BY DEF NextDedent
<1>2. /\ AtContent \in LexersOf(Columns(text))
      /\ AtContent.indents = lex.indents /\ AtContent.count = 0
      /\ lex.indents \in Seq(Columns(text)) /\ LevelsRight(lex.indents)
      /\ Cardinality(Waiting(lex)) = 0
      /\ Cols \in Columns(text) /\ Len(lex.indents) \in 1 .. PendingSlots
  BY <1>1, StartRight
<1>3. PICK open : open = {d \in 1 .. Len(lex.indents) : lex.indents[d] <= Cols}
  OBVIOUS
<1>4. PICK keep : keep = IF open = {} THEN 1 ELSE Cardinality(open)
  OBVIOUS
<1>5. PICK r : r = SubSeq(lex.indents, 1, keep)
  OBVIOUS
<1>6. PICK a : a = [AtContent EXCEPT !.indents = r]
  OBVIOUS
<1>7. PICK l : l = PushTimes(a, Word("dedent"), Len(lex.indents) - keep)
  OBVIOUS
<1>8. IF Top(l) # Cols THEN Returns(l, Word("error"))
      ELSE Returns(PopPending(l), l.pending[l.head])
  <2>1. [AtContent EXCEPT !.indents = SubSeq(@, 1, keep)] = a
    BY <1>2, <1>5, <1>6
  <2> QED BY <1>3, <1>4, <1>7, <2>1 DEF NextDedent
<1>9. keep \in 1 .. Len(lex.indents) /\ Len(lex.indents) - keep \in 0 .. PendingSlots
  <2>1. PICK n \in 1 .. PendingSlots : n = Len(lex.indents)
    BY <1>2
  <2>2. IsFiniteSet(1 .. n) /\ Cardinality(1 .. n) = n
    BY FS_Interval
  <2>3. open \in SUBSET (1 .. n)
    BY <1>3, <2>1
  <2>4. /\ IsFiniteSet(open) /\ Cardinality(open) <= n
    BY <2>2, <2>3, FS_Subset
  <2>5. Cardinality(open) \in Nat /\ (Cardinality(open) = 0 => open = {})
    BY <2>4, FS_CardinalityType, FS_EmptySet
  <2>6. keep \in 1 .. n
    BY <1>4, <2>4, <2>5
  <2> QED BY <2>1, <2>6
<1>10. r \in Seq(Columns(text)) /\ LevelsRight(r) /\ Len(r) = keep
  <2>1. PICK C, s : C = Columns(text) /\ s = lex.indents
    OBVIOUS
  <2>2. s \in Seq(C) /\ LevelsRight(s) /\ keep \in 1 .. Len(s) /\ r = SubSeq(s, 1, keep)
    BY <1>2, <1>5, <1>9, <2>1
  <2>3. r \in Seq(C) /\ LevelsRight(r) /\ Len(r) = keep
    BY <2>2, LevelsClose
  <2> QED BY <2>1, <2>3
<1>11. a \in LexersOf(Columns(text)) /\ a.indents = r /\ a.count = 0
  BY <1>2, <1>6, <1>10 DEF LexersOf
<1>12. /\ l \in LexersOf(Columns(text)) /\ RingRight(l) /\ l.indents = r
       /\ l.count = Len(lex.indents) - keep
       /\ Cardinality(Waiting(l)) = Len(lex.indents) - keep
  BY <1>7, <1>9, <1>11, PushTimesRight
<1>13. CASE Top(l) # Cols
  <2>1. Returns(l, Word("error"))
    BY <1>8, <1>13
  <2>2. Word("error") \in TokensOf(text)
        /\ One("indent", Word("error")) = 0 /\ One("dedent", Word("error")) = 0
    BY OwnTokens
  <2>3. One("indent", Word("error")) + Cardinality(Waiting(lex)) + Len(lex.indents) =
            One("dedent", Word("error")) + Cardinality(Waiting(l)) + Len(l.indents)
    <3>1. PICK n \in 1 .. PendingSlots : n = Len(lex.indents)
      BY <1>2
    <3>2. keep \in Nat /\ 0 + 0 + n = 0 + (n - keep) + keep
      BY <1>9, <3>1
    <3> QED BY <1>2, <1>10, <1>12, <2>2, <3>1, <3>2
  <2>4. LevelsRight(l.indents)
    BY <1>10, <1>12
  <2> QED BY <1>12, <2>1, <2>2, <2>3, <2>4, ReturnKeeps
<1>14. CASE Top(l) = Cols
  <2>1. PICK u, t : u = PopPending(l) /\ t = l.pending[l.head]
    OBVIOUS
  <2>2. Returns(u, t)
    BY <1>8, <1>14, <2>1
  <2>3. l.count > 0
    <3>1. keep # Len(lex.indents)
      <4> SUFFICES ASSUME keep = Len(lex.indents) PROVE FALSE
        OBVIOUS
      <4>1. r[keep] = lex.indents[keep]
        BY <1>2, <1>5, <1>9
      <4>2. Top(l) = r[keep] /\ Top(lex) = lex.indents[keep]
        BY <1>10, <1>12 DEF Top
      <4>3. Cols \in Nat
        BY <1>2, ColumnsFinite DEF LexInv
      <4> QED BY <1>1, <1>14, <4>1, <4>2, <4>3
    <3> QED BY <1>2, <1>9, <1>12, <3>1
  <2>4. /\ u \in LexersOf(Columns(text)) /\ RingRight(u) /\ u.indents = r
        /\ t \in {Word("dedent"), Word("eof")}
        /\ Cardinality(Waiting(l)) =
               Cardinality(Waiting(u)) + (IF t.k = "dedent" THEN 1 ELSE 0)
    BY <1>12, <2>1, <2>3, PopRight
  <2>5. t \in TokensOf(text) /\ One("indent", t) = 0
    BY <2>4, OwnTokens
  <2>6. One("indent", t) + Cardinality(Waiting(lex)) + Len(lex.indents) =
            One("dedent", t) + Cardinality(Waiting(u)) + Len(u.indents)
    <3>1. PICK n \in 1 .. PendingSlots : n = Len(lex.indents)
      BY <1>2
    <3>2. PICK w, d : w = Cardinality(Waiting(u)) /\ d = One("dedent", t)
      OBVIOUS
    <3>3. w \in Nat /\ d \in Nat /\ keep \in Nat /\ n - keep = w + d
      BY <1>9, <1>12, <2>4, <3>1, <3>2, WaitingCounted DEF One
    <3>4. 0 + 0 + n = d + w + keep
      BY <3>3
    <3> QED BY <1>2, <1>10, <2>4, <2>5, <3>1, <3>2, <3>4
  <2>7. LevelsRight(u.indents)
    BY <1>10, <2>4
  <2> QED BY <2>2, <2>4, <2>5, <2>6, <2>7, ReturnKeeps
<1> QED BY <1>13, <1>14

\* NextEndOfText: a DEDENT for every level but the outermost, then the end.
LEMMA EndOfTextKeeps == LexInv /\ NextEndOfText => LexInv'
<1> SUFFICES ASSUME LexInv, NextEndOfText PROVE LexInv'
  OBVIOUS
<1>1. lex.count = 0
  BY DEF NextEndOfText
<1>2. /\ AtContent \in LexersOf(Columns(text))
      /\ AtContent.indents = lex.indents /\ AtContent.count = 0
  BY <1>1, AtContentRight
<1>3. /\ lex.indents \in Seq(Columns(text)) /\ LevelsRight(lex.indents)
      /\ IsText(text) /\ Shallow(text)
  BY DEF LexInv, LexersOf
<1>4. PICK n \in 1 .. PendingSlots : n = Len(lex.indents)
  BY <1>3, LevelsFit
<1>5. PICK r : r = <<lex.indents[1]>>
  OBVIOUS
<1>6. r \in Seq(Columns(text)) /\ LevelsRight(r) /\ Len(r) = 1
  <2>1. 1 \in 1 .. Len(lex.indents) /\ lex.indents[1] \in Columns(text)
    BY <1>3, <1>4
  <2>2. r \in Seq(Columns(text)) /\ Len(r) = 1 /\ r[1] = 0
    BY <1>3, <1>5, <2>1 DEF LevelsRight
  <2> QED BY <2>2 DEF LevelsRight
<1>7. PICK a : a = [AtContent EXCEPT !.indents = r]
  OBVIOUS
<1>8. a \in LexersOf(Columns(text)) /\ a.indents = r /\ a.count = 0
  BY <1>2, <1>6, <1>7 DEF LexersOf
<1>9. PICK d : d = PushTimes(a, Word("dedent"), n - 1)
  OBVIOUS
<1>10. n - 1 \in 0 .. PendingSlots /\ n - 1 < PendingSlots
  OBVIOUS
<1>11. /\ d \in LexersOf(Columns(text)) /\ RingRight(d) /\ d.indents = r
       /\ d.count = n - 1 /\ Cardinality(Waiting(d)) = n - 1
  BY <1>8, <1>9, <1>10, PushTimesRight
<1>12. PICK l : l = PushPending(d, Word("eof"))
  OBVIOUS
<1>13. /\ l \in LexersOf(Columns(text)) /\ RingRight(l) /\ l.indents = r
       /\ l.count = n /\ Cardinality(Waiting(l)) = n - 1
  <2>1. d.count < PendingSlots
    BY <1>10, <1>11
  <2>2. /\ l \in LexersOf(Columns(text)) /\ RingRight(l) /\ l.indents = d.indents
        /\ l.count = d.count + 1 /\ Waiting(l) = Waiting(d)
    BY <1>11, <1>12, <2>1, PushEofRight
  <2> QED BY <1>11, <2>2
<1>14. PICK u, t : u = PopPending(l) /\ t = l.pending[l.head]
  OBVIOUS
<1>15. Returns(u, t)
  <2>1. [AtContent EXCEPT !.indents = <<lex.indents[1]>>] = a
    BY <1>5, <1>7
  <2> QED BY <1>4, <1>9, <1>12, <1>14, <2>1 DEF NextEndOfText
<1>16. /\ u \in LexersOf(Columns(text)) /\ RingRight(u) /\ u.indents = r
       /\ t \in {Word("dedent"), Word("eof")}
       /\ Cardinality(Waiting(l)) =
              Cardinality(Waiting(u)) + (IF t.k = "dedent" THEN 1 ELSE 0)
  <2>1. l.count > 0
    BY <1>13
  <2> QED BY <1>13, <1>14, <2>1, PopRight
<1>17. t \in TokensOf(text) /\ One("indent", t) = 0
  BY <1>16, OwnTokens
<1>18. One("indent", t) + Cardinality(Waiting(lex)) + Len(lex.indents) =
           One("dedent", t) + Cardinality(Waiting(u)) + Len(u.indents)
  <2>1. PICK w, o : w = Cardinality(Waiting(u)) /\ o = One("dedent", t)
    OBVIOUS
  <2>2. w \in Nat /\ o \in Nat /\ n - 1 = w + o
    BY <1>13, <1>16, <2>1, WaitingCounted DEF One
  <2>3. 0 + 0 + n = o + w + 1
    BY <2>2
  <2>4. Cardinality(Waiting(lex)) = 0
    BY <1>1, NothingPending
  <2> QED BY <1>4, <1>6, <1>16, <1>17, <2>1, <2>3, <2>4
<1>19. LevelsRight(u.indents)
  BY <1>6, <1>16
<1> QED BY <1>15, <1>16, <1>17, <1>18, <1>19, ReturnKeeps

\* The lexer starts at the outermost level with nothing pending.
LEMMA LexInit ==
    ASSUME NEW src, IsText(src), Shallow(src), InitLexer(src)
    PROVE  LexInv
<1>1. text = src /\ lex = LexerInit /\ tokens = <<>>
  BY DEF InitLexer
<1>2. <<0>> \in Seq(Columns(text)) /\ LevelsRight(<<0>>) /\ Len(<<0>>) = 1
  <2>1. 0 \in Columns(text)
    BY DEF Columns
  <2> QED BY <2>1 DEF LevelsRight
<1>3. /\ lex \in LexersOf(Columns(text)) /\ lex.count = 0 /\ lex.indents = <<0>>
  <2>1. PICK ring : ring = [s \in 0 .. PendingSlots - 1 |-> Word("none")]
    OBVIOUS
  <2>2. ring \in [0 .. PendingSlots - 1 -> {Word("none"), Word("dedent"), Word("eof")}]
    BY <2>1
  <2>3. lex = [line |-> 1, pos |-> 1, atLineStart |-> TRUE, indents |-> <<0>>,
               pending |-> ring, head |-> 0, count |-> 0]
    BY <1>1, <2>1 DEF LexerInit
  <2> QED BY <1>2, <2>2, <2>3 DEF LexersOf
<1>4. RingRight(lex) /\ Cardinality(Waiting(lex)) = 0
  BY <1>3, NothingPending
<1>5. tokens \in Seq(TokensOf(text)) /\ \A k : Got(k, tokens) = {}
  BY <1>1 DEF Got
<1>6. \A k : Cardinality(Got(k, tokens)) = 0
  BY <1>5, FS_EmptySet
<1> QED BY <1>1, <1>2, <1>3, <1>4, <1>5, <1>6 DEF LexInv

\* Every call of lexer_next keeps it.
LEMMA LexNext == LexInv /\ [LexerNext]_lexVars => LexInv'
<1> SUFFICES ASSUME LexInv, [LexerNext]_lexVars PROVE LexInv'
  OBVIOUS
<1>1. CASE NextPending
  BY <1>1, PendingKeeps
<1>2. CASE NextIndent
  BY <1>2, IndentKeeps
<1>3. CASE NextDedent
  BY <1>3, DedentKeeps
<1>4. CASE NextSameLevel \/ NextInLine
  BY <1>4, InLineKeeps
<1>5. CASE NextEndOfText
  BY <1>5, EndOfTextKeeps
<1>6. CASE UNCHANGED lexVars
  BY <1>6 DEF lexVars, LexInv
<1> QED BY <1>1, <1>2, <1>3, <1>4, <1>5, <1>6 DEF LexerNext

\* What the invariant says of the counts and of the levels.
LEMMA LexInvBalances == LexInv => LevelsBalance
<1> SUFFICES ASSUME LexInv PROVE LevelsBalance
  OBVIOUS
<1>1. lex.count <= PendingSlots
  <2>1. lex.count \in 0 .. PendingSlots
    BY DEF LexInv, LexersOf
  <2> QED BY <2>1
<1>2. \A i \in 2 .. Len(lex.indents) : lex.indents[i - 1] < lex.indents[i]
  <2>1. /\ Len(lex.indents) \in Nat
        /\ \A i, j \in 1 .. Len(lex.indents) : i < j => lex.indents[i] < lex.indents[j]
    BY DEF LexInv, LexersOf, LevelsRight
  <2> SUFFICES ASSUME NEW i \in 2 .. Len(lex.indents)
               PROVE  lex.indents[i - 1] < lex.indents[i]
    OBVIOUS
  <2>2. i - 1 \in 1 .. Len(lex.indents) /\ i \in 1 .. Len(lex.indents) /\ i - 1 < i
    BY <2>1
  <2> QED BY <2>1, <2>2
<1>3. Cardinality(Got("indent", tokens)) =
          Cardinality(Got("dedent", tokens)) + Cardinality(Waiting(lex))
          + Len(lex.indents) - 1
  BY DEF LexInv
<1> QED BY <1>1, <1>2, <1>3 DEF LevelsBalance, Got, Waiting, SlotOf

\* Whatever the text, the INDENTs that the parser got from lexer_next are those
\* of the open levels, of the DEDENTs it got and of the DEDENTs that wait in the
\* ring, the levels grow inwards and the ring does not overflow, as long as the
\* lines of the text start in no more different columns than the ring has slots.
THEOREM LevelsAlwaysBalance ==
    ASSUME NEW CONSTANT src, IsText(src), Shallow(src)
    PROVE  LexerSpec(src) => []LevelsBalance
<1>1. InitLexer(src) => LexInv
  BY LexInit
<1>2. LexInv /\ [LexerNext]_lexVars => LexInv'
  BY LexNext
<1>3. LexInv => LevelsBalance
  BY LexInvBalances
<1> QED BY <1>1, <1>2, <1>3, PTL DEF LexerSpec
=============================================================================
