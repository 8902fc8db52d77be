---------------------------- MODULE ObjectStore -----------------------------
(* What a script sees of strings and dicts: a string is its characters, a    *)
(* dict maps strings to values, and memory is unbounded.  The state keeps    *)
(* the dicts that can be reached from the value stack and nothing else.      *)
EXTENDS Integers, Sequences, FiniteSets

CONSTANTS Chars,          \* the strings
          Ids,            \* the identities of dicts
          Null,           \* the value null
          Absent          \* no entry

Values == Chars \cup Ids \cup {Null}

VARIABLES stack,          \* the value stack
          dicts           \* the contents of each dict that can be reached

storeVars == <<stack, dicts>>

Init == stack = <<>> /\ dicts = [d \in {} |-> Null]

NoEntries == [c \in Chars |-> Absent]
\* The dicts that the stack s reaches in at most n steps through contents m.
Reached(s, m) ==
    LET reach[n \in 0 .. Cardinality(DOMAIN m)] ==
          IF n = 0 THEN {s[i] : i \in DOMAIN s} \cap DOMAIN m
          ELSE reach[n - 1] \cup
               ((UNION {{m[d][c] : c \in Chars} : d \in reach[n - 1]}) \cap DOMAIN m)
    IN reach[Cardinality(DOMAIN m)]

\* The new state, without the dicts that nothing refers to.
Becomes(s, m) == stack' = s /\ dicts' = [d \in Reached(s, m) |-> m[d]]

Locals == {stack[i] : i \in DOMAIN stack}
Push(v) == Becomes(Append(stack, v), dicts)

String == \E c \in Chars : Push(c)
Drop == stack # <<>> /\ Becomes(SubSeq(stack, 1, Len(stack) - 1), dicts)

New ==
    \E d \in Ids \ DOMAIN dicts :
        Becomes(Append(stack, d),
                [e \in DOMAIN dicts \cup {d} |-> IF e = d THEN NoEntries ELSE dicts[e]])

Set(d, c) == \E v \in Locals : Becomes(stack, [dicts EXCEPT ![d][c] = v])
Get(d, c) == dicts[d][c] # Absent /\ Push(dicts[d][c])
Delete(d, c) ==
    Becomes(Append(stack, IF dicts[d][c] = Absent THEN Null ELSE dicts[d][c]),
            [dicts EXCEPT ![d][c] = Absent])
Clear(d) == Becomes(stack, [dicts EXCEPT ![d] = NoEntries])

\* A call ends: its part of the stack goes and its result stays.
Return ==
    /\ stack # <<>>
    /\ \E n \in 0 .. Len(stack) - 1 :
          Becomes(Append(SubSeq(stack, 1, n), stack[Len(stack)]), dicts)

Next ==
    \/ String \/ Drop \/ New \/ Return
    \/ \E d \in Locals \cap Ids :
          \/ Clear(d)
          \/ \E c \in Locals \cap Chars : Set(d, c) \/ Get(d, c) \/ Delete(d, c)

Spec == Init /\ [][Next]_storeVars
=============================================================================
