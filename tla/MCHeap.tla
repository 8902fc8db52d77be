------------------------------- MODULE MCHeap -------------------------------
EXTENDS Heap, TLC

CONSTANTS a, b           \* the strings

MCChars == {a, b}
MCHash == (a :> 1) @@ (b :> 1)    \* they collide
Symmetry == Permutations(Addr)
=============================================================================
