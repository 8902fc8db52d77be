------------------------------ MODULE StackWalk -----------------------------
(* The points of compiled code: from the first instruction of a function     *)
(* along both sides of every jump and to the handler of every exception.     *)
EXTENDS StackShape

\* Where the instruction ip leads from its point p, nowhere from a wrong one.
Leads(fns, fn, ip, p) ==
    LET in == fn.code[ip]
    IN IF ip \notin DOMAIN fn.code \/ ~Sound(fns, fn, in, p) THEN {}
       ELSE {<<t, After(fns, in, p)>> : t \in Targets(in, ip)}
            \union (IF p.handlers = <<>> THEN {} ELSE {<<Last(p.handlers).ip, Caught(p)>>})

\* One step further from the instructions q.new.  Of the ways an instruction
\* is reached the first counts, with the upvalues of all.
Further(fns, fn, q) ==
    LET ways == UNION {Leads(fns, fn, ip, q.at[ip]) : ip \in q.new}
        found == {way[1] : way \in ways}
        first(ip) == IF ip \in DOMAIN q.at THEN q.at[ip]
                     ELSE (CHOOSE way \in ways : way[1] = ip)[2]
        join(ip) == [first(ip) EXCEPT !.open =
                        @ \union UNION {way[2].open : way \in {w \in ways : w[1] = ip}}]
        at == [ip \in DOMAIN q.at \union found |->
                  IF ip \in found THEN join(ip) ELSE q.at[ip]]
    IN [at |-> at, new |-> {ip \in found : ip \notin DOMAIN q.at \/ at[ip] # q.at[ip]}]

RECURSIVE Steps(_, _, _, _)
\* n steps further: half of them, then the others.
Steps(fns, fn, q, n) ==
    CASE q.new = {} -> q
      [] n = 1 -> Further(fns, fn, q)
      [] OTHER -> Steps(fns, fn, Steps(fns, fn, q, n \div 2), n - n \div 2)

PointsOf(fns, fn) ==
    Steps(fns, fn, [at |-> [ip \in {1} |-> Entry(fn)], new |-> {1}], 1 + 2 * Len(fn.code)).at

Balanced(fns) == SoundProgram(fns, [f \in DOMAIN fns |-> PointsOf(fns, fns[f])])
=============================================================================
