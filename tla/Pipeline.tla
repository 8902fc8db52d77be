------------------------------ MODULE Pipeline ------------------------------
(* compile_and_run (api.c): a program from its text to its end.  The lexer,  *)
(* the parser, the compiler and the machine are composed, and checked against*)
(* the text the program was written from (Printer) and against what it means *)
(* (Reference).                                                              *)
EXTENDS Lexer, Compiler, Machine

CONSTANTS Programs,     \* syntax trees of the programs that are run
          Unrun         \* and of those that are only parsed and compiled

VARIABLES program,      \* the one at hand: its tree, and whether it is run
          stage,        \* "lexing", "parsing", "compiling", "running" or "stopped"
          parser,       \* the statements so far, and the current token
          compiler      \* the Compiler struct, and the statements compiled so far

pipelineVars == <<program, stage, parser, compiler, text, lex, tokens, code, vm>>

Syntax == INSTANCE Parser
Written == INSTANCE Printer
Ref == INSTANCE Reference WITH CallsMax <- FramesMax

Start ==
    /\ LET some(ps, run) == \E i \in DOMAIN ps : program = [tree |-> ps[i], run |-> run]
       IN some(Programs, TRUE) \/ some(Unrun, FALSE)
    /\ stage = "lexing"
    /\ parser = Syntax!ParserInit
    /\ compiler = [c |-> CompilerInit, n |-> 0]
    /\ InitLexer(Written!SourceText(program.tree))
    /\ code = <<>>
    /\ vm = [status |-> "new"]

\* The parser asks for the tokens one by one; here it starts when all are
\* there.
Lex ==
    /\ stage = "lexing" /\ ~AtEof
    /\ LexerNext
    /\ stage' = IF AtEof' THEN "parsing" ELSE stage
    /\ UNCHANGED <<program, parser, compiler, code, vm>>

ParseStatement ==
    /\ stage = "parsing" /\ ~Syntax!AtEnd(tokens, parser)
    /\ parser' = Syntax!ParseNext(tokens, parser)
    /\ UNCHANGED <<program, stage, compiler, text, lex, tokens, code, vm>>

\* The text, the lexer and the tokens are not needed any more.
EndOfModule ==
    /\ stage = "parsing" /\ Syntax!AtEnd(tokens, parser)
    /\ stage' = IF Syntax!Refused(tokens, parser) THEN "stopped" ELSE "compiling"
    /\ text' = [lines |-> <<>>, nl |-> TRUE] /\ lex' = LexerInit /\ tokens' = <<>>
    /\ UNCHANGED <<program, parser, compiler, code, vm>>

CompileStatement ==
    /\ stage = "compiling" /\ compiler.n < Len(parser.n)
    /\ compiler' = [c |-> CNode(compiler.c, parser.n[compiler.n + 1]), n |-> compiler.n + 1]
    /\ UNCHANGED <<program, stage, parser, text, lex, tokens, code, vm>>

\* The tree and the compiler are not needed any more.
Load(compiled) ==
    LET runs == compiled # None /\ program.run
    IN /\ stage' = IF runs THEN "running" ELSE "stopped"
       /\ code' = IF compiled = None THEN <<>> ELSE compiled.fns
       /\ vm' = IF runs THEN Execute(Len(compiled.fns)) ELSE vm

EndOfCode ==
    /\ stage = "compiling" /\ compiler.n = Len(parser.n)
    /\ Load(Finish(compiler.c))
    /\ parser' = Syntax!ParserInit
    /\ compiler' = [c |-> CompilerInit, n |-> 0]
    /\ UNCHANGED <<program, text, lex, tokens>>

Ended == {"done", "error", "crashed"}

Interpret ==
    /\ stage = "running" /\ vm.status \notin Ended
    /\ Next
    /\ UNCHANGED <<program, stage, parser, compiler, text, lex, tokens>>

Stop ==
    /\ stage = "running" /\ vm.status \in Ended
    /\ stage' = "stopped"
    /\ UNCHANGED <<program, parser, compiler, text, lex, tokens, code, vm>>

Finished == stage = "stopped" /\ UNCHANGED pipelineVars

Step ==
    \/ Lex \/ ParseStatement \/ EndOfModule \/ CompileStatement \/ EndOfCode
    \/ Interpret \/ Stop \/ Finished

\* One thread, which nothing interrupts.  Progress is weak fairness of Step: a
\* program that has not stopped always has a step, as the runs check (there
\* is no deadlock), so ENABLED is written out.
Progress == <>[](stage = "stopped") \/ []<><<TRUE>>_pipelineVars
Spec == Start /\ [][Step]_pipelineVars /\ Progress

(* ------------------------------- properties ----------------------------- *)

\* The tree that the lexer and the parser make of a text is the one the text
\* was written from: no precedence, associativity, block or optional part is
\* read differently.
ParsesBack == stage = "compiling" => parser.n = program.tree.ss

\* However an instruction is reached, by a jump, a loop, an early exit or an
\* exception, the stack has the same height and the same handlers are open;
\* locals, upvalues and captures lie within it, and no function returns with
\* a handler of its own.
Shape == INSTANCE StackWalk
Compiled ==
    \/ stage = "stopped" /\ ~program.run /\ code # <<>>
    \/ stage = "running" /\ vm.status = "running" /\ Len(vm.frames) = 1 /\ Frame(vm).ip = 1
StackDiscipline == Compiled => Shape!Balanced(code)

\* What a program has printed when it stops, and the exception it stops with,
\* are those of its syntax tree.
RunsAsWritten ==
    [][Stop =>
         LET meant == Ref!Meaning(program.tree)
             end == IF vm.status = "error" THEN <<"error", Shown(vm.heap, vm.exc)>> ELSE <<vm.status>>
         IN vm.out = meant.out /\ end = meant.end]_pipelineVars

\* Every program of the corpus comes to its end.
Terminates == <>(stage = "stopped")

\* An exception that leaves a generator, a hook or a function given to map
\* reaches the handler around the call (the comment of HANDLE_NESTED_ERROR).
ReachesItsHandler == stage = "running" => vm.status # "crashed"
=============================================================================
