------------------------------- MODULE Lexer -------------------------------
(* The indentation-aware lexer (lexer.c), one action per call of            *)
(* lexer_next.  A source text is a sequence of lines, each the column of    *)
(* its first character and its tokens (a blank or comment-only line has     *)
(* none), and a flag that says whether the last line ends with a newline.   *)
(* How characters make up one token is left out: scan_raw_token takes the   *)
(* next token of the line, and an unexpected character is the token "error".*)
EXTENDS Ast, FiniteSets

CONSTANTS IndentMax,      \* FLUX_INDENT_MAX
          PendingSlots    \* length of Lexer.pending

ASSUME LexerAssumption == IndentMax \in Nat \ {0} /\ PendingSlots \in Nat \ {0}

VARIABLES text,      \* [lines: Seq([cols, toks]), nl: BOOLEAN]
          lex,       \* the Lexer struct
          tokens     \* the tokens returned so far

lexVars == <<text, lex, tokens>>

\* lexer_init.
LexerInit == [line |-> 1, pos |-> 1, atLineStart |-> TRUE, indents |-> <<0>>,
              pending |-> [s \in 0 .. PendingSlots - 1 |-> Word("none")],
              head |-> 0, count |-> 0]

InitLexer(src) == text = src /\ lex = LexerInit /\ tokens = <<>>

\* push_pending and pop_pending: a ring with no test for a full one.
PushPending(l, t) ==
    [l EXCEPT !.pending[(l.head + l.count) % PendingSlots] = t,
              !.count = @ + 1]
PopPending(l) ==
    [l EXCEPT !.head = (@ + 1) % PendingSlots, !.count = @ - 1]

\* As PushTimes, but one DEDENT for all the levels a line closes.
PushTimesOnce(l, t, n) == PushPending(l, t)

\* n pushes of the same token.
PushTimes(l, t, n) ==
    [l EXCEPT
       !.pending = [s \in 0 .. PendingSlots - 1 |->
          IF \E m \in 0 .. n - 1 : s = (l.head + l.count + m) % PendingSlots
          THEN t ELSE @[s]],
       !.count = @ + n]

Lines == text.lines
Blank(n) == Lines[n].toks = <<>>

\* The line the blank-line loop stops at: the next one with tokens, or the
\* end of the text.
ContentLine(n) ==
    LET rest == {m \in n .. Len(Lines) : ~Blank(m)} IN
    IF rest = {} THEN Len(Lines) + 1
    ELSE CHOOSE m \in rest : \A o \in rest : m <= o

\* scan_raw_token from lexer state l.
RawToken(l) ==
    IF l.line > Len(Lines) THEN Word("eof")
    ELSE IF l.pos <= Len(Lines[l.line].toks) THEN Lines[l.line].toks[l.pos]
    ELSE IF l.line < Len(Lines) \/ text.nl THEN Word("newline")
    ELSE Word("eof")

AfterRaw(l) ==
    CASE RawToken(l).k = "newline" ->
            [l EXCEPT !.line = @ + 1, !.pos = 1, !.atLineStart = TRUE]
      [] RawToken(l).k = "eof" -> l
      [] OTHER -> [l EXCEPT !.pos = @ + 1]

Returns(l, t) == lex' = l /\ tokens' = Append(tokens, t) /\ UNCHANGED text

Top(l) == l.indents[Len(l.indents)]

\* A pending token is returned first.
NextPending ==
    /\ lex.count > 0
    /\ Returns(PopPending(lex), lex.pending[lex.head])

\* The lexer at the first content line of a new logical line.
AtContent == [lex EXCEPT !.line = ContentLine(lex.line), !.atLineStart = FALSE]
Cols == Lines[AtContent.line].cols
StartsLine == lex.count = 0 /\ lex.atLineStart /\ ContentLine(lex.line) <= Len(Lines)

NextIndent ==
    /\ StartsLine
    /\ Cols > Top(lex)
    /\ IF Len(lex.indents) >= IndentMax
       THEN Returns(AtContent, Word("error"))
       ELSE Returns([AtContent EXCEPT !.indents = Append(@, Cols)], Word("indent"))

\* Levels deeper than the new line close, each with a DEDENT; a column that
\* is none of the open levels is an error, and the DEDENTs stay pending.
NextDedent ==
    /\ StartsLine
    /\ Cols < Top(lex)
    /\ LET open == {d \in 1 .. Len(lex.indents) : lex.indents[d] <= Cols}
           keep == IF open = {} THEN 1 ELSE Cardinality(open)
           l == PushTimes([AtContent EXCEPT !.indents = SubSeq(@, 1, keep)],
                          Word("dedent"), Len(lex.indents) - keep)
       IN IF Top(l) # Cols THEN Returns(l, Word("error"))
          ELSE Returns(PopPending(l), l.pending[l.head])

\* A line at the level of the one before, and the tokens inside a line.
NextSameLevel ==
    /\ StartsLine
    /\ Cols = Top(lex)
    /\ Returns(AfterRaw(AtContent), RawToken(AtContent))

NextInLine ==
    /\ lex.count = 0
    /\ ~lex.atLineStart
    /\ Returns(AfterRaw(lex), RawToken(lex))

\* The end of the text at the start of a line closes every level.
NextEndOfText ==
    /\ lex.count = 0
    /\ lex.atLineStart
    /\ ContentLine(lex.line) > Len(Lines)
    /\ LET depth == Len(lex.indents)
           l == PushPending(
                  PushTimes([AtContent EXCEPT !.indents = <<lex.indents[1]>>],
                            Word("dedent"), depth - 1),
                  Word("eof"))
       IN Returns(PopPending(l), l.pending[l.head])

\* lexer_next.
LexerNext ==
    \/ NextPending \/ NextIndent \/ NextDedent
    \/ NextSameLevel \/ NextInLine \/ NextEndOfText

AtEof == tokens # <<>> /\ tokens[Len(tokens)].k = "eof"

\* The lexer alone; the parser asks for token after token.
LexerSpec(src) == InitLexer(src) /\ [][LexerNext]_lexVars

\* The levels of indentation grow inwards, and the INDENTs the parser got are
\* those of the open levels, of the DEDENTs it got and of the pending ones
\* (NextIndent, NextDedent, NextEndOfText, the ring of pending tokens).
LevelsBalance ==
    LET got(k) == Cardinality({i \in DOMAIN tokens : tokens[i].k = k})
        waiting == Cardinality({n \in 0 .. lex.count - 1 :
                                  lex.pending[(lex.head + n) % PendingSlots].k = "dedent"})
    IN /\ lex.count <= PendingSlots
       /\ \A i \in 2 .. Len(lex.indents) : lex.indents[i - 1] < lex.indents[i]
       /\ got("indent") = got("dedent") + waiting + Len(lex.indents) - 1
=============================================================================
