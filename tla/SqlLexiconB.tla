----------------------------- MODULE SqlLexiconB -----------------------------
(***************************************************************************)
(* The lexical helpers of the second version of the table parser,          *)
(* src/unnamed/part_000, where they differ from table_name_parser.go       *)
(* (SqlLexicon).  Its string and comment states, openers and closers are   *)
(* those of SqlLexicon; hasPrefixFold on the lowercase tokens is HasPrefixAt.*)
(* Its exit keywords add the set operators, and its parseIdentifierSequence *)
(* skips comments as well as whitespace before every part and before every  *)
(* dot.                                                                    *)
(***************************************************************************)
EXTENDS SqlLexicon

tableContextExitKeywordsB ==
    tableContextExitKeywords \cup {"union", "intersect", "except"}

\* The first position k >= from at which p starts, or Len(s) + 1.
FirstPrefixAt(s, from, p) ==
    LET I == {k \in from..Len(s) : HasPrefixAt(s, k, p)}
    IN IF I = {} THEN Len(s) + 1 ELSE Min(I)

\* The position x runes after n, where a byte offset is used as a rune
\* offset.  The model asserts that the runes it overshoots are one-rune
\* tokens (or lie past the text), so that it never lands inside a word.
Overshoot(s, n, x) ==
    CASE Assert(\A k \in n..Min({n + x - 1, Len(s)}) : RuneCount(s[k]) = 1,
                "byte offset inside a word")
      -> n + x

\* Mutant: the skip loop skips whitespace only, as in the first version.
SkipTrivia_SpacesOnly(s, p) == FirstNotIn(s, p, Spaces)

(***************************************************************************)
(* The skip loop run before every part and before every dot: whitespace,  *)
(* then a block comment up to its "*/" or a line comment up to its line   *)
(* end, until nothing more is skipped.  An unclosed block comment is not  *)
(* skipped; an unclosed line comment runs to the end.  strings.Index gives *)
(* the byte offset of the closer within the comment, so each wide letter   *)
(* in a comment moves the scan two runes past its closer.                  *)
(***************************************************************************)
RECURSIVE SkipTrivia(_, _)
SkipTrivia(s, p) ==
    LET k == FirstNotIn(s, p, Spaces)
        n == CASE HasPrefixAt(s, k, <<"/", "*">>) ->
                    LET c == FirstPrefixAt(s, k, <<"*", "/">>)
                    IN IF c > Len(s) THEN k
                       ELSE Overshoot(s, c + 2, ByteOverrun(s, k, c - 1))
               [] HasPrefixAt(s, k, <<"-", "-">>) \/ HasPrefixAt(s, k, <<"#">>) ->
                    LET c == FirstIn(s, k, {"\n"})
                    IN IF c > Len(s) THEN Len(s) + 1
                       ELSE Overshoot(s, c + 1, ByteOverrun(s, k, c - 1))
               [] OTHER -> k
    IN IF p > Len(s) \/ n = p THEN p ELSE SkipTrivia(s, n)

(***************************************************************************)
(* parseIdentifierSequence(runes) of part_000, as IdentFrom with the skip *)
(* loop in place of the whitespace skip, and a second skip loop between a *)
(* part and its dot.  The backticked part has the byte-offset overshoot of *)
(* IdentFrom.                                                              *)
(***************************************************************************)
RECURSIVE IdentFromB(_, _, _), PartEndB(_, _, _), IdentAtB(_, _, _)
IdentFromB(s, p, acc) == IdentAtB(s, SkipTrivia(s, p), acc)

\* After a part, at the first rune the skip loop leaves (m): a dot goes on
\* to the next part, anything else ends the sequence.
PartEndB(s, m, parts) ==
    IF m <= Len(s) /\ s[m] = "."
    THEN IdentFromB(s, m + 1, parts)
    ELSE [parts |-> parts, next |-> m, err |-> FALSE]

\* A part that starts at q, where the skip loop stopped.
IdentAtB(s, q, acc) ==
    IF q > Len(s) THEN [parts |-> acc, next |-> q, err |-> FALSE]
    ELSE IF s[q] = "TICK"
    THEN LET e == FirstIn(s, q + 1, {"TICK"})
             x == ByteOverrun(s, q + 1, e - 1)
         IN IF e > Len(s) THEN [parts |-> acc, next |-> q, err |-> TRUE]
            ELSE CASE Assert(e - 1 + x <= Len(s), "slice bound past the text")
                      -> PartEndB(s, SkipTrivia(s, Overshoot(s, e + 1, x)),
                                  acc \o SplitDots(SubSeq(s, q + 1, e - 1 + x)))
    ELSE IF IsWord(s[q])
    THEN LET e == FirstIn(s, q, EndsUnquotedPart)
         IN PartEndB(s, SkipTrivia(s, e), Append(acc, SubSeq(s, q, e - 1)))
    ELSE [parts |-> acc, next |-> q, err |-> FALSE]

\* Mutant: the count of runes consumed is taken for the index to resume at.
ParseIdentifierSequenceB_CountAsIndex(s, p) ==
    [IdentFromB(s, p, <<>>) EXCEPT !.next = @ - p + 1]

ParseIdentifierSequenceB(s, p) == IdentFromB(s, p, <<>>)

=============================================================================
