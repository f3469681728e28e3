----------------------------- MODULE SqlLexicon -----------------------------
(***************************************************************************)
(* The lexical vocabulary shared by the table parser (parseSQL) and the    *)
(* explicit-reference auditor (IsAnyTableExplicitlyReferenced) of          *)
(* src/internal/tools/bigquery/bigquerycommon/table_name_parser.go.        *)
(*                                                                         *)
(* A SQL text is a sequence of tokens.  A token is either one punctuation  *)
(* rune (the strings in Punct) or a word: a maximal run of letters, which  *)
(* the code reads rune by rune but never splits.  Digits are the token     *)
(* "1", which, like the code's unicode.IsLetter test, does not start an    *)
(* identifier.  Words are lowercase, so strings.ToLower is the identity.   *)
(* The backtick rune is the token "TICK".                                  *)
(*                                                                         *)
(* An identifier part is the sequence of tokens it spans; an identifier is *)
(* the sequence of its parts.  A dotted string such as a table ID is kept  *)
(* in its strings.Split(_, ".") form, which is a bijection with the joined *)
(* string, so comparing split forms compares the strings.                  *)
(***************************************************************************)
EXTENDS Integers, Sequences, SequencesExt, FiniteSets

Punct == {" ", "\n", ".", ",", "(", ")", ";", "'", "\"", "\\", "TICK",
          "#", "-", "/", "*", "1"}

IsWord(c) == c \notin Punct
Spaces == {" ", "\n"}
IsSpace(c) == c \in Spaces

\* unicode.IsLetter(char) || char == backtick || char == underscore
StartsIdentifier(c) == IsWord(c) \/ c = "TICK"

\* The runes that end an unquoted part: all but letters, digits, '_' and '-'
EndsUnquotedPart == Punct \ {"-", "1"}

\* strings.HasPrefix(string(runes[i:]), p), positions are 1-based
HasPrefixAt(s, i, p) ==
    /\ i + Len(p) - 1 <= Len(s)
    /\ SubSeq(s, i, i + Len(p) - 1) = p

\* The first position k >= from whose token is (FirstIn) or is not
\* (FirstNotIn) in C, or Len(s) + 1 if there is none.
FirstIn(s, from, C) ==
    LET I == {k \in from..Len(s) : s[k] \in C}
    IN IF I = {} THEN Len(s) + 1 ELSE Min(I)

FirstNotIn(s, from, C) ==
    LET I == {k \in from..Len(s) : s[k] \notin C}
    IN IF I = {} THEN Len(s) + 1 ELSE Min(I)

\* strings.Split(part, ".") on a token sequence
RECURSIVE SplitDots(_)
SplitDots(s) ==
    LET k == FirstIn(s, 1, {"."})
    IN IF k > Len(s) THEN <<s>>
       ELSE <<SubSeq(s, 1, k - 1)>> \o SplitDots(SubSeq(s, k + 1, Len(s)))

\* keyword == strings.ToLower(parts[0]) for a one-token part; a part of
\* several tokens ("a--b") or none (two ticks) equals no keyword.
Keyword(parts) == IF Len(parts[1]) = 1 THEN parts[1][1] ELSE ""

tableFollowsKeywords ==
    {"from", "join", "update", "into", "table", "using", "insert", "merge"}

tableContextExitKeywords ==
    {"where", "group", "having", "order", "limit", "window", "on", "set",
     "when"}

Verbs == {"create", "alter", "drop", "select", "insert", "update",
          "delete", "merge"}

(***************************************************************************)
(* The string and comment states of the shared state machine and, for     *)
(* each, the sequence that closes it and whether a backslash escapes the  *)
(* next rune.                                                             *)
(***************************************************************************)
LiteralStates == {"single", "double", "tripleSingle", "tripleDouble",
                  "rawSingle", "rawDouble", "rawTripleSingle",
                  "rawTripleDouble", "lineDash", "lineHash", "block"}

ParserStates == {"normal"} \cup LiteralStates

Closer == [single |-> <<"'">>, double |-> <<"\"">>,
           tripleSingle |-> <<"'", "'", "'">>,
           tripleDouble |-> <<"\"", "\"", "\"">>,
           rawSingle |-> <<"'">>, rawDouble |-> <<"\"">>,
           rawTripleSingle |-> <<"'", "'", "'">>,
           rawTripleDouble |-> <<"\"", "\"", "\"">>,
           lineDash |-> <<"\n">>, lineHash |-> <<"\n">>,
           block |-> <<"*", "/">>]

Escapes == {"single", "double"}

\* The openers of the normal state, in the order the code tests them.
CommentOpeners ==
    << <<<<"-", "-">>, "lineDash">>, <<<<"#">>, "lineHash">>,
       <<<<"/", "*">>, "block">> >>

StringOpeners ==
    << <<<<"r", "'", "'", "'">>, "rawTripleSingle">>,
       <<<<"r", "\"", "\"", "\"">>, "rawTripleDouble">>,
       <<<<"r", "'">>, "rawSingle">>, <<<<"r", "\"">>, "rawDouble">>,
       <<<<"'", "'", "'">>, "tripleSingle">>,
       <<<<"\"", "\"", "\"">>, "tripleDouble">>,
       <<<<"'">>, "single">>, <<<<"\"">>, "double">> >>

\* The index in table T of the first opener that prefixes s at i, or 0.
FirstOpener(T, s, i) == SelectInSeq(T, LAMBDA e : HasPrefixAt(s, i, e[1]))

\* One step of a string or comment state at position i: the next state and
\* the next position (the default case of the parseSQL switch).
LiteralStep(st, s, i) ==
    IF st \in Escapes /\ s[i] = "\\" THEN [st |-> st, i |-> i + 2]
    ELSE IF HasPrefixAt(s, i, Closer[st])
         THEN [st |-> "normal", i |-> i + Len(Closer[st])]
         ELSE [st |-> st, i |-> i + 1]

(***************************************************************************)
(* Runes and bytes.  The token "WIDE" is a letter of three UTF-8 bytes    *)
(* (a CJK ideograph, say); every other token is ASCII, one byte per rune, *)
(* and a word token is a run of Len(w) letters.                            *)
(***************************************************************************)
RuneCount(c) == IF IsWord(c) /\ c # "WIDE" THEN Len(c) ELSE 1

\* strings.Index(string(runes[q:]), "`") counts bytes, not runes: the
\* bytes beyond one per rune of the backticked text between q and e.
ByteOverrun(s, q, e) == 2 * Cardinality({k \in q..e : s[k] = "WIDE"})

(***************************************************************************)
(* parseIdentifierSequence(s): the dot-separated identifier at position p. *)
(* Leading whitespace is skipped before every part, but not between a part *)
(* and the dot that follows it.  A backticked part is split on dots.       *)
(* The byte offset of the closing backtick is used as a rune offset, so   *)
(* a backticked part with wide letters takes in x further runes after its *)
(* backtick, closing one included, and the scan resumes x runes late.     *)
(* The model counts these runes in tokens: it asserts that they are one- *)
(* rune tokens and within the text, where the code would otherwise split *)
(* a word or panic on the slice bound.                                     *)
(* Result: the parts, the position after the last rune consumed, and      *)
(* whether a backtick was left unclosed.                                  *)
(***************************************************************************)
RECURSIVE IdentFrom(_, _, _)
IdentFrom(s, p, acc) ==
    LET q == FirstNotIn(s, p, Spaces)
        Continue(ps, n) ==
            IF n <= Len(s) /\ s[n] = "."
            THEN IdentFrom(s, n + 1, acc \o ps)
            ELSE [parts |-> acc \o ps, next |-> n, err |-> FALSE]
    IN IF q > Len(s) THEN [parts |-> acc, next |-> q, err |-> FALSE]
       ELSE IF s[q] = "TICK"
       THEN LET e == FirstIn(s, q + 1, {"TICK"})
                x == ByteOverrun(s, q + 1, e - 1)
            IN IF e > Len(s) THEN [parts |-> acc, next |-> q, err |-> TRUE]
               ELSE CASE Assert(/\ e - 1 + x <= Len(s)
                                /\ \A k \in e..Min({e + x, Len(s)}) :
                                      RuneCount(s[k]) = 1,
                                "rune offset inside a word or past the text")
                         -> Continue(SplitDots(SubSeq(s, q + 1, e - 1 + x)),
                                     e + 1 + x)
       ELSE IF IsWord(s[q])
       THEN LET e == FirstIn(s, q, EndsUnquotedPart)
            IN Continue(<<SubSeq(s, q, e - 1)>>, e)
       ELSE [parts |-> acc, next |-> q, err |-> FALSE]

ParseIdentifierSequence(s, p) == IdentFrom(s, p, <<>>)

\* formatTableID: the split form of the table ID of a 2- or 3-part
\* identifier (<<>> for other lengths), or err when a 2-part identifier
\* meets an empty default project.
formatTableID(parts, defaultProject) ==
    CASE Len(parts) < 2 \/ Len(parts) > 3 -> [err |-> FALSE, id |-> <<>>]
      [] Len(parts) = 3 -> [err |-> FALSE, id |-> parts]
      [] defaultProject = <<>> -> [err |-> TRUE, id |-> <<>>]
      [] OTHER -> [err |-> FALSE, id |-> defaultProject \o parts]

=============================================================================
