----------------------------- MODULE TableParser -----------------------------
(***************************************************************************)
(* TableParser and parseSQL of                                             *)
(* src/internal/tools/bigquery/bigquerycommon/table_name_parser.go.        *)
(*                                                                         *)
(* parseSQL is a loop over the runes of its text with local variables      *)
(* (state, expectingTable, expectingAlias, expectingCTE, lastTableKeyword, *)
(* lastToken, statementVerb, i) and three maps shared by every recursive   *)
(* call (tableIDSet, visitedSQLs, aliases).  A subquery is a recursive     *)
(* call on the suffix after "(".  The model keeps the call stack as the    *)
(* sequence frames of the callers' local variables; positions are         *)
(* absolute in the top-level text, so a callee's text is a suffix of sql.  *)
(* One action is one iteration of the loop (or the exit after it).         *)
(***************************************************************************)
EXTENDS SqlLexicon

CONSTANT DefaultProject   \* split form of defaultProjectID; <<>> for ""

VARIABLES sql,          \* the text given to TableParser
          frames,       \* the stack of parseSQL activations, callee last
          tableIDSet,   \* shared: split forms of the table IDs found
          aliases,      \* shared: CTE names and aliases, as identifiers
          visitedSQLs,  \* shared: the texts parseSQL has been called on
          status        \* "running", "done" or the error returned

parserVars == <<sql, frames, tableIDSet, aliases, visitedSQLs, status>>

Errors == {"unclosedBacktick", "unclosedSubquery", "callDenied",
           "executeImmediateDenied", "routineDenied", "datasetOpDenied",
           "missingProject"}

\* The local variables of one parseSQL activation at the top of its loop.
NewFrame(i, inSubquery) ==
    [i |-> i, st |-> "normal", expT |-> FALSE, expA |-> FALSE,
     expC |-> FALSE, ltk |-> "", lt |-> "", verb |-> "", sub |-> inSubquery]

Top == frames[Len(frames)]
SetTop(f) == frames' = [frames EXCEPT ![Len(frames)] = f]
Char == sql[Top.i]

\* TableParser(sql, defaultProjectID) up to the first iteration of the
\* top-level parseSQL, which has put its text into visitedSQLs.
ParserInit(text) ==
    /\ sql = text
    /\ frames = <<NewFrame(1, FALSE)>>
    /\ tableIDSet = {}
    /\ aliases = {}
    /\ visitedSQLs = {text}
    /\ status = "running"

Stop(err) ==
    /\ status' = err
    /\ UNCHANGED <<sql, frames, tableIDSet, aliases, visitedSQLs>>

Scanning == status = "running" /\ Top.i <= Len(sql)
InNormal == Scanning /\ Top.st = "normal"
NoCommentOpens == FirstOpener(CommentOpeners, sql, Top.i) = 0
OpensSubquery == Char = "(" /\ (Top.expT \/ Top.expC \/ Top.lt = "as")
ClosesSubquery == Char = ")" /\ Top.sub
NoStringOpens == FirstOpener(StringOpeners, sql, Top.i) = 0

\* "--", "#" or "/*" in the normal state.
OpenComment ==
    /\ InNormal /\ ~NoCommentOpens
    /\ LET o == CommentOpeners[FirstOpener(CommentOpeners, sql, Top.i)]
       IN SetTop([Top EXCEPT !.st = o[2], !.i = @ + Len(o[1])])
    /\ UNCHANGED <<sql, tableIDSet, aliases, visitedSQLs, status>>

\* Mutant: the FROM-list arm of the comma is lost, so a comma only ever
\* continues a WITH list.
Comma_NoFromList ==
    /\ InNormal /\ NoCommentOpens /\ Char = ","
    /\ SetTop(CASE Top.verb = "with" ->
                      [Top EXCEPT !.expC = TRUE, !.expA = FALSE, !.i = @ + 1]
                [] OTHER -> [Top EXCEPT !.i = @ + 1])
    /\ UNCHANGED <<sql, tableIDSet, aliases, visitedSQLs, status>>

\* "," continues a FROM list or a WITH list.
Comma ==
    /\ InNormal /\ NoCommentOpens /\ Char = ","
    /\ SetTop(CASE Top.ltk = "from" ->
                      [Top EXCEPT !.expT = TRUE, !.expA = FALSE, !.i = @ + 1]
                [] Top.verb = "with" ->
                      [Top EXCEPT !.expC = TRUE, !.expA = FALSE, !.i = @ + 1]
                [] OTHER -> [Top EXCEPT !.i = @ + 1])
    /\ UNCHANGED <<sql, tableIDSet, aliases, visitedSQLs, status>>

\* The caller's variables once the subquery call returned consumed, so
\* that the loop resumes at absolute position n.
ResumeAfter(f, n) ==
    [f EXCEPT !.i = n, !.expT = f.expT /\ f.ltk = "from", !.expA = TRUE,
              !.expC = FALSE]

\* "(" where a table, a CTE body or an AS body is expected: the recursive
\* call parseSQL(string(runes[i+1:]), ..., true).  A text already visited
\* returns len(sql) at once.
OpenSubquery ==
    /\ InNormal /\ NoCommentOpens /\ OpensSubquery
    /\ LET text == SubSeq(sql, Top.i + 1, Len(sql))
       IN IF text \in visitedSQLs
          THEN /\ SetTop(ResumeAfter(Top, Len(sql) + 1))
               /\ UNCHANGED visitedSQLs
          ELSE /\ frames' = Append(frames, NewFrame(Top.i + 1, TRUE))
               /\ visitedSQLs' = visitedSQLs \cup {text}
    /\ UNCHANGED <<sql, tableIDSet, aliases, status>>

\* ")" inside a subquery returns i + 1 to the caller.
CloseSubquery ==
    /\ InNormal /\ NoCommentOpens /\ ClosesSubquery
    /\ LET caller == frames[Len(frames) - 1]
       IN frames' = Append(SubSeq(frames, 1, Len(frames) - 2),
                           ResumeAfter(caller, Top.i + 1))
    /\ UNCHANGED <<sql, tableIDSet, aliases, visitedSQLs, status>>

\* ";" ends a statement; lastTableKeyword and the aliases survive it.
Semicolon ==
    /\ InNormal /\ NoCommentOpens /\ Char = ";"
    /\ SetTop([Top EXCEPT !.verb = "", !.lt = "", !.expT = FALSE,
                          !.expA = FALSE, !.expC = FALSE, !.i = @ + 1])
    /\ UNCHANGED <<sql, tableIDSet, aliases, visitedSQLs, status>>

\* One of the eight string openers, raw and triple forms first.
OpenString ==
    /\ InNormal /\ NoCommentOpens /\ ~NoStringOpens
    /\ LET o == StringOpeners[FirstOpener(StringOpeners, sql, Top.i)]
       IN SetTop([Top EXCEPT !.st = o[2], !.i = @ + Len(o[1])])
    /\ UNCHANGED <<sql, tableIDSet, aliases, visitedSQLs, status>>

(***************************************************************************)
(* An identifier sequence in the normal state: the security gate, alias   *)
(* resolution, table recording and the keyword updates, in code order.    *)
(***************************************************************************)
\* The error the security switch returns for this identifier, or "".
Denial(f, parts, verb) ==
    LET kw == Keyword(parts)
    IN CASE Len(parts) # 1 -> ""
         [] kw = "call" -> "callDenied"
         [] kw = "immediate" /\ f.lt = "execute" -> "executeImmediateDenied"
         [] kw \in {"procedure", "function"}
              /\ f.lt \in {"create", "create or replace"} -> "routineDenied"
         [] verb \in {"create", "alter", "drop"}
              /\ kw \in {"schema", "dataset"} -> "datasetOpDenied"
         [] OTHER -> ""

\* statementVerb after the switch adopts a DML/DDL verb.
AdoptVerb(f, parts) ==
    IF Len(parts) = 1 /\ Keyword(parts) \in Verbs /\ f.verb = ""
    THEN Keyword(parts) ELSE f.verb

\* Whether the identifier is registered as a CTE name or an alias.
Registers(f, parts) ==
    \/ f.expC
    \/ /\ f.expA
       /\ ~(Len(parts) = 1 /\ Keyword(parts) \in tableContextExitKeywords
              \cup tableFollowsKeywords \cup {"select", "with"})

\* isKnownAlias after the re-check.
IsKnownAlias(f, parts) ==
    LET aliases1 == IF Registers(f, parts)
                    THEN aliases \cup {parts, <<parts[1]>>} ELSE aliases
    IN \/ parts \in aliases
       \/ Len(parts) > 1 /\ <<parts[1]>> \in aliases
       \/ ~f.expC /\ Registers(f, parts)
       \/ parts \in aliases1

\* Mutant: an exit keyword is stored as lastTableKeyword.
KeywordUpdate_ExitKeepsKeyword(f, kw) ==
    CASE kw = "with" -> [f EXCEPT !.expC = TRUE, !.verb = "with"]
      [] kw = "as" -> [f EXCEPT !.expA = (f.verb # "with") \/ @,
                                !.expT = FALSE]
      [] kw \in tableFollowsKeywords ->
            [f EXCEPT !.expT = TRUE, !.ltk = kw, !.expA = FALSE]
      [] kw \in tableContextExitKeywords ->
            [f EXCEPT !.expT = FALSE, !.ltk = kw, !.expA = FALSE]
      [] OTHER -> f

\* The keyword updates at the end of the identifier branch.
KeywordUpdate(f, kw) ==
    CASE kw = "with" -> [f EXCEPT !.expC = TRUE, !.verb = "with"]
      [] kw = "as" -> [f EXCEPT !.expA = (f.verb # "with") \/ @,
                                !.expT = FALSE]
      [] kw \in tableFollowsKeywords ->
            [f EXCEPT !.expT = TRUE, !.ltk = kw, !.expA = FALSE]
      [] kw \in tableContextExitKeywords ->
            [f EXCEPT !.expT = FALSE, !.ltk = "", !.expA = FALSE]
      [] OTHER -> f

NextLastToken(lt, kw) ==
    CASE lt = "create" /\ kw = "or" -> "create or"
      [] lt = "create or" /\ kw = "replace" -> "create or replace"
      [] OTHER -> kw

Identifier ==
    /\ InNormal /\ NoCommentOpens /\ NoStringOpens
    /\ StartsIdentifier(Char)
    /\ LET r == ParseIdentifierSequence(sql, Top.i)
           parts == r.parts
           kw == Keyword(parts)
           one == Len(parts) = 1
           f1 == [Top EXCEPT !.verb = AdoptVerb(Top, parts)]
           reg == Registers(f1, parts)
           f2 == [f1 EXCEPT !.expC = FALSE,
                            !.expA = IF f1.expC THEN @ ELSE FALSE]
           record == f2.expT /\ ~IsKnownAlias(f1, parts)
           fmt == formatTableID(parts, DefaultProject)
           f3 == IF record
                 THEN [f2 EXCEPT !.expT = @ /\ f2.ltk = "from", !.expA = TRUE]
                 ELSE f2
           f4 == IF one
                 THEN [KeywordUpdate(f3, kw) EXCEPT
                         !.lt = NextLastToken(f3.lt, kw)]
                 ELSE [f3 EXCEPT !.lt = ""]
       IN CASE r.err -> Stop("unclosedBacktick")
            [] Denial(Top, parts, f1.verb) # "" ->
                 Stop(Denial(Top, parts, f1.verb))
            [] record /\ Len(parts) >= 2 /\ fmt.err -> Stop("missingProject")
            [] OTHER ->
                 /\ SetTop([f4 EXCEPT !.i = r.next])
                 /\ aliases' = IF reg THEN aliases \cup {parts, <<parts[1]>>}
                               ELSE aliases
                 /\ tableIDSet' = IF record /\ fmt.id # <<>>
                                  THEN tableIDSet \cup {fmt.id}
                                  ELSE tableIDSet
                 /\ UNCHANGED <<sql, visitedSQLs, status>>

\* Mutant: the default branch continues without i++.
SkipRune_NoAdvance ==
    /\ InNormal /\ NoCommentOpens /\ NoStringOpens
    /\ Char \notin {",", ";"}
    /\ ~OpensSubquery /\ ~ClosesSubquery
    /\ ~StartsIdentifier(Char)
    /\ SetTop(Top)
    /\ UNCHANGED <<sql, tableIDSet, aliases, visitedSQLs, status>>

\* Any other rune in the normal state: i++.
SkipRune ==
    /\ InNormal /\ NoCommentOpens /\ NoStringOpens
    /\ Char \notin {",", ";"}
    /\ ~OpensSubquery /\ ~ClosesSubquery
    /\ ~StartsIdentifier(Char)
    /\ SetTop([Top EXCEPT !.i = @ + 1])
    /\ UNCHANGED <<sql, tableIDSet, aliases, visitedSQLs, status>>

\* One rune (or escape pair, or closer) inside a string or comment.
InLiteral ==
    /\ Scanning /\ Top.st # "normal"
    /\ LET n == LiteralStep(Top.st, sql, Top.i)
       IN SetTop([Top EXCEPT !.st = n.st, !.i = n.i])
    /\ UNCHANGED <<sql, tableIDSet, aliases, visitedSQLs, status>>

\* The loop ends: a subquery without ")" fails, the top-level call returns.
EndOfText ==
    /\ status = "running" /\ Top.i > Len(sql)
    /\ IF Top.sub THEN Stop("unclosedSubquery") ELSE Stop("done")

Step ==
    \/ OpenComment \/ Comma \/ OpenSubquery \/ CloseSubquery \/ Semicolon
    \/ OpenString \/ Identifier \/ SkipRune \/ InLiteral \/ EndOfText

\* The list TableParser returns: the table IDs none of whose suffixes is a
\* known alias.
TableParserResult ==
    {id \in tableIDSet :
        \A j \in 1..Len(id) : SubSeq(id, j, Len(id)) \notin aliases}

=============================================================================
