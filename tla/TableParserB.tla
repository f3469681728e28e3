----------------------------- MODULE TableParserB -----------------------------
(***************************************************************************)
(* TableParser and parseSQL of src/unnamed/part_000, the second version of *)
(* table_name_parser.go.  Its loop, frames and shared maps are those of    *)
(* TableParser: the comment, comma, parenthesis, semicolon, string, skip,  *)
(* literal and end branches are the same code, and this module reuses     *)
(* their actions.  The identifier branch differs:                          *)
(*   - identifiers are read by ParseIdentifierSequenceB;                  *)
(*   - the security switch is tested on parts[0] whatever the number of   *)
(*     parts, with "create or" among the CREATE prefixes;                 *)
(*   - UNION, INTERSECT and EXCEPT also end a table context;              *)
(*   - the verb is adopted after the keyword updates, also over "with".   *)
(* After the security switch the code tests the EXECUTE IMMEDIATE         *)
(* condition again and would call findAndParseSQLString; the first test   *)
(* has already returned on it, so that branch and findAndParseSQLString   *)
(* are never reached and have no action.  So is the consumed == 0 branch: *)
(* an identifier that starts with a letter or a closed backtick consumes  *)
(* at least one rune.                                                      *)
(***************************************************************************)
EXTENDS TableParser, SqlLexiconB

\* The error the security checks return for this identifier, or "",
\* tested in code order on keyword == strings.ToLower(parts[0]).
DenialB(f, parts) ==
    LET kw == Keyword(parts)
    IN CASE kw = "immediate" /\ f.lt = "execute" -> "executeImmediateDenied"
         [] f.lt \in {"create", "create or", "create or replace"}
              /\ parts[1] \in {<<"procedure">>, <<"function">>,
                               <<"table", " ", "function">>} -> "routineDenied"
         [] kw = "call" -> "callDenied"
         [] f.verb \in {"create", "alter", "drop"}
              /\ kw \in {"schema", "dataset"} -> "datasetOpDenied"
         [] OTHER -> ""

\* Whether the identifier is registered as a CTE name or an alias.
RegistersB(f, parts) ==
    \/ f.expC
    \/ /\ f.expA
       /\ ~(Len(parts) = 1 /\ Keyword(parts) \in tableContextExitKeywordsB
              \cup tableFollowsKeywords \cup {"select", "with"})

\* isKnownAlias after the re-check: known before, or registered now.
IsKnownAliasB(f, parts) ==
    \/ parts \in aliases
    \/ Len(parts) > 1 /\ <<parts[1]>> \in aliases
    \/ RegistersB(f, parts)

\* The keyword updates at the end of the identifier branch.
KeywordUpdateB(f, kw) ==
    CASE kw = "with" -> [f EXCEPT !.expC = TRUE, !.verb = "with"]
      [] kw = "as" -> [f EXCEPT !.expA = (f.verb # "with") \/ @,
                                !.expT = FALSE]
      [] kw \in tableFollowsKeywords ->
            [f EXCEPT !.expT = TRUE, !.ltk = kw, !.expA = FALSE]
      [] kw \in tableContextExitKeywordsB ->
            [f EXCEPT !.expT = FALSE, !.ltk = "", !.expA = FALSE]
      [] OTHER -> f

\* "Also track statement verb": a DML/DDL verb replaces "" or "with".
AdoptVerbB(verb, kw) ==
    IF kw \in Verbs /\ verb \in {"", "with"} THEN kw ELSE verb

IdentifierB ==
    /\ InNormal /\ NoCommentOpens /\ NoStringOpens
    /\ StartsIdentifier(Char)
    /\ LET r == ParseIdentifierSequenceB(sql, Top.i)
           parts == r.parts
           kw == Keyword(parts)
           reg == RegistersB(Top, parts)
           f2 == [Top EXCEPT !.expC = FALSE,
                             !.expA = IF Top.expC THEN @ ELSE FALSE]
           record == f2.expT /\ ~IsKnownAliasB(Top, parts)
           fmt == formatTableID(parts, DefaultProject)
           f3 == IF record
                 THEN [f2 EXCEPT !.expT = @ /\ f2.ltk = "from", !.expA = TRUE]
                 ELSE f2
           f4 == IF Len(parts) = 1
                 THEN [KeywordUpdateB(f3, kw) EXCEPT
                         !.lt = NextLastToken(f3.lt, kw),
                         !.verb = AdoptVerbB(@, kw)]
                 ELSE [f3 EXCEPT !.lt = ""]
       IN CASE r.err -> Stop("unclosedBacktick")
            [] DenialB(Top, parts) # "" -> Stop(DenialB(Top, parts))
            [] record /\ Len(parts) >= 2 /\ fmt.err -> Stop("missingProject")
            [] OTHER ->
                 /\ SetTop([f4 EXCEPT !.i = r.next])
                 /\ aliases' = IF reg THEN aliases \cup {parts, <<parts[1]>>}
                               ELSE aliases
                 /\ tableIDSet' = IF record /\ fmt.id # <<>>
                                  THEN tableIDSet \cup {fmt.id}
                                  ELSE tableIDSet
                 /\ UNCHANGED <<sql, visitedSQLs, status>>

StepB ==
    \/ OpenComment \/ Comma \/ OpenSubquery \/ CloseSubquery \/ Semicolon
    \/ OpenString \/ IdentifierB \/ SkipRune \/ InLiteral \/ EndOfText

=============================================================================
