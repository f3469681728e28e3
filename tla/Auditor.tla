------------------------------- MODULE Auditor -------------------------------
(***************************************************************************)
(* IsAnyTableExplicitlyReferenced of                                       *)
(* src/internal/tools/bigquery/bigquerycommon/table_name_parser.go: a scan *)
(* of the text with the string and comment states of parseSQL but without  *)
(* keyword semantics, which returns true at the first identifier sequence *)
(* of two or more parts that names one of the target tables, exactly or   *)
(* as a column qualifier, with or without the default project in front.   *)
(*                                                                         *)
(* The text is the variable sql, which the validator shares with the       *)
(* table parser; one action is one iteration of the scan loop.  Unlike     *)
(* parseSQL, the scan tests for an identifier before it tests the raw     *)
(* string prefixes r' and r", so a raw string is read as the identifier r *)
(* followed by an ordinary string.                                         *)
(***************************************************************************)
EXTENDS SqlLexicon

CONSTANT DefaultProject   \* split form of defaultProjectID; <<>> for ""

VARIABLES sql,       \* the text scanned
          targets,   \* split forms of the lowercased targetTableIDs
          apos,      \* the loop index i
          ast,       \* the scan state
          aresult    \* "running", or the result: "true", "false" or "error"

auditorVars == <<targets, apos, ast, aresult>>

\* The call IsAnyTableExplicitlyReferenced(sql, defaultProjectID, ts), up
\* to its first iteration; no target returns false at once.
AuditorStart(ts) ==
    /\ targets' = ts
    /\ apos' = 1
    /\ ast' = "normal"
    /\ aresult' = IF ts = {} THEN "false" ELSE "running"

AScanning == aresult = "running" /\ apos <= Len(sql)
ANormal == AScanning /\ ast = "normal"
ANoCommentOpens == FirstOpener(CommentOpeners, sql, apos) = 0

\* "--", "#" or "/*" opens a comment.
AOpenComment ==
    /\ ANormal /\ ~ANoCommentOpens
    /\ LET o == CommentOpeners[FirstOpener(CommentOpeners, sql, apos)]
       IN /\ ast' = o[2]
          /\ apos' = apos + Len(o[1])
    /\ UNCHANGED <<sql, targets, aresult>>

\* Mutant: only the exact table name matches, not a column reference.
NamesTarget_Exact(parts, t) == parts = t

\* fullID == target or strings.HasPrefix(fullID, target + "."), on split
\* forms: the target is a prefix of the parts.
NamesTarget(parts, t) == IsPrefix(t, parts)

\* The match of one identifier sequence against the targets, also with the
\* default project prepended.
Matches(parts) ==
    \E t \in targets :
        \/ NamesTarget(parts, t)
        \/ DefaultProject # <<>> /\ NamesTarget(DefaultProject \o parts, t)

\* An identifier sequence: an unclosed backtick fails the call, a match
\* returns true, anything else (one part included) is skipped.
AIdentifier ==
    /\ ANormal /\ ANoCommentOpens /\ StartsIdentifier(sql[apos])
    /\ LET r == ParseIdentifierSequence(sql, apos)
       IN CASE r.err -> aresult' = "error" /\ UNCHANGED <<apos, ast>>
            [] Len(r.parts) >= 2 /\ Matches(r.parts) ->
                 aresult' = "true" /\ UNCHANGED <<apos, ast>>
            [] OTHER -> apos' = r.next /\ UNCHANGED <<ast, aresult>>
    /\ UNCHANGED <<sql, targets>>

ANoStringOpens == FirstOpener(StringOpeners, sql, apos) = 0

\* One of the string openers.
AOpenString ==
    /\ ANormal /\ ANoCommentOpens /\ ~StartsIdentifier(sql[apos])
    /\ ~ANoStringOpens
    /\ LET o == StringOpeners[FirstOpener(StringOpeners, sql, apos)]
       IN /\ ast' = o[2]
          /\ apos' = apos + Len(o[1])
    /\ UNCHANGED <<sql, targets, aresult>>

\* Any other rune in the normal state: the i++ after the switch.
ASkipRune ==
    /\ ANormal /\ ANoCommentOpens /\ ~StartsIdentifier(sql[apos])
    /\ ANoStringOpens
    /\ apos' = apos + 1
    /\ UNCHANGED <<sql, targets, ast, aresult>>

\* One rune (or escape pair, or closer) inside a string or comment.
AInLiteral ==
    /\ AScanning /\ ast # "normal"
    /\ LET n == LiteralStep(ast, sql, apos)
       IN /\ ast' = n.st
          /\ apos' = n.i
    /\ UNCHANGED <<sql, targets, aresult>>

\* The loop ends without a match.
AEnd ==
    /\ aresult = "running" /\ apos > Len(sql)
    /\ aresult' = "false"
    /\ UNCHANGED <<sql, targets, apos, ast>>

AStep ==
    \/ AOpenComment \/ AIdentifier \/ AOpenString \/ ASkipRune
    \/ AInLiteral \/ AEnd

=============================================================================
