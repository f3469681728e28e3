------------------------------- MODULE AuditorB -------------------------------
(***************************************************************************)
(* IsAnyTableExplicitlyReferenced of src/unnamed/part_000, the second     *)
(* version of the auditor.  Its comment, string, skip, literal and end    *)
(* branches are those of Auditor; it differs in that                      *)
(*   - it has no early return for an empty target list: the scan runs and *)
(*     returns false at its end;                                          *)
(*   - identifiers are read by ParseIdentifierSequenceB, comments and     *)
(*     whitespace around the dots included;                               *)
(*   - an identifier of one part is compared too;                         *)
(*   - the identifier is also compared with its backticks removed, and   *)
(*     the default project is put in front of the cleaned identifier.     *)
(***************************************************************************)
EXTENDS Auditor, SqlLexiconB

\* The call, up to its first iteration.
AuditorStartB(ts) ==
    /\ targets' = ts
    /\ apos' = 1
    /\ ast' = "normal"
    /\ aresult' = "running"

\* strings.ReplaceAll(id, "`", "") on a split form.
Clean(id) == [k \in DOMAIN id |-> SelectSeq(id[k], LAMBDA c : c # "TICK")]

\* Mutant: the default project is not put in front of the identifier.
MatchesB_NoDefault(parts) ==
    \E t \in targets :
        \/ NamesTarget(parts, t)
        \/ NamesTarget(Clean(parts), Clean(t))

\* The three comparisons of the loop over the targets.
MatchesB(parts) ==
    \E t \in targets :
        \/ NamesTarget(parts, t)
        \/ NamesTarget(Clean(parts), Clean(t))
        \/ /\ DefaultProject # <<>>
           /\ NamesTarget(Clean(DefaultProject) \o Clean(parts), Clean(t))

\* An identifier sequence: an unclosed backtick fails the call, a match
\* returns true, anything else is skipped.
AIdentifierB ==
    /\ ANormal /\ ANoCommentOpens /\ StartsIdentifier(sql[apos])
    /\ LET r == ParseIdentifierSequenceB(sql, apos)
       IN CASE r.err -> aresult' = "error" /\ UNCHANGED <<apos, ast>>
            [] MatchesB(r.parts) -> aresult' = "true" /\ UNCHANGED <<apos, ast>>
            [] OTHER -> apos' = r.next /\ UNCHANGED <<ast, aresult>>
    /\ UNCHANGED <<sql, targets>>

AStepB ==
    \/ AOpenComment \/ AIdentifierB \/ AOpenString \/ ASkipRune
    \/ AInLiteral \/ AEnd

=============================================================================
