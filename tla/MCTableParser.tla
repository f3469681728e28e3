---------------------------- MODULE MCTableParser ----------------------------
(***************************************************************************)
(* TableParser on every text made of at most MaxPhrases phrases.  A phrase *)
(* is a short token sequence; texts are all their concatenations, so the  *)
(* runs cover every interleaving of keywords, paths, literals, comments,  *)
(* parentheses and separators up to that length.                          *)
(***************************************************************************)
EXTENDS TableParser

CONSTANTS Phrases, MaxPhrases

Dialect == INSTANCE BigQueryDialect

ProjectP == << <<"p">> >>

\* FROM, a clause-ending WHERE, two paths (one backticked), a CTE head, an
\* alias, parentheses, a call f(1), the separators, a quote, a comment
\* opener and a line end.
ParserPhrases ==
    { <<"from", " ">>, <<" ", "where", " ">>, <<"d", ".", "t">>,
      <<"TICK", "e", ".", "u", "TICK">>,
      <<"with", " ", "t", " ", "as", " ">>, <<" ", "as", " ", "x", " ">>,
      <<"(">>, <<")">>, <<"f", "(", "1", ")">>, <<",">>, <<";">>, <<"'">>,
      <<" ", "-", "-">>, <<"\n">> }

\* The phrases that nest: subqueries, calls, literals and comments, around
\* a FROM clause and a CTE head.
LivePhrases ==
    { <<"from", " ">>, <<"d", ".", "t">>, <<"with", " ", "t", " ", "as", " ">>,
      <<"(">>, <<")">>, <<"f", "(", "1", ")">>, <<"'">>, <<" ", "-", "-">>,
      <<"\n">>, <<"TICK">> }

Texts == {FlattenSeq(ps) : ps \in BoundedSeq(Phrases, MaxPhrases)}

Init == \E t \in Texts : ParserInit(t)

Next == Step

\* parseSQL is a sequential loop: nothing but its own next iteration is
\* ever waiting, so every enabled iteration eventually runs.
Spec == Init /\ [][Next]_parserVars /\ WF_parserVars(Next)

TypeOK ==
    /\ status \in {"running", "done"} \cup Errors
    /\ frames \in Seq([i : 1..(Len(sql) + 2), st : ParserStates,
                       expT : BOOLEAN, expA : BOOLEAN, expC : BOOLEAN,
                       ltk : {""} \cup tableFollowsKeywords,
                       lt : STRING \cup {""}, verb : {"", "with"} \cup Verbs,
                       sub : BOOLEAN])
    /\ Len(frames) >= 1

(***************************************************************************)
(* Termination (spec P3): every call of TableParser returns, whatever the *)
(* nesting of subquery parentheses, literals and comments in its text.    *)
(***************************************************************************)
ParseTerminates == <>(status # "running")

(***************************************************************************)
(* No under-reporting (spec section 1, "must never under-report tables in *)
(* security-relevant positions"): when TableParser succeeds on a text the *)
(* planner accepts, every table                                            *)
(* the dialect reads after FROM or JOIN is in its result, unless a suffix *)
(* of the table ID is a name the text declares as a CTE or an alias, the  *)
(* one suppression the spec (section 9) accepts.                          *)
(***************************************************************************)
Shadowed(id) ==
    \E j \in 1..Len(id) : SubSeq(id, j, Len(id)) \in Dialect!DeclaredNames(sql)

NoUnderReport ==
    status = "done" /\ Dialect!DialectAccepts(sql) =>
        \A id \in Dialect!DialectTables(sql, DefaultProject) :
            id \in TableParserResult \/ Shadowed(id)

=============================================================================
