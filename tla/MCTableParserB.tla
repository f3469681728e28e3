---------------------------- MODULE MCTableParserB ----------------------------
(***************************************************************************)
(* The second version of TableParser (TableParserB) on every text made of *)
(* at most MaxPhrases phrases, against the planner's reading of the text. *)
(***************************************************************************)
EXTENDS TableParserB

CONSTANTS Phrases, MaxPhrases

Dialect == INSTANCE BigQueryDialect

ProjectP == << <<"p">> >>

\* FROM, a set operator, paths plain, backticked, with spaces around the
\* dot and with a comment before it, a CTE head, parentheses, the comma,
\* a quote, a comment opener and a line end.
ParserPhrasesB ==
    { <<"from", " ">>, <<" ", "union", " ">>, <<"d", ".", "t">>,
      <<"TICK", "e", ".", "u", "TICK">>, <<"e", " ", ".", " ", "u">>,
      <<"d", "/", "*", "*", "/", ".", "t">>,
      <<"with", " ", "t", " ", "as", " ">>, <<"(">>, <<")">>, <<",">>,
      <<"'">>, <<" ", "-", "-">>, <<"\n">> }

Texts == {FlattenSeq(ps) : ps \in BoundedSeq(Phrases, MaxPhrases)}

Init == \E t \in Texts : ParserInit(t)

\* TableParser has returned: its result no longer changes.
Returned == status # "running" /\ UNCHANGED parserVars

Next == StepB \/ Returned

Spec == Init /\ [][Next]_parserVars /\ WF_parserVars(Next)

\* Suffixes of a table ID that the text declares as a CTE name or alias.
Shadowed(id) ==
    \E j \in 1..Len(id) : SubSeq(id, j, Len(id)) \in Dialect!DeclaredNames(sql)

(***************************************************************************)
(* No under-reporting (spec section 1) for the second version: when its   *)
(* TableParser succeeds on a text the planner accepts, every table the    *)
(* planner reads after FROM or JOIN is in the result unless a declared    *)
(* name shadows it, also when whitespace or a comment stands next to a    *)
(* dot of the table's path, which its parseIdentifierSequence skips.      *)
(***************************************************************************)
NoUnderReport ==
    status = "done" /\ Dialect!DialectAccepts(sql) =>
        \A id \in Dialect!DialectTables(sql, DefaultProject) :
            id \in TableParserResult \/ Shadowed(id)

(***************************************************************************)
(* The scan always moves forward (spec section 5: the parser terminates   *)
(* on any finite input).  Every iteration of parseSQL that does not       *)
(* return leaves the innermost activation at a later rune than the one it *)
(* started at: "i += consumed" after parseIdentifierSequence, whose skip  *)
(* loop before parts and dots must have advanced; "i++" and "i += 2";     *)
(* the caller's "i += consumed + 1" after a subquery, and a subquery     *)
(* starting after its "(".  Positions stop at the end of the text, where  *)
(* the loop exits, and no running state is stuck (deadlock is checked),  *)
(* so every call returns.                                                  *)
(***************************************************************************)
ScanAdvances ==
    [][status' = "running" => Top'.i > Top.i]_parserVars

=============================================================================
