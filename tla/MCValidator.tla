----------------------------- MODULE MCValidator -----------------------------
(***************************************************************************)
(* The validator on every text made of at most MaxPhrases phrases, with   *)
(* project p, the allowed dataset p.d, the forbidden dataset p.e and the  *)
(* authorized view p.d.v, which reads the forbidden table p.e.u.          *)
(***************************************************************************)
EXTENDS Validator, SequencesExt

CONSTANTS Phrases, MaxPhrases

ProjectP == << <<"p">> >>

\* A project ID of the form domain:name, which the code splits on its dot.
ProjectDomain == << <<"example">>, <<"com:p">> >>

AllowedD == { <<ProjectP, <<"d">>>>, <<ProjectDomain, <<"d">>>> }

\* p.d.v is an authorized view on p.e.u (and so is its domain twin).
ViewDV ==
    [v \in {ProjectP \o << <<"d">>, <<"v">> >>,
            ProjectDomain \o << <<"d">>, <<"v">> >>} |->
        {SubSeq(v, 1, Len(v) - 2) \o << <<"e">>, <<"u">> >>}]

\* A query and a call.
PlannerTypes == {"SELECT", "CALL"}

\* FROM, an allowed table, the forbidden table (backticked), the
\* authorized view, a CTE head, an alias, parentheses, separators, a
\* quote, a comment opener and a line end; CREATE TABLE, and a rename of
\* the allowed table p.d.t up to its destination.
ValidatorPhrases ==
    { <<"create", " ", "table", " ">>,
      <<"alter", " ", "table", " ", "d", ".", "t", " ", "rename", " ", "to", " ">>,
      <<"from", " ">>, <<"d", ".", "t">>, <<"TICK", "e", ".", "u", "TICK">>,
      <<"d", ".", "v">>, <<"with", " ", "t", " ", "as", " ">>,
      <<" ", "as", " ", "x", " ">>, <<"(">>, <<")">>, <<",">>, <<";">>,
      <<"'">>, <<" ", "-", "-">>, <<"\n">> }

\* An identifier ending in "--" just before a quote, a line end, FROM and
\* the forbidden table.
DashPhrases ==
    { <<"a", "-", "-", "'">>, <<"\n">>, <<"from", " ">>,
      <<"TICK", "e", ".", "u", "TICK">> }

\* FROM and the forbidden table written with spaces around its dot.
SpacedPhrases == { <<"from", " ">>, <<"e", " ", ".", " ", "u">> }

\* FROM and the forbidden table.
PlainPhrases == { <<"from", " ">>, <<"TICK", "e", ".", "u", "TICK">> }

\* A CTE named t, FROM and the forbidden table p.e.t.
CTEPhrases ==
    { <<"with", " ", "t", " ", "as", " ", "(", "x", ")">>, <<" ", "from", " ">>,
      <<"e", ".", "t">> }

\* SELECT of the column u of the alias e, which reads the view p.d.v.
AliasColumnPhrases ==
    { <<"select", " ", "e", ".", "u", " ">>, <<"from", " ">>, <<"d", ".", "v">>,
      <<" ", "e">> }

\* SELECT 1 AS `WIDE`,'a' FROM the forbidden table: a backticked alias of
\* one three-byte letter, then a string literal.
WidePhrases ==
    { <<"select", " ", "1", " ", "as", " ">>,
      <<"TICK", "WIDE", "TICK", ",", "'", "a", "'">>, <<" ", "from", " ">>,
      <<"e", ".", "u">> }

Texts == {FlattenSeq(ps) : ps \in BoundedSeq(Phrases, MaxPhrases)}

Init == \E t \in Texts : VInit(t)

Next == VNext

\* Each call runs its steps one after another to its return.
Spec == Init /\ [][Next]_vars /\ WF_vars(Next)

TypeOK ==
    /\ vphase \in {"dryRun", "audit", "parse", "done"}
    /\ verdict \in {"none", "allow", "deny"}
    /\ aresult \in {"running", "true", "false", "error"}
    /\ (verdict # "none") = (vphase = "done")

\* The project and the dataset of a split table ID.
ProjectOf(id) == SubSeq(id, 1, Len(id) - 2)
DatasetOf(id) == id[Len(id) - 1]

(***************************************************************************)
(* No bypass (spec P1): when ValidateQueryAgainstAllowedDatasets returns  *)
(* the dry-run job, every table the text itself names in a FROM or JOIN  *)
(* clause lies in an allowed dataset, whatever the planner answered and  *)
(* whichever of the auditor and the parser decided.                       *)
(***************************************************************************)
NoExplicitBypass ==
    verdict = "allow" =>
        \A id \in Dialect!DialectTables(sql, Project) :
            IsDatasetAllowed(ProjectOf(id), DatasetOf(id))

(***************************************************************************)
(* No write into a forbidden dataset (spec section 4.E, step 3): when the *)
(* call returns the dry-run job, the table a CREATE TABLE or ALTER TABLE  *)
(* names and the destination of a RENAME TO lie in allowed datasets.  The *)
(* local parser does not read a RENAME TO destination, so the dry run's   *)
(* DdlTargetTable and DdlDestinationTable and the auditor carry the check. *)
(***************************************************************************)
NoForbiddenWrite ==
    verdict = "allow" =>
        \A id \in Dialect!DdlTables(sql, Project) :
            IsDatasetAllowed(ProjectOf(id), DatasetOf(id))

(***************************************************************************)
(* Authorized views stay usable (spec section 4.E, step 6): a text that  *)
(* names only tables of allowed datasets, and that the planner analysed  *)
(* as a query reading at least one table, is not denied, also when a     *)
(* view it reads brings in a forbidden table.                             *)
(***************************************************************************)
ViewsUsable ==
    /\ verdict = "deny"
    /\ job.kind = "stats"
    /\ job.st \notin GateTypes /\ job.refs # {}
    => \E id \in Dialect!DialectTables(sql, Project)
                  \cup Dialect!DdlTables(sql, Project) :
           ~IsDatasetAllowed(ProjectOf(id), DatasetOf(id))

=============================================================================
