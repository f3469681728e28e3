------------------------------ MODULE Validator ------------------------------
(***************************************************************************)
(* ValidateQueryAgainstAllowedDatasets of                                  *)
(* src/internal/tools/bigquery/bigquerycommon/util.go: the dry run, the    *)
(* statement-type gate, the violation check against the allow-list, the  *)
(* explicit-reference auditor for tables that came through authorized     *)
(* views, and the fall-back table parser.                                  *)
(*                                                                         *)
(* The auditor and the parser are loops; each is the module of its own,   *)
(* instantiated here on the shared text sql, and the validator hands      *)
(* control to it through the phase vphase.  The dry run is the BigQuery   *)
(* planner, outside this repository: its answer is modelled from the spec *)
(* (section 4.E) and from BigQueryDialect.                                 *)
(***************************************************************************)
EXTENDS Naturals, Sequences

CONSTANTS Project,          \* split form of projectID
          AllowedDatasets,  \* pairs <<split project, dataset part>>
          Views,            \* authorized views: view ID -> the IDs it reads
          StatementTypes,   \* statement types the planner may report
          Inconclusive      \* whether the planner may list no tables

VARIABLES sql, frames, tableIDSet, aliases, visitedSQLs, status,
          targets, apos, ast, aresult,
          job,      \* dryRunJob: its kind, statement type and tables
          vphase,   \* "dryRun", "audit", "parse" or "done"
          verdict   \* "none", "allow" or "deny"

vars == <<sql, frames, tableIDSet, aliases, visitedSQLs, status,
          targets, apos, ast, aresult, job, vphase, verdict>>

P == INSTANCE TableParser WITH DefaultProject <- Project
A == INSTANCE Auditor WITH DefaultProject <- Project
Dialect == INSTANCE BigQueryDialect

\* DatasetValidator.IsDatasetAllowed(projectID, datasetID)
IsDatasetAllowed(project, dataset) == <<project, dataset>> \in AllowedDatasets

(***************************************************************************)
(* The table IDs the code collects from the dry run: ReferencedTables, the *)
(* tables the text reads and, for an authorized view among them, the      *)
(* tables the view reads; then DdlTargetTable and DdlDestinationTable.    *)
(* Each is formatted "%s.%s.%s" and split on dots, which is the           *)
(* concatenation of the split project, dataset and table.                 *)
(***************************************************************************)
\* Mutant: the DDL target and destination tables are not collected.
ReferencedTables_NoDdl(s) ==
    LET typed == Dialect!DialectTables(s, Project)
    IN typed \cup UNION {Views[v] : v \in typed \cap DOMAIN Views}

ReferencedTables(s) ==
    LET typed == Dialect!DialectTables(s, Project)
    IN typed \cup UNION {Views[v] : v \in typed \cap DOMAIN Views}
             \cup Dialect!DdlTables(s, Project)

\* The three-part IDs of ids whose dataset is not allowed.
Violations(ids) ==
    {id \in ids : Len(id) = 3 /\ ~IsDatasetAllowed(<<id[1]>>, id[2])}

GateTypes == {"CREATE_SCHEMA", "DROP_SCHEMA", "ALTER_SCHEMA",
              "CREATE_FUNCTION", "CREATE_TABLE_FUNCTION", "CREATE_PROCEDURE",
              "CALL"}

\* The answer of the dry run: "none" before it, "error", "noStats", or
\* "stats" with the statement type and the referenced tables.
Job(kind, st, refs) == [kind |-> kind, st |-> st, refs |-> refs]

\* Mutant: the fast allow tests || instead of &&.
FastAllow_Or(refs, viol) == refs # {} \/ viol = {}

\* len(tableIDSet) > 0 && len(violatingTables) == 0: the planner saw tables
\* and none of them is forbidden.
FastAllow(refs, viol) == refs # {} /\ viol = {}

\* The validator is called on text; the parser's and the auditor's
\* variables hold their values from before either is called.
VInit(text) ==
    /\ P!ParserInit(text)
    /\ targets = {} /\ apos = 1 /\ ast = "normal" /\ aresult = "running"
    /\ job = Job("none", "", {}) /\ vphase = "dryRun" /\ verdict = "none"

\* Mutant: the verdict is set but the call does not return.
Decide_NoReturn(v) == vphase' = vphase /\ verdict' = v

\* The call returns: with the dry-run job ("allow") or with an error.
Decide(v) == vphase' = "done" /\ verdict' = v

parserVars == <<frames, tableIDSet, aliases, visitedSQLs, status>>
auditorVars == <<targets, apos, ast, aresult>>

(***************************************************************************)
(* DryRunQuery: the job inserted with dryRun = true and legacy SQL off,   *)
(* and what Jobs.Insert answers.  A transport failure is an error on any  *)
(* text; a text the dialect rejects gets nothing else.  An accepted text  *)
(* may also get a job without statistics, or statistics with a statement *)
(* type and the referenced tables.  When Inconclusive holds, the planner  *)
(* may list no tables at all, the case the code's fall-back to           *)
(* TableParser is there for.  A dry run executes nothing.                 *)
(***************************************************************************)
DryRunQuery(s) ==
    {Job("error", "", {})}
    \cup IF Dialect!DialectAccepts(s)
          THEN {Job("noStats", "", {})}
               \cup {Job("stats", st, refs) :
                       st \in StatementTypes,
                       refs \in {ReferencedTables(s)}
                                \cup (IF Inconclusive THEN {{}} ELSE {})}
          ELSE {}

\* The call up to the auditor: the dry run, the gate, the violation check
\* and the fast allow.
DryRun ==
    /\ vphase = "dryRun"
    /\ \E j \in DryRunQuery(sql) :
          LET viol == Violations(j.refs)
          IN /\ job' = j
             /\ CASE j.kind # "stats" \/ j.st \in GateTypes ->
                       Decide("deny") /\ UNCHANGED auditorVars
                  [] FastAllow(j.refs, viol) ->
                       Decide("allow") /\ UNCHANGED auditorVars
                  [] viol # {} ->
                       /\ A!AuditorStart(viol)
                       /\ vphase' = "audit" /\ UNCHANGED verdict
                  [] OTHER ->
                       /\ vphase' = "parse"
                       /\ UNCHANGED <<verdict, auditorVars>>
    /\ UNCHANGED <<sql, parserVars>>

Audit ==
    /\ vphase = "audit" /\ A!AStep
    /\ UNCHANGED <<parserVars, job, vphase, verdict>>

\* Mutant: the test of the auditor's answer is inverted.
AfterAudit_Inverted ==
    /\ vphase = "audit" /\ aresult # "running"
    /\ IF aresult = "true" THEN vphase' = "parse" /\ UNCHANGED verdict
                         ELSE Decide("deny")
    /\ UNCHANGED <<sql, parserVars, auditorVars, job>>

\* The auditor returned: an error or a match denies, false falls through
\* to the parser.
AfterAudit ==
    /\ vphase = "audit" /\ aresult # "running"
    /\ IF aresult = "false" THEN vphase' = "parse" /\ UNCHANGED verdict
                          ELSE Decide("deny")
    /\ UNCHANGED <<sql, parserVars, auditorVars, job>>

Parse ==
    /\ vphase = "parse" /\ P!Step
    /\ UNCHANGED <<auditorVars, job, vphase, verdict>>

\* Mutant: a parse error is dropped, the call returns neither the job nor
\* an error.
AfterParse_NilError ==
    /\ vphase = "parse" /\ status # "running"
    /\ IF status = "done" /\ Violations(P!TableParserResult) = {}
       THEN Decide("allow")
       ELSE vphase' = "done" /\ UNCHANGED verdict
    /\ UNCHANGED <<sql, parserVars, auditorVars, job>>

\* TableParser returned: an error denies, so does a three-part ID in a
\* dataset that is not allowed; otherwise the dry-run job is returned.
AfterParse ==
    /\ vphase = "parse" /\ status # "running"
    /\ IF status = "done" /\ Violations(P!TableParserResult) = {}
       THEN Decide("allow") ELSE Decide("deny")
    /\ UNCHANGED <<sql, parserVars, auditorVars, job>>

VNext == DryRun \/ Audit \/ AfterAudit \/ Parse \/ AfterParse

=============================================================================
