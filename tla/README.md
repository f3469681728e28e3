# TLA+ models of the BigQuery dataset-restriction validator

This directory models the access-control core of
`src/internal/tools/bigquery/bigquerycommon/`: the validator that decides
whether a SQL text may run against an allow-list of `project.dataset` pairs.
The validator combines BigQuery's dry-run planner with two hand-written
lexical scanners of the same SQL text. The models are checked with TLC.

## 1. The system

| Part | Source | What it does |
|------|--------|--------------|
| Identifier scanner | `table_name_parser.go` `parseIdentifierSequence`, `formatTableID` (422-464, 640-655) | Reads a dot-separated identifier, with backtick parts split on dots, and qualifies 2-part IDs with the default project. |
| SQL state machine | `parseSQL` (108-418) | One loop over the runes with 12 string and comment states. It tracks keyword context (`expectingTable`, `expectingAlias`, `expectingCTE`, `lastTableKeyword`, `lastToken`, `statementVerb`), denies CALL, EXECUTE IMMEDIATE, CREATE PROCEDURE/FUNCTION and dataset DDL, and recurses into a subquery at `(`. All recursive calls share three maps: table IDs, visited texts and aliases. |
| Table extractor | `TableParser` (80-104) | Runs `parseSQL`, then drops every table ID one of whose suffixes is an alias. |
| Explicit-reference auditor | `IsAnyTableExplicitlyReferenced` (468-638) | A second scan with the same literal states and no keywords. It reports whether the text literally names a target table, alone or with the default project in front. |
| Cross-check validator | `util.go` `ValidateQueryAgainstAllowedDatasets` (67-152) | Dry run → statement-type gate → violations among the planner's tables (read tables plus the DDL target and destination) → fast allow → auditor (authorized views) → fall-back `TableParser`. |
| Dry run | `DryRunQuery` (29-58) | Inserts the query as a dry-run job and wraps a transport error. |
| Type mapping | `BQTypeStringFromToolType` (155-168) | A four-case lookup. |
| Parameter introspection | `InitializeDatasetParameters` (170-214) | Derives the project and dataset parameters, with their defaults and descriptions, from the allow-list. |
| Parser variant B | `src/unnamed/part_000` | A second version of the parser and auditor. Its `parseIdentifierSequence` skips comments as well as whitespace before every part and every dot. UNION, INTERSECT and EXCEPT end a table context. The security checks test `parts[0]` of every identifier. The verb is also adopted over `with`. The auditor compares one-part and backtick-free identifiers. |
| Get-data-agent-info tool | `src/unnamed/part_001` | Config decoding and one HTTP call. |

**How the parts interact.** The validator sends the text to the planner, which
is outside this repository. If the planner reports a table in a forbidden
dataset, the auditor asks whether the user typed that table:
- if so, the validator denies;
- if not, the table came in through an authorized view, and the decision falls
  to `TableParser`, which must report every table the text names.

An empty planner answer also ends in `TableParser`.

**What is hard.** Three readers of one text must agree on the lexical
structure: where comments and strings start and end, and what an identifier
is. These readers are the planner, the parser and the auditor. The parser keeps
per-activation state on a recursion stack but shares its alias set across every
statement and subquery. Where any two readers disagree, the validator can allow
a forbidden table.

## 2. Modules

| Module | Models | State / operators |
|--------|--------|-------------------|
| `SqlLexicon` | The vocabulary shared by both scanners | Token classes, keyword sets, literal states with closers and escapes, opener tables in code order, `LiteralStep`, `ParseIdentifierSequence` (RECURSIVE), `formatTableID`. |
| `TableParser` | `parseSQL` and `TableParser` | `frames`: the recursion stack, one record of the loop's locals per activation, with absolute positions. Also the shared `tableIDSet`, `aliases` and `visitedSQLs`, and `status`. One action per branch of the loop: `OpenComment`, `Comma`, `OpenSubquery`, `CloseSubquery`, `Semicolon`, `OpenString`, `Identifier` (the whole branch: denials, verb adoption, alias resolution, table recording, keyword update), `SkipRune`, `InLiteral`, `EndOfText`. `TableParserResult` is the suffix filter. |
| `Auditor` | `IsAnyTableExplicitlyReferenced` | `targets`, `apos`, `ast`, `aresult`. One action per branch of its loop. The identifier test comes before the raw-string test, as in the code. |
| `BigQueryDialect` | The planner's reading of the text (spec-modelled) | `Items` lexes the way the dialect does: `--` always opens a comment, and whitespace may surround dots. `Paths` groups dotted paths. `DialectTables` lists the tables of FROM/JOIN clauses and comma lists. `DeclaredNames` lists CTE names and aliases. `DialectAccepts`: backticks closed, parentheses balanced, multi-part paths only where tables stand. |
| `Validator` | `ValidateQueryAgainstAllowedDatasets` | Composes `TableParser` and `Auditor` by INSTANCE on the shared text. `DryRunQuery` is the set of answers the dry-run insert can give. `ReferencedTables` is what the code collects from an answer: the tables read, plus the DDL target and destination tables. `DryRun` takes one answer and runs everything up to the auditor call. `Audit`, `AfterAudit`, `Parse` and `AfterParse` follow, sequenced by `vphase`. |
| `DatasetParams` | `InitializeDatasetParameters` (`util.go` 171-214) | `allowedDatasets`, `outcome` (`none`, `returned`, `panic`), and the two parameters. Each parameter is abstracted to its default and to what its description mandates: nothing, a set of projects, or a set of `<<project, dataset>>` pairs. One action, `Initialize`, covers the whole call: no entry, one entry (`SingleEntry`), several entries grouped by project (`SeveralEntries`), and the index panic on an entry without a dot. |
| `SqlLexiconB` | `part_000` helpers and `parseIdentifierSequence` (687-773) | `tableContextExitKeywordsB`. `SkipTrivia` is the skip loop: whitespace, then a block comment up to `*/` or a line comment up to its line end, repeated. `Overshoot` adds the byte offset as a rune count. `IdentFromB`, `IdentAtB` and `PartEndB` are `IdentFrom` with `SkipTrivia` before each part and before each dot. |
| `TableParserB` | `part_000` `parseSQL` (130-453) | EXTENDS `TableParser`. The comment, comma, parenthesis, semicolon, string, skip, literal and end branches are the same code in both files, and `StepB` reuses their actions. `IdentifierB` is the whole identifier branch of the second version, with `DenialB`, `RegistersB`, `IsKnownAliasB`, `KeywordUpdateB` and `AdoptVerbB`. The second EXECUTE IMMEDIATE test and `findAndParseSQLString` come after a check that has already returned on the same condition, so they are unreachable and have no action. The `consumed == 0` branch is unreachable too. |
| `AuditorB` | `part_000` `IsAnyTableExplicitlyReferenced` (516-683) | EXTENDS `Auditor`. `AuditorStartB` has no early return for an empty target list. `AIdentifierB` compares every identifier, one-part ones included, with `MatchesB`: as written, with backticks removed (`Clean`), and with the default project in front. |
| `MCTableParser`, `MCTableParserB`, `MCValidator`, `MCAuditor`, `MCDatasetParams` | Models for TLC | Texts are all concatenations of up to `MaxPhrases` phrases from a small phrase set. Allow-lists are all lists of up to `MaxEntries` entries. `MCAuditor` runs `Auditor` and then, on the same text and targets, `AuditorB`. `AuditorB` is an INSTANCE with its own copy of the scan variables. |

**Abstraction of the data.** A text is a sequence of tokens:
- punctuation runes;
- `TICK` for the backtick;
- `"1"` for a digit;
- words, which are atomic lowercase letter runs.

Table IDs are kept in split form (a sequence of parts). This is a bijection
with the dotted string, so string equality and `HasPrefix(_, t+".")` become
sequence equality and `IsPrefix`.

A domain-scoped project `example.com:p` is the split form
`<<example, com:p>>`. This is exactly what `strings.Split` makes of it.

**Runes and bytes.** A word token is a run of `Len(w)` ASCII letters. The
token `WIDE` is one letter of three UTF-8 bytes. In a backticked part,
`parseIdentifierSequence` uses the byte offset from `strings.Index` as a rune
offset, so each `WIDE` in the part shifts the scan two runes further
(`ByteOverrun`). The model counts those runes in tokens. It asserts (TLC
`Assert`) that they are one-rune tokens inside the text. Where that fails, the
code would split a word or panic on the slice bound, and the model does not
represent either. No run's texts reach that case.

## 3. Runs

| Run | Config | Expect | What it shows |
|-----|--------|--------|---------------|
| parser_safety | `MCTableParser.cfg` | pass | 14 phrases, up to 4 (≈443k states). On every text the planner accepts, a successful parse reports every FROM/JOIN table, except one shadowed by a declared CTE name or alias (`NoUnderReport`). |
| parser_termination | `MCTableParserLive.cfg` | pass | `ParseTerminates` under weak fairness, with 10 nesting phrases, up to 3. |
| parser_b | `MCTableParserB.cfg` | pass | The second version's `NoUnderReport`. It uses 13 phrases, up to 4 (≈229k states), among them `e . u` and `d/**/.t`, paths with spaces or a comment before the dot. The first version misses those paths (validator_spaced). It also checks termination as safety. `ScanAdvances` says that every step that does not return moves the innermost activation to a later rune. Deadlock checking says that no running call is stuck. |
| validator | `MCValidator.cfg` | pass | 15 phrases, up to 3 (≈25k states), among them `CREATE TABLE` and `ALTER TABLE d.t RENAME TO`. The planner lists what the text reads and writes. Three properties hold. `NoExplicitBypass`: no allowed text reads a forbidden table. `ViewsUsable`: the view `p.d.v` over the forbidden `p.e.u` is not denied. `NoForbiddenWrite`: no allowed text creates a table in a forbidden dataset or renames one into it. The parser does not read a RENAME TO destination, so the last check rests on the dry run's `DdlDestinationTable` and on the auditor. |
| validator_dash | `MCValidatorDash.cfg` | violation | `a--'⏎from e.u` is allowed. |
| validator_domain | `MCValidatorDomain.cfg` | violation | With project `example.com:p`, `from e.u` is allowed. |
| validator_spaced | `MCValidatorSpaced.cfg` | violation | `from e . u` is allowed. |
| validator_cte | `MCValidatorCTE.cfg` | violation | If the planner may answer with no tables, `with t as (x) from e.t` is allowed. |
| validator_alias_column | `MCValidatorAliasColumn.cfg` | violation | `select e.u from d.v e` reads the authorized view through the alias `e`. It is denied: the auditor puts the default project in front of the column `e.u` and matches `p.e.u`. |
| validator_wide | `MCValidatorWide.cfg` | violation | `` `WIDE`,'a' from e.u `` is allowed. Both scanners resume two runes late after the backticked three-byte letter. They skip the quote that opens `'a'` and read `from e.u` as a string. |
| auditor_exact | `MCAuditor.cfg` | pass | 14 phrases, up to 4 (≈916k states), with no target or the target `p.e.u`. The first version answers, then the second. The phrases are paths (including a column path `e.u.c` and a backticked `p.e.u`), every quote, comment opener and closer, a backslash and a lone backtick. `AuditorExact`, and `AuditorExactB` for the second version: the auditor answers true exactly when the planner reads, outside literals and comments, a path that names the target. |
| dataset_params | `MCDatasetParams.cfg` | pass | Every allow-list of up to 3 entries over `p.d`, `p.e`, `q.d`, `q.e`. `AdvertisesAllowList`: together, the two parameters admit exactly the configured pairs, and with one entry the defaults are that entry. |

The five bypasses and the alias-column false deny are in PROJECT.json
`findings`.

More disagreements were met while modelling. They have no run of their own,
because the project keeps at most twelve runs. PROJECT.json lists them as
hazards:
- **A comma after a JOIN table.** `FROM a.b CROSS JOIN d.t, e.u` makes `e.u` an
  alias, so `NoUnderReport` fails. The spec's own comma rule prescribes this.
  The parser phrases leave out JOIN, and at the validator the planner's list
  makes up for the miss.
- **A self-closing comment in the second version.** Its skip loop searches
  `*/` from the comment opener itself, so `/*/` after an identifier is a
  closed comment. In `from e.u/*/ from e.u…` the commented `e.u` becomes an
  alias and suppresses the table (`NoUnderReport` of parser_b). The same
  reading makes `AuditorExactB` fail on `x/*/*e.u`. The auditor phrases put
  a space after `/*`.
- **Raw strings in the auditor.** It tests for an identifier before `r'`, so
  `select r'\' from d.v -- ' e.u` is denied. `AuditorExact` and `ViewsUsable`
  fail on such texts. The runs leave raw strings out of their phrases.
- **Domain-scoped allow-list entries.** `InitializeDatasetParameters` advertises
  `example.com:p.d` as dataset `com:p` of project `example`, and
  `AdvertisesAllowList` fails. The root cause, splitting IDs on every dot, is
  the validator_domain finding.

The auditor's phrases keep whitespace and dashes away from dots and words,
because validator_spaced and validator_dash already show those disagreements.

**Wide letters in comments (second version).** The skip loop adds the byte
offset of `*/` or of the line end as a rune count (`Overshoot`). So a wide
letter in a comment after an identifier moves the scan two runes past the
comment. The second version's phrases have no wide letters: the same byte
count in backticks is the first version's validator_wide finding.

**Bounds.** Phrases are the unit of enumeration, so every combination of
keyword, path, literal opener, comment opener, parenthesis and separator up to
the bound is tried. Four phrases of the parser set reach:
- a FROM list with a comma;
- a CTE with its subquery;
- an alias after a table;
- a literal or comment that hides a table.

Every finding above needs at most four phrases.

parser_b keeps four phrases but swaps the literal openers it shares with the
first version for the second version's own cases. It has spaced and commented
dots, a set operator (` union `) and a line comment with its line end. With
them a table follows a set operator and a comment before a dot.

The validator run stops at three phrases. That is enough for a view, a
forbidden table and a literal or comment between them, and for a rename with
its destination. A four-phrase validator run also passes (≈389k states, under a
minute on its own). It is left out of the default set because it is slow with
TLC's coverage reporting on.

**Fairness.** Each run models one synchronous call that runs to completion, so
weak fairness on the next-state relation is what the code guarantees. Every run
except parser_b sets `CHECK_DEADLOCK FALSE`, because the call returns and the
model stops. In parser_b a returned call stutters (`Returned`), so deadlock
checking finds any running call that has no step.

**Planner assumptions** (spec-modelled, `BigQueryDialect`, `Validator!DryRun`):
- a text the dialect rejects only gets a transport or syntax error;
- an accepted text may also get an error, a job without statistics, or
  statistics;
- the statement type is any member of `StatementTypes` (SELECT or CALL), an
  over-approximation that only adds denials;
- `ReferencedTables` holds the tables the text reads plus what the authorized
  views it reads expand to;
- the DDL target table is the path after TABLE, and the DDL destination table
  is the path after RENAME TO (`BigQueryDialect!DdlTables`);
- if `Inconclusive` holds, it may instead be empty. The code's fall-back
  ("or if dry run was inconclusive") and spec P4 provide for that case.

**Column references.** `DialectAccepts` admits a two-part path outside a
table position when its first part is a name the text declares, for example
`x.c` of an alias `x`. No phrase of parser_safety or validator has such a path
to an existing dataset, so those runs are unchanged by it.

## 4. Not modelled, and the plan

- **Termination of the second version as a liveness property.** TLC's
  liveness checking of `TableParserB` advances by a few states a minute, so
  parser_b checks termination as safety instead: `ScanAdvances` plus deadlock
  checking.
- **`findAndParseSQLString`** (`part_000` 456-512) is unreachable. The EXECUTE
  IMMEDIATE test in front of it repeats the condition on which the security
  check (line 259) has already returned.
- **The slice-bound panic** of `parseIdentifierSequence` happens when a wide
  letter is within two runes of the end. It is asserted away, not modelled,
  because a panic is not a verdict.
- **Ordering of sort.Strings and of `violatingTables[0]`** only affects the
  wording of descriptions and messages. The deny message names one forbidden
  dataset, picked in map order. With two forbidden datasets it can name one
  that the text reads only through an authorized view. Showing that would
  take a violation run, and the project keeps its twelve runs for the bypass
  findings.
- **`BQTypeStringFromToolType`** is a four-case table with no state and no
  caller under `src/`. A model would only restate the switch.
- **The fields of the dry-run request** (legacy SQL off, parameters and
  connection properties) and **the HTTP tool** (`part_001`) are I/O.
- **A planner that lists no tables for a DDL statement** leaves a RENAME TO
  destination to the parser, which does not read it. `NoForbiddenWrite` then
  fails: `ALTER TABLE d.t RENAME TO e.u` is allowed. This is the same planner
  assumption as validator_cte, and the project has no run left for it.
