---------------------------- MODULE DatasetParams ----------------------------
(***************************************************************************)
(* InitializeDatasetParameters of                                          *)
(* src/internal/tools/bigquery/bigquerycommon/util.go: the project and     *)
(* dataset parameters a BigQuery tool exposes, derived from the configured *)
(* allow-list.                                                             *)
(*                                                                         *)
(* An allow-list entry is kept in its strings.Split(ds, ".") form, a       *)
(* sequence of names.  A project is the split form of its ID, so the code's *)
(* parts[0] is the project <<parts[0]>>.  A parameter is abstracted to its *)
(* default and to what its description mandates: nothing (free-form), or  *)
(* the set of projects, or the set of <<project, dataset>> pairs it lists. *)
(* The descriptions' wording, backticks and sort.Strings order the text   *)
(* only and are left out.                                                  *)
(***************************************************************************)
EXTENDS Naturals, Sequences, FiniteSets

CONSTANT DefaultProjectID   \* split form of defaultProjectID

VARIABLES allowedDatasets,  \* the configured list, entries in split form
          outcome,          \* "none" before the call, "returned" or "panic"
          projectParam,     \* the parameters the call returned
          datasetParam

paramVars == <<allowedDatasets, outcome, projectParam, datasetParam>>

\* A string parameter with its default ("" for none); free means the
\* description mandates nothing, oneOf is what it does mandate.
Param(default, free, oneOf) ==
    [default |-> default, free |-> free, oneOf |-> oneOf]

Entries(list) == {list[k] : k \in 1..Len(list)}

\* parts[1] of an entry without a dot is out of range: a runtime panic.
Panics(list) == \E e \in Entries(list) : Len(e) < 2

\* Mutant: the single entry's dataset is read from parts[0].
SingleEntry_DatasetFromProject(e) ==
    << Param(<<e[1]>>, FALSE, {<<e[1]>>}),
       Param(e[1], FALSE, {<<<<e[1]>>, e[1]>>}) >>

\* One entry: both parameters default to it and their descriptions say
\* "Must be `p`." and "Must be `d`.".
SingleEntry(e) ==
    << Param(<<e[1]>>, FALSE, {<<e[1]>>}),
       Param(e[2], FALSE, {<<<<e[1]>>, e[2]>>}) >>

\* Mutant: the dataset description lists the datasets without the project
\* each is from.
SeveralEntries_NoProjects(list, defaultProject) ==
    LET projects == {<<e[1]>> : e \in Entries(list)}
    IN << Param(defaultProject, FALSE, projects),
          Param("", FALSE, {e[2] : e \in Entries(list)}) >>

\* Several entries: datasetIDsByProject groups the datasets by parts[0];
\* the project lists the map's keys, the dataset lists every group.
SeveralEntries(list, defaultProject) ==
    LET projects == {<<e[1]>> : e \in Entries(list)}
        byProject == [pr \in projects |->
                        {e[2] : e \in {f \in Entries(list) : <<f[1]>> = pr}}]
    IN << Param(defaultProject, FALSE, projects),
          Param("", FALSE, UNION {{<<pr, ds>> : ds \in byProject[pr]} :
                                    pr \in projects}) >>

\* The call on the configured list, with the project and dataset keys and
\* descriptions left out.
Initialize ==
    /\ outcome = "none"
    /\ LET list == allowedDatasets
           r == CASE Len(list) = 0 ->
                       << Param(DefaultProjectID, TRUE, {}),
                          Param("", TRUE, {}) >>
                  [] Len(list) = 1 -> SingleEntry(list[1])
                  [] OTHER -> SeveralEntries(list, DefaultProjectID)
       IN IF Panics(list)
          THEN outcome' = "panic" /\ UNCHANGED <<projectParam, datasetParam>>
          ELSE /\ outcome' = "returned"
               /\ projectParam' = r[1]
               /\ datasetParam' = r[2]
    /\ UNCHANGED allowedDatasets

=============================================================================
