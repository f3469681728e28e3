--------------------------- MODULE MCDatasetParams ---------------------------
(***************************************************************************)
(* InitializeDatasetParameters on every allow-list of at most MaxEntries   *)
(* entries drawn from EntrySet, repetitions included.                     *)
(***************************************************************************)
EXTENDS DatasetParams, SequencesExt

CONSTANTS EntrySet, MaxEntries

\* p.d, p.e, q.d and q.e in split form.
PlainEntries ==
    { <<"p", "d">>, <<"p", "e">>, <<"q", "d">>, <<"q", "e">> }

ProjectQ == <<"q">>

Init ==
    /\ allowedDatasets \in BoundedSeq(EntrySet, MaxEntries)
    /\ outcome = "none"
    /\ projectParam = Param(<<>>, TRUE, {}) /\ datasetParam = Param("", TRUE, {})

Next == Initialize

Spec == Init /\ [][Next]_paramVars /\ WF_paramVars(Next)

TypeOK ==
    /\ outcome \in {"none", "returned", "panic"}
    /\ projectParam \in [default : Seq(STRING), free : BOOLEAN,
                         oneOf : SUBSET Seq(STRING)]
    /\ datasetParam \in [default : STRING, free : BOOLEAN,
                         oneOf : SUBSET (Seq(STRING) \X STRING)]

\* The <<project, dataset>> pair an entry names: the dataset is the last
\* name, the project ID all that comes before it.
Intended(e) == <<SubSeq(e, 1, Len(e) - 1), e[Len(e)]>>

(***************************************************************************)
(* The parameters advertise the allow-list (spec section 4.F): with no    *)
(* entry both are free-form; otherwise the call returns, the pairs the    *)
(* two descriptions admit together are exactly the configured pairs, and  *)
(* with one entry both defaults are that entry's project and dataset.     *)
(***************************************************************************)
AdvertisesAllowList ==
    outcome # "none" =>
        LET list == allowedDatasets
            pairs == {Intended(e) : e \in Entries(list)}
        IN IF Len(list) = 0
           THEN projectParam.free /\ datasetParam.free
           ELSE /\ outcome = "returned"
                /\ ~projectParam.free /\ ~datasetParam.free
                /\ {pd \in datasetParam.oneOf : pd[1] \in projectParam.oneOf}
                     = pairs
                /\ Len(list) = 1 =>
                     <<projectParam.default, datasetParam.default>>
                       = Intended(list[1])

=============================================================================
