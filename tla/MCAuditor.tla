------------------------------ MODULE MCAuditor ------------------------------
(***************************************************************************)
(* IsAnyTableExplicitlyReferenced on every text made of at most           *)
(* MaxPhrases phrases, with default project p and either no target or the *)
(* one target p.e.u, compared with the planner's lexical reading of the   *)
(* same text (BigQueryDialect).  Once the first version (Auditor) has      *)
(* answered, the second (AuditorB, src/unnamed/part_000) is called on the  *)
(* same text and targets, with its own copy of the scan variables.        *)
(***************************************************************************)
EXTENDS Auditor

CONSTANTS Phrases, MaxPhrases, Target

VARIABLES targetsB, aposB, astB, aresultB

varsB == <<targetsB, aposB, astB, aresultB>>

AB == INSTANCE AuditorB WITH targets <- targetsB, apos <- aposB,
                             ast <- astB, aresult <- aresultB

Dialect == INSTANCE BigQueryDialect

ProjectP == << <<"p">> >>

\* The target table p.e.u in split form.
TargetPEU == << <<"p">>, <<"e">>, <<"u">> >>

\* The target two- and three-part, backticked, and as a column qualifier,
\* another table, a letter that joins the next word, every string and
\* comment opener and closer, a backslash and a lone backtick.  No phrase
\* puts whitespace or a dash next to a dot or a word, where the readers
\* are known to differ (the runs validator_spaced, validator_dash), and the
\* block-comment opener is followed by a space: the second version's skip
\* loop would read "/*/" as a closed comment.
AuditPhrases ==
    { <<"e", ".", "u">>, <<"TICK", "p", ".", "e", ".", "u", "TICK">>,
      <<"e", ".", "u", ".", "c">>, <<"d", ".", "t">>, <<"x">>,
      <<"'">>, <<"\"">>, <<"\\">>, <<" ", "-", "-">>, <<"\n">>, <<"#">>,
      <<"/", "*", " ">>, <<"*", "/">>, <<"TICK">> }

Texts == {FlattenSeq(ps) : ps \in BoundedSeq(Phrases, MaxPhrases)}

\* The text is given; the call has not started.
Init ==
    /\ sql \in Texts
    /\ targets = {} /\ apos = 1 /\ ast = "normal" /\ aresult = "idle"
    /\ targetsB = {} /\ aposB = 1 /\ astB = "normal" /\ aresultB = "idle"

\* The call with no target or with the target.
Start ==
    /\ aresult = "idle"
    /\ \E ts \in {{}, {Target}} : AuditorStart(ts)
    /\ UNCHANGED <<sql, varsB>>

\* The second version is called with the same targets once the first
\* has answered.
StartB ==
    /\ aresult \notin {"idle", "running"} /\ aresultB = "idle"
    /\ AB!AuditorStartB(targets)
    /\ UNCHANGED <<sql, targets, apos, ast, aresult>>

Next ==
    \/ Start
    \/ AStep /\ UNCHANGED varsB
    \/ StartB
    \/ AB!AStepB /\ UNCHANGED <<targets, apos, ast, aresult>>

vars == <<sql, targets, apos, ast, aresult, varsB>>

\* A sequential scan: every enabled iteration eventually runs.
Spec == Init /\ [][Next]_vars /\ WF_vars(Next)

\* The paths of two or more parts the planner reads outside strings and
\* comments, and whether one of them names a target as the code compares:
\* exactly or as a column qualifier, with or without the default project.
PlannerNames(ts) ==
    LET ps == Dialect!Analysis(sql)
    IN \E n \in 1..Len(ps), t \in ts :
           /\ ps[n].k = "path" /\ Len(ps[n].v) >= 2
           /\ \/ IsPrefix(t, ps[n].v)
              \/ IsPrefix(t, DefaultProject \o ps[n].v)

(***************************************************************************)
(* The auditor reads the text as the planner does (spec R2): when          *)
(* IsAnyTableExplicitlyReferenced returns, it returns true exactly when a *)
(* dotted path outside every string literal and comment names a target,   *)
(* so a target inside a literal or a comment never counts and one outside *)
(* is never missed, whatever the nesting of quotes, escapes and comment   *)
(* openers around it.                                                     *)
(***************************************************************************)
AuditorExact ==
    aresult \in {"true", "false"} =>
        ((aresult = "true") = PlannerNames(targets))

(***************************************************************************)
(* The second version reads the text as the planner does too: its answer  *)
(* is true exactly when a dotted path outside every literal and comment   *)
(* names a target, also with the default project in front.                *)
(***************************************************************************)
AuditorExactB ==
    aresultB \in {"true", "false"} =>
        ((aresultB = "true") = PlannerNames(targetsB))

=============================================================================
