---------------------------- MODULE BigQueryDialect ----------------------------
(***************************************************************************)
(* Reference lexical reading of a SQL text by the BigQuery planner, which  *)
(* is not part of this repository: it is modelled from spec.md (sections   *)
(* 4.A and 4.B, "Strings and comments") and from the dialect rules the     *)
(* spec relies on:                                                         *)
(*   - "--", "#" and "/*" open a comment wherever the normal state meets   *)
(*     them, also right after identifier runes;                            *)
(*   - an unquoted identifier part is a run of letters and digits in which *)
(*     a single "-" may join two runs (dashed project names);              *)
(*   - whitespace and comments may separate a part from the dots around it;*)
(*   - string literals open and close as in section 4.B.                   *)
(* A table reference is a path of two or three parts directly after FROM  *)
(* or JOIN; a two-part path is qualified with the job's project.  A DDL   *)
(* statement names its target table after TABLE (CREATE TABLE, ALTER     *)
(* TABLE) and a renamed table's destination after RENAME TO.              *)
(***************************************************************************)
EXTENDS SqlLexicon

\* The position after the literal or comment of state st entered at k.
RECURSIVE LiteralEnd(_, _, _)
LiteralEnd(s, k, st) ==
    IF k > Len(s) THEN k
    ELSE LET n == LiteralStep(st, s, k)
         IN IF n.st = "normal" THEN n.i ELSE LiteralEnd(s, n.i, st)

\* The end of an unquoted part that starts at q: a "-" only joins runs.
DialectPartEnd(s, q) ==
    LET InPart(k) == \/ IsWord(s[k]) \/ s[k] = "1"
                     \/ /\ s[k] = "-" /\ k + 1 <= Len(s)
                        /\ (IsWord(s[k + 1]) \/ s[k + 1] = "1")
        I == {k \in q..Len(s) : ~InPart(k)}
    IN IF I = {} THEN Len(s) + 1 ELSE Min(I)

(***************************************************************************)
(* The code items of s from position p on: identifier parts (a backticked *)
(* part contributes its dot-separated pieces), dots and other punctuation; *)
(* whitespace, comments and literals leave no item.  An unclosed backtick  *)
(* is a syntax error, the item "error".                                    *)
(***************************************************************************)
Item(kind, parts, char) == [k |-> kind, v |-> parts, c |-> char]

RECURSIVE Items(_, _)
Items(s, p) ==
    IF p > Len(s) THEN <<>>
    ELSE LET c == FirstOpener(CommentOpeners, s, p)
             o == FirstOpener(StringOpeners, s, p)
         IN CASE c # 0 ->
                   Items(s, LiteralEnd(s, p + Len(CommentOpeners[c][1]),
                                       CommentOpeners[c][2]))
              [] o # 0 ->
                   Items(s, LiteralEnd(s, p + Len(StringOpeners[o][1]),
                                       StringOpeners[o][2]))
              [] s[p] = "TICK" ->
                   LET e == FirstIn(s, p + 1, {"TICK"})
                   IN IF e > Len(s) THEN <<Item("error", <<>>, "")>>
                      ELSE <<Item("part", SplitDots(SubSeq(s, p + 1, e - 1)), "")>>
                           \o Items(s, e + 1)
              [] IsWord(s[p]) ->
                   LET e == DialectPartEnd(s, p)
                   IN <<Item("part", <<SubSeq(s, p, e - 1)>>, "")>>
                      \o Items(s, e)
              [] IsSpace(s[p]) -> Items(s, p + 1)
              [] OTHER -> <<Item("punct", <<>>, s[p])>> \o Items(s, p + 1)

\* Paths: maximal runs part ("." part)* of the items from n on.
RECURSIVE Paths(_, _)
Paths(it, n) ==
    IF n > Len(it) THEN <<>>
    ELSE IF it[n].k # "part" THEN <<it[n]>> \o Paths(it, n + 1)
    ELSE LET Extend[m \in n..Len(it)] ==
                 IF m + 2 <= Len(it) /\ it[m + 1] = Item("punct", <<>>, ".")
                    /\ it[m + 2].k = "part"
                 THEN Extend[m + 2] ELSE m
             last == Extend[n]
             path == FlattenSeq([j \in 1..((last - n) \div 2 + 1) |->
                                    it[n + 2 * (j - 1)].v])
         IN <<Item("path", path, "")>> \o Paths(it, last + 1)

\* Words the dialect reserves: none of them is an alias.
Reserved == tableFollowsKeywords \cup tableContextExitKeywords \cup Verbs
            \cup {"with", "as"}

\* Whether the n-th item of ps is a single-part, non-reserved name.
IsName(ps, n) ==
    /\ ps[n].k = "path" /\ Len(ps[n].v) = 1
    /\ ~(Len(ps[n].v[1]) = 1 /\ ps[n].v[1][1] \in Reserved)

IsPunct(ps, n, c) == ps[n] = Item("punct", <<>>, c)

(***************************************************************************)
(* FROM lists: a table path of two or three parts follows FROM or JOIN, or *)
(* follows a comma that ends a list entry (a table path, optionally with  *)
(* a bare alias or an AS alias).                                           *)
(***************************************************************************)
TableAt(ps) ==
    LET T[n \in 1..Len(ps)] ==
          /\ ps[n].k = "path" /\ Len(ps[n].v) \in {2, 3}
          /\ n > 1
          /\ \/ ps[n - 1].v \in {<<<<"from">>>>, <<<<"join">>>>}
             \/ /\ n > 2 /\ IsPunct(ps, n - 1, ",")
                /\ \/ T[n - 2]
                   \/ n > 3 /\ IsName(ps, n - 2) /\ T[n - 3]
                   \/ /\ n > 4 /\ IsName(ps, n - 2)
                      /\ ps[n - 3].v = <<<<"as">>>> /\ T[n - 4]
    IN T

Analysis(s) == Paths(Items(s, 1), 1)

\* The project-qualified split table IDs s reads in FROM and JOIN clauses.
DialectTables(s, project) ==
    LET ps == Analysis(s)
        T == TableAt(ps)
        Qualify(v) == IF Len(v) = 2 THEN project \o v ELSE v
    IN {Qualify(ps[n].v) : n \in {m \in 1..Len(ps) : T[m]}}

\* Whether the n-th item of ps is the DDL target table (after TABLE) or the
\* DDL destination table (after RENAME TO).
DdlTableAt(ps, n) ==
    /\ ps[n].k = "path" /\ Len(ps[n].v) \in {2, 3} /\ n > 1
    /\ \/ ps[n - 1].v = <<<<"table">>>>
       \/ n > 2 /\ ps[n - 1].v = <<<<"to">>>> /\ ps[n - 2].v = <<<<"rename">>>>

\* The project-qualified split IDs of the tables s creates, alters or
\* renames to: the planner's DdlTargetTable and DdlDestinationTable.
DdlTables(s, project) ==
    LET ps == Analysis(s)
        Qualify(v) == IF Len(v) = 2 THEN project \o v ELSE v
    IN {Qualify(ps[n].v) : n \in {m \in 1..Len(ps) : DdlTableAt(ps, m)}}

\* The names s declares: CTE names after WITH or after a comma of a WITH
\* list, aliases after AS and bare aliases right after a table path.
DeclaredNames(s) ==
    LET ps == Analysis(s)
        T == TableAt(ps)
        Declares(n) ==
            /\ n > 1 /\ IsName(ps, n)
            /\ \/ ps[n - 1].v \in {<<<<"with">>>>, <<<<"as">>>>}
               \/ T[n - 1]
               \/ IsPunct(ps, n - 1, ",")
    IN {ps[n].v : n \in {m \in 1..Len(ps) : Declares(m)}}

\* The nesting depth of parentheses after the first n items.
Depth(ps, n) ==
    Cardinality({m \in 1..n : IsPunct(ps, m, "(")})
      - Cardinality({m \in 1..n : IsPunct(ps, m, ")")})

\* A column reference name.column whose qualifier is a declared name.
IsQualifiedColumn(ps, n, declared) ==
    /\ ps[n].k = "path" /\ Len(ps[n].v) = 2
    /\ <<ps[n].v[1]>> \in declared

(***************************************************************************)
(* The texts the planner accepts, as far as table references go: every    *)
(* backtick is closed, parentheses balance, and a path of several parts   *)
(* stands only where a table is read or written, or is a column qualified *)
(* by a CTE name or an alias the text declares.                           *)
(***************************************************************************)
DialectAccepts(s) ==
    LET ps == Analysis(s)
        T == TableAt(ps)
        declared == DeclaredNames(s)
    IN /\ \A n \in 1..Len(ps) : ps[n].k # "error"
       /\ \A n \in 1..Len(ps) : Depth(ps, n) >= 0
       /\ Depth(ps, Len(ps)) = 0
       /\ \A n \in 1..Len(ps) :
            ps[n].k = "path" /\ Len(ps[n].v) > 1 =>
                T[n] \/ DdlTableAt(ps, n) \/ IsQualifiedColumn(ps, n, declared)

=============================================================================
