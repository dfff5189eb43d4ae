-------------------------------- MODULE SqlShape --------------------------------
(***************************************************************************)
(* What the parser keeps of a statement, and the structural gate it gives   *)
(* the verifier:                                                           *)
(*                                                                         *)
(*   internal/sqlparse/sqlparse.go  Parse, SameShapeAs                     *)
(*   internal/sqlparse/mysql.go     ParseMySQL                             *)
(*                                                                         *)
(* A statement is its WITH list and the branches of its UNION (one branch   *)
(* if there is none); a branch has targets, the relations it names itself,  *)
(* and one subquery that may have a WITH of its own.  A WITH is a name and  *)
(* the SELECT in it.  The candidate starts as the original, and whoever     *)
(* rewrites it changes it edit by edit.                                     *)
(***************************************************************************)
EXTENDS Integers, Sequences, FiniteSets

CONSTANTS
    Dialects,       \* "postgres" and "mysql"
    TableNames,     \* relations of the schema
    WithNames,      \* names a rewrite may give to a WITH
    Columns,        \* names of output columns
    Fold,           \* the lower-case spelling of every name
    Originals,      \* the statements that are submitted
    Edits,          \* for each dialect, the kinds of edits a rewrite is made of
    MaxEdits        \* bound: edits of a candidate

Names == TableNames \cup WithNames
Unnamed == ""
Star == "*"
Targets == Columns \cup {Unnamed, Star}

ASSUME DialectAssumption == Dialects \subseteq {"postgres", "mysql"}
ASSUME FoldAssumption == \A n \in Names \cup Columns : Fold[n] \in Names \cup Columns
ASSUME EditsAssumption ==
    /\ Edits \in [Dialects -> SUBSET {"column", "spelling", "table", "subquery", "with",
                                      "nest", "union", "order"}]
    /\ MaxEdits \in Nat

VARIABLES
    dialect,    \* of the target database
    original,
    candidate,
    edits       \* edits made so far

vars == <<dialect, original, candidate, edits>>

Plain(targets, reads) ==
    [targets |-> targets, reads |-> reads, sub |-> {}, subWith |-> <<>>, ordered |-> FALSE]
Query(targets, reads) ==
    [selects |-> <<Plain(targets, reads)>>, with |-> <<>>, ordered |-> FALSE]

RangeOf(s) == {s[i] : i \in DOMAIN s}
Lower(names) == {Fold[n] : n \in names}
NamesOf(with) == Lower({w.name : w \in RangeOf(with)})
ReadsOf(with) == UNION {w.reads : w \in RangeOf(with)}

--------------------------------------------------------------------------------
(* The facts Parse and ParseMySQL extract. *)

CTENamesNone(st) == {}   \* slip
\* cteNames looks at the statement's own WITH; the MySQL visitor meets every one.
CTENames(st) ==
    NamesOf(st.with) \cup
    (IF dialect = "mysql" THEN UNION {NamesOf(s.subWith) : s \in RangeOf(st.selects)} ELSE {})

\* Every relation name, wherever it stands.
Mentioned(st) == Lower(
    (UNION {s.reads \cup s.sub \cup ReadsOf(s.subWith) : s \in RangeOf(st.selects)})
    \cup ReadsOf(st.with))

Tables(st) == Mentioned(st) \ CTENames(st)

\* The MySQL visitor takes columns and ORDER BY of the first SELECT it enters.  A
\* SELECT is entered before its own WITH, but a UNION's WITH before the branches.
TopIsOfWith(st) == dialect = "mysql" /\ Len(st.selects) > 1 /\ st.with # <<>>
Top(st) == IF TopIsOfWith(st) THEN st.with[1] ELSE st.selects[1]

OutputCols(st) == Top(st).targets

SelectStar(st) ==
    IF dialect = "mysql" THEN Star \in RangeOf(Top(st).targets)
    ELSE \E s \in RangeOf(st.selects) : Star \in RangeOf(s.targets)

HasOrderBy(st) ==
    IF dialect = "mysql" \/ Len(st.selects) = 1 THEN Top(st).ordered ELSE st.ordered

--------------------------------------------------------------------------------
(* SameShapeAs: the gate before execution. *)

SameNameExact(a, b) == a \notin Columns \/ b \notin Columns \/ a = b   \* slip
SameName(a, b) == a = Unnamed \/ b = Unnamed \/ Fold[a] = Fold[b]

SameColumns(o, c) ==
    /\ Len(OutputCols(o)) = Len(OutputCols(c))
    /\ ~SelectStar(o) /\ ~SelectStar(c) =>
          \A i \in DOMAIN OutputCols(o) : SameName(OutputCols(o)[i], OutputCols(c)[i])

SameTablesNoneNew(o, c) == Tables(c) \subseteq Tables(o)   \* slip: half of the check
SameTables(o, c) == Tables(c) \subseteq Tables(o) /\ Tables(o) \subseteq Tables(c)

SameShapeAs(o, c) == SameColumns(o, c) /\ SameTables(o, c)

--------------------------------------------------------------------------------
(* The database's own reading of a statement. *)

\* A name of a WITH hides a relation from the statements after it, not from
\* its own body.
Hidden(with, k) == {Fold[with[j].name] : j \in 1..(k - 1)}
Resolved(with) == UNION {Lower(with[k].reads) \ Hidden(with, k) : k \in DOMAIN with}
RealTables(st) ==
    LET main == UNION { Lower(s.reads) \cup (Lower(s.sub) \ NamesOf(s.subWith)) \cup Resolved(s.subWith)
                        : s \in RangeOf(st.selects) }
    IN Resolved(st.with) \cup (main \ NamesOf(st.with))

\* The left-hand branch names the columns of the result.
Produced(st) == st.selects[1].targets
SpeltAlike(o, c) ==
    /\ Len(o) = Len(c)
    /\ \A i \in DOMAIN o :
          o[i] = c[i] \/ (o[i] \in Columns /\ c[i] \in Columns /\ Fold[o[i]] = Fold[c[i]])

\* Whether the statement promises an order of its rows.
Promised(st) == IF Len(st.selects) = 1 THEN st.selects[1].ordered ELSE st.ordered

--------------------------------------------------------------------------------
(* The author of the candidate. *)

First == candidate.selects[1]
WithFirst(s) == [candidate EXCEPT !.selects[1] = s]
Edit(kind, st) ==
    /\ kind \in Edits[dialect] /\ edits < MaxEdits
    /\ candidate' = st
    /\ edits' = edits + 1
    /\ UNCHANGED <<dialect, original>>

Rename(i, t) == Edit("column", WithFirst([First EXCEPT !.targets[i] = t]))
AddColumn(t) == Edit("column", WithFirst([First EXCEPT !.targets = Append(@, t)]))
DropColumn ==
    Len(First.targets) > 1 /\ Edit("column", WithFirst([First EXCEPT !.targets = Tail(@)]))
Respell(n, m) ==
    /\ n \in First.reads /\ n # m /\ Fold[n] = Fold[m]
    /\ Edit("spelling", WithFirst([First EXCEPT !.reads = (@ \ {n}) \cup {m}]))
RespellColumn(i, t) ==
    /\ First.targets[i] \in Columns /\ t \in Columns \ {First.targets[i]}
    /\ Fold[First.targets[i]] = Fold[t]
    /\ Edit("spelling", WithFirst([First EXCEPT !.targets[i] = t]))
Join(n) == n \notin First.reads /\ Edit("table", WithFirst([First EXCEPT !.reads = @ \cup {n}]))
Remove(n) ==
    n \in First.reads /\ First.reads # {n} /\ Edit("table", WithFirst([First EXCEPT !.reads = @ \ {n}]))
IntoSubquery(n) ==
    n \in First.reads /\ Edit("subquery", WithFirst([First EXCEPT !.reads = @ \ {n}, !.sub = @ \cup {n}]))

Cte(w, n, targets) == [name |-> w, targets |-> targets, reads |-> {n}, ordered |-> FALSE]

\* A relation is read through a WITH of the statement, which selects all columns or
\* those of the branch, or through one of the subquery.
Extract(n, w, targets) ==
    /\ n \in First.reads /\ Fold[w] \notin NamesOf(candidate.with)
    /\ Edit("with", [WithFirst([First EXCEPT !.reads = (@ \ {n}) \cup {w}]) EXCEPT
                        !.with = Append(@, Cte(w, n, targets))])
Nest(n, w) ==
    /\ n \in First.sub /\ Fold[w] \notin NamesOf(First.subWith)
    /\ Edit("nest", WithFirst([First EXCEPT !.sub = (@ \ {n}) \cup {w},
                                            !.subWith = Append(@, Cte(w, n, <<Star>>))]))

\* The same columns of another relation are added with UNION, or an ORDER BY to
\* the first branch or the whole.
AddBranch(n) ==
    /\ Len(candidate.selects) = 1
    /\ Edit("union", [candidate EXCEPT !.selects = Append(@, Plain(First.targets, {n}))])
OrderFirst == Edit("order", WithFirst([First EXCEPT !.ordered = TRUE]))
OrderWhole == Len(candidate.selects) > 1 /\ Edit("order", [candidate EXCEPT !.ordered = TRUE])

Init ==
    /\ dialect \in Dialects
    /\ original \in Originals /\ candidate = original /\ edits = 0

Next ==
    \/ \E i \in DOMAIN First.targets, t \in Targets : Rename(i, t) \/ RespellColumn(i, t)
    \/ \E t \in Targets : AddColumn(t)
    \/ DropColumn
    \/ \E n, m \in TableNames : Respell(n, m)
    \/ \E n \in TableNames : Join(n) \/ Remove(n) \/ IntoSubquery(n) \/ AddBranch(n)
    \/ \E n \in Names, w \in WithNames :
          Nest(n, w) \/ \E targets \in {<<Star>>, First.targets} : Extract(n, w, targets)
    \/ OrderFirst
    \/ OrderWhole

Spec == Init /\ [][Next]_vars

--------------------------------------------------------------------------------

\* A candidate that passes the gate reads the relations of the original, no
\* other and no fewer, wherever it names them (sqlparse.go, SameShapeAs).
GateKeepsTables == SameShapeAs(original, candidate) => RealTables(original) = RealTables(candidate)

\* A rewrite that only moves relations into subqueries and WITHs, or spells a name
\* differently, is not refused (sqlparse.go, SameShapeAs), unless one of the two is, for
\* MySQL, a WITH on a UNION: its columns are taken from the wrong SELECT.
RestructuringPasses ==
    /\ ~TopIsOfWith(original) /\ ~TopIsOfWith(candidate)
    /\ RealTables(original) = RealTables(candidate)
    /\ SpeltAlike(Produced(original), Produced(candidate))
    => SameShapeAs(original, candidate)

\* A relation that is collected exists: "counting [a CTE] would make the optimizer
\* try to introspect a relation that does not exist" (sqlparse.go:252).
CollectedExist == Tables(candidate) \subseteq RealTables(candidate)

--------------------------------------------------------------------------------
(* Said of the program, and not so. *)

\* sqlparse.go:157: "SELECT * expands at execution time, so its column list is not
\* known here and the result comparison has to carry that check instead".
StarLeftToComparison ==
    /\ Produced(original) = <<Star>> /\ Star \notin RangeOf(Produced(candidate))
    /\ RealTables(original) = RealTables(candidate)
    => SameShapeAs(original, candidate)

\* sqlparse.go:180: a dropped table "is reported for the verifier to weigh rather
\* than treated as fatal here".
DroppedIsWeighed ==
    /\ Produced(original) = Produced(candidate)
    /\ RealTables(candidate) \subseteq RealTables(original)
    => SameShapeAs(original, candidate)

\* mysql.go:125: "only the outermost select contributes the output column list".
ColumnsAreOfTheStatement == OutputCols(candidate) = Produced(candidate)

\* mysql.go:125: "only the outermost select contributes [...] ORDER BY. A
\* subquery's ORDER BY says nothing about whether this query promises an ordering".
OrderIsOfTheStatement == HasOrderBy(candidate) = Promised(candidate)
================================================================================
