---------------------------------- MODULE Rules ----------------------------------
(***************************************************************************)
(* The deterministic half of the optimizer (internal/rules/rules.go,        *)
(* Analyze): from the comparisons of a statement, the schema and the plan    *)
(* to findings, rewrites and suggested indexes.                             *)
(*                                                                         *)
(* A side of a comparison is a column as written, with its qualifier, the   *)
(* function and the cast around it, and the relation the database itself    *)
(* takes it from: a subquery may name its own relation by an outer alias.   *)
(* LIKE is the operator "~~", a subquery after IN the operator "in".        *)
(***************************************************************************)
EXTENDS DateRange, Selection

CONSTANTS
    Tables,         \* relations of the schema
    Refs,           \* the statement's table list: records of name and alias, in order
    Cols,           \* Cols[t]: the columns of t
    DateLike,       \* DateLike[t]: those of a date or timestamp type
    Leading,        \* Leading[t]: the columns some index of t leads with
    Rows,           \* RowEstimate
    LowDistinct,    \* LowDistinct[t]: columns of one or two values
    Sides,          \* the sides comparisons are made of
    Wildcards,      \* the literals that begin with %
    Nodes,          \* the comparisons a statement may hold
    Forms,          \* what else there is to a statement: dialect, star, limit, order, conn
    Plans,          \* measured plans: scans, estimated and actual rows, temporary blocks
    MaxNodes        \* bound: comparisons of a statement

ASSUME SchemaAssumption ==
    /\ \A t \in Tables : Leading[t] \subseteq Cols[t] /\ LowDistinct[t] \subseteq Cols[t]
    /\ Len(Refs) \in Nat /\ DOMAIN Refs = 1..Len(Refs)
    /\ "" \notin Tables
    /\ \A s \in Sides : s.real \in Tables => s.col \in Cols[s.real]
ASSUME NodesAssumption ==
    /\ MaxNodes \in Nat
    /\ \A n \in Nodes :
          /\ n.left \in Sides \cup {NoSide} /\ n.right \in Sides \cup {NoSide}
          \* the database refuses to compare a date with a text that names no date
          /\ n.left.fn = "date" /\ n.lit # "" => n.lit \in DOMAIN Moment

VARIABLES
    nodes,          \* the statement's comparisons, in the order of the walk
    form,           \* the rest of it
    plan,           \* the plan of the baseline
    pc,             \* the check Analyze is at
    at,             \* how many elements its loop has looked at
    preds,          \* Predicates
    findings        \* Findings

vars == <<nodes, form, plan, pc, at, preds, findings>>
input == <<nodes, form, plan>>

Init ==
    /\ nodes \in UNION {[1..n -> Nodes] : n \in 0..MaxNodes}
    /\ form \in Forms /\ plan \in Plans
    /\ pc = IF form.dialect = "mysql" THEN "shape" ELSE "extract"
    /\ at = 0 /\ preds = <<>> /\ findings = <<>>

\* A loop over length elements: its body has looked at one more, or it is over.
Advance(length) == at < length /\ at' = at + 1 /\ pc' = pc
Leave(length, next) == at >= length /\ at' = 0 /\ pc' = next

Finding(code, severity, table, col) ==
    [code |-> code, severity |-> severity, table |-> table, col |-> col, rewrites |-> 0]

--------------------------------------------------------------------------------
(* resolveTables. *)

\* The relations a qualifier stands for: the last entry of the list wins.
Named(q) == {i \in DOMAIN Refs : q \in {Refs[i].alias, Refs[i].name}}
Aliased(q) ==
    IF Named(q) = {} THEN q
    ELSE Refs[CHOOSE i \in Named(q) : \A j \in Named(q) : j <= i].name

\* The statement's relations that have the column, as far as the schema knows them.
Having(col) ==
    {Refs[i].name : i \in {k \in DOMAIN Refs :
                             Refs[k].name \in Tables /\ col \in Cols[Refs[k].name]}}

UnqualifiedGuess(col) == IF Having(col) = {} THEN "" ELSE CHOOSE t \in Having(col) : TRUE   \* slip
\* Resolved only if one relation of the statement has the column.
Unqualified(col) == IF Cardinality(Having(col)) = 1 THEN CHOOSE t \in Having(col) : TRUE ELSE ""

Resolved(side) == IF side.qual = "" THEN Unqualified(side.col) ELSE Aliased(side.qual)

--------------------------------------------------------------------------------
(* extractPredicates. *)

Predicate(side, op, lit, join) ==
    [qual |-> side.qual, col |-> side.col, fn |-> side.fn, cast |-> side.cast,
     table |-> Resolved(side), op |-> op, lit |-> lit, join |-> join]

Flipped(op) ==
    CASE op = "<" -> ">" [] op = "<=" -> ">=" [] op = ">" -> "<" [] op = ">=" -> "<="
      [] OTHER -> op

SameKeyNoColumn(p, q) ==   \* slip
    p.qual = q.qual /\ p.op = q.op /\ p.fn = q.fn /\ p.lit = q.lit
SameKeyNoFunction(p, q) ==   \* slip
    p.qual = q.qual /\ p.col = q.col /\ p.op = q.op /\ p.lit = q.lit
\* What addPredicate tells predicates apart by.
SameKey(p, q) ==
    p.qual = q.qual /\ p.col = q.col /\ p.op = q.op /\ p.fn = q.fn /\ p.lit = q.lit

Added(ps, p) == IF \E i \in DOMAIN ps : SameKey(ps[i], p) THEN ps ELSE Append(ps, p)

\* A comparison of two columns is a predicate on each of them; one with the
\* column on the right is read the other way round; one of two values is none.
Extract ==
    LET n == nodes[at + 1] IN
    /\ pc = "extract"
    /\ \/ /\ Advance(Len(nodes))
          /\ preds' =
                CASE n.op \notin Operators \/ (n.left = NoSide /\ n.right = NoSide) -> preds
                  [] n.op \in Operators /\ n.left # NoSide /\ n.right = NoSide ->
                        Added(preds, Predicate(n.left, n.op, n.lit, "filter"))
                  [] n.op \in Operators /\ n.left = NoSide /\ n.right # NoSide ->
                        Added(preds, Predicate(n.right, Flipped(n.op), n.lit, "filter"))
                  [] OTHER -> Added(Added(preds, Predicate(n.left, n.op, "", "join")),
                                    Predicate(n.right, n.op, "", "join"))
       \/ Leave(Len(nodes), "sargable") /\ UNCHANGED preds
    /\ UNCHANGED <<input, findings>>

--------------------------------------------------------------------------------
(* checkSargability. *)

KnownDate(p) ==
    p.table \in Tables /\ p.col \in Cols[p.table] => p.col \in DateLike[p.table]

\* DATE(col) = 'literal', spelled as in the predicate.
Spelled(n, p) ==
    /\ n.op = "=" /\ n.left.fn = "date" /\ n.right = NoSide
    /\ n.left.qual = p.qual /\ n.left.col = p.col /\ n.lit = p.lit

\* The place of the comparison that is replaced, the first in the text, or 0.
Rewritten(p) ==
    LET places == {i \in DOMAIN nodes : Spelled(nodes[i], p)} IN
    IF p.op = "=" /\ p.lit # "" /\ p.fn = "date" /\ KnownDate(p) /\ places # {}
    THEN CHOOSE i \in places : \A j \in places : i <= j
    ELSE 0

Wrapped(p) == p.fn # "" \/ p.cast # ""

CheckSargability ==
    LET p == preds[at + 1] IN
    /\ pc = "sargable"
    /\ \/ /\ Advance(Len(preds))
          /\ findings' =
                IF ~Wrapped(p) THEN findings
                ELSE Append(findings,
                        [Finding("non-sargable-predicate", "high", p.table, p.col)
                            EXCEPT !.rewrites = Rewritten(p)])
       \/ Leave(Len(preds), "wildcard") /\ UNCHANGED findings
    /\ UNCHANGED <<input, preds>>

--------------------------------------------------------------------------------
(* The checks of single nodes of the tree and of the statement's form. *)

\* LIKE with nothing to seek on; the column keeps its qualifier as written.
CheckLeadingWildcard ==
    LET n == nodes[at + 1] IN
    /\ pc = "wildcard"
    /\ \/ /\ Advance(Len(nodes))
          /\ findings' =
                IF n.op # "~~" \/ n.lit \notin Wildcards THEN findings
                ELSE Append(findings,
                        Finding("leading-wildcard-like", "high", n.left.qual, n.left.col))
       \/ Leave(Len(nodes), "in") /\ UNCHANGED findings
    /\ UNCHANGED <<input, preds>>

\* A subquery after IN; whether it is NOT IN is not looked at.
CheckNotIn ==
    /\ pc = "in"
    /\ \/ /\ Advance(Len(nodes))
          /\ findings' =
                IF nodes[at + 1].op # "in" THEN findings
                ELSE Append(findings, Finding("not-in-subquery", "medium", "", ""))
       \/ Leave(Len(nodes), "shape") /\ UNCHANGED findings
    /\ UNCHANGED <<input, preds>>

If(condition, finding) == IF condition THEN <<finding>> ELSE <<>>

StarSelected == If(form.star, Finding("select-star", "medium", "", ""))
LimitWithoutOrder ==
    If(form.limit /\ ~form.order, Finding("limit-without-order-by", "medium", "", ""))

CheckShape ==
    /\ pc = "shape"
    /\ findings' = findings \o StarSelected \o LimitWithoutOrder
    /\ pc' = "index" /\ at' = 0
    /\ UNCHANGED <<input, preds>>

--------------------------------------------------------------------------------
(* checkMissingIndexes. *)

IndexLeadsWith(t, col) == col \in Leading[t]

\* Below a thousand rows an index is never used.
WorthLooking(t, col) == t \in Tables /\ ~IndexLeadsWith(t, col) /\ Rows[t] >= 1000

ProposedNever(t, col) == FALSE   \* slip
Proposed(t, col) ==
    \E i \in DOMAIN findings :
        findings[i].code = "missing-index" /\ findings[i].table = t /\ findings[i].col = col

\* A column of one or two values is declined, unless it is joined on.
Declined(p) == p.col \in LowDistinct[p.table] /\ p.join = "filter"

CheckMissingIndexes ==
    LET p == preds[at + 1] IN
    /\ pc = "index"
    /\ \/ /\ Advance(Len(preds))
          /\ findings' =
                IF ~WorthLooking(p.table, p.col) THEN findings
                ELSE IF Declined(p)
                     THEN Append(findings, Finding("low-selectivity-column", "low", p.table, p.col))
                ELSE IF Proposed(p.table, p.col) THEN findings
                ELSE Append(findings, Finding("missing-index", "high", p.table, p.col))
       \/ Leave(Len(preds), "plan") /\ UNCHANGED findings
    /\ UNCHANGED <<input, preds>>

--------------------------------------------------------------------------------
(* checkPlan, and the order of the report. *)

RowsOf(t) == IF t \in Tables THEN Rows[t] ELSE 0
Large(t) == RowsOf(t) >= 50000

EstimateOff ==
    /\ plan.estimated > 0 /\ plan.actual > 0
    /\ plan.actual > 10 * plan.estimated \/ 10 * plan.actual < plan.estimated

\* Each large relation that was scanned, then what the plan says as a whole.
CheckPlan ==
    /\ pc = "plan"
    /\ \/ /\ Advance(Len(plan.scans))
          /\ findings' =
                IF ~Large(plan.scans[at + 1]) THEN findings
                ELSE Append(findings,
                        Finding("seq-scan-large-table", "high", plan.scans[at + 1], ""))
       \/ /\ Leave(Len(plan.scans), "sort")
          /\ findings' =
                findings \o If(EstimateOff, Finding("row-estimate-off", "medium", "", ""))
                         \o If(plan.temp > 0, Finding("sort-spilled-to-disk", "medium", "", ""))
    /\ UNCHANGED <<input, preds>>

SeverityRank(s) == CASE s = "high" -> 0 [] s = "medium" -> 1 [] OTHER -> 2

SeverestFirst(s) ==
    {p \in (DOMAIN s) \X (DOMAIN s) :
        LET a == SeverityRank(s[p[1]].severity)
            b == SeverityRank(s[p[2]].severity)
        IN a < b \/ (a = b /\ p[1] < p[2])}

SortFindings ==
    /\ pc = "sort"
    /\ findings' = Sorted(findings, SeverestFirst(findings))
    /\ pc' = "done" /\ at' = 0
    /\ UNCHANGED <<input, preds>>

--------------------------------------------------------------------------------

Next == \/ Extract \/ CheckSargability \/ CheckLeadingWildcard \/ CheckNotIn \/ CheckShape
        \/ CheckMissingIndexes \/ CheckPlan \/ SortFindings

Spec == Init /\ [][Next]_vars
================================================================================
