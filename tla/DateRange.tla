-------------------------------- MODULE DateRange --------------------------------
(***************************************************************************)
(* What a WHERE clause says of a row, before and after the one rewrite the  *)
(* rules generate themselves (internal/rules/rules.go, rewriteDateEquality): *)
(* DATE(col) = 'day' becomes a range on the bare column, put into the text   *)
(* where the comparison stood.  Instants are integers, a day is DayLength of *)
(* them.  A row gives each column an instant or Null, and LIKE and IN a truth. *)
(***************************************************************************)
EXTENDS Integers, Sequences, FiniteSets

CONSTANTS
    DayLength,
    LastInstant,    \* bound: instants 0..LastInstant
    Null,
    Moment          \* the instant each date literal names

ASSUME InstantsAssumption ==
    /\ DayLength \in Nat \ {0} /\ LastInstant \in Nat /\ Null \notin Int
    /\ \A lit \in DOMAIN Moment : Moment[lit] \in Nat

NoSide == [qual |-> "", col |-> "", real |-> "", fn |-> "", cast |-> ""]

Truth(b) == IF b THEN "true" ELSE "false"
Not(p) == CASE p = "true" -> "false" [] p = "false" -> "true" [] p = "null" -> "null"
All(P) == IF "false" \in P THEN "false" ELSE IF "null" \in P THEN "null" ELSE "true"
Any(P) == IF "true" \in P THEN "true" ELSE IF "null" \in P THEN "null" ELSE "false"

MidnightOf(t) == t - (t % DayLength)

\* The column a side is about, in a row, and under DATE().  What other functions
\* and casts do to it is left out: no rewrite touches them.
Stored(side, row) == row.value[<<side.real, side.col>>]
SideValue(side, row) ==
    LET v == Stored(side, row) IN
    IF v = Null \/ side.fn # "date" THEN v ELSE MidnightOf(v)

Operators == {"=", "<>", "<", "<=", ">", ">="}

\* A literal, or a parameter of some value; compared with a date it is read as one.
LiteralValue(lit, side) ==
    LET t == IF lit \in DOMAIN Moment THEN Moment[lit] ELSE 0 IN
    IF side.fn = "date" THEN MidnightOf(t) ELSE t

Holds(op, x, y) ==
    CASE op = "=" -> x = y [] op = "<>" -> x # y [] op = "<" -> x < y
      [] op = "<=" -> x <= y [] op = ">" -> x > y [] op = ">=" -> x >= y

ComparisonTruth(n, row) ==
    LET x == IF n.left = NoSide THEN LiteralValue(n.lit, n.right) ELSE SideValue(n.left, row)
        y == IF n.right = NoSide THEN LiteralValue(n.lit, n.left) ELSE SideValue(n.right, row)
        plain == IF n.op \notin Operators THEN row.other
                 ELSE IF Null \in {x, y} THEN "null" ELSE Truth(Holds(n.op, x, y))
    IN IF n.neg THEN Not(plain) ELSE plain

From(v, t) == IF v = Null THEN "null" ELSE Truth(v >= t)
UntilInclusive(v, t) ==   \* slip: BETWEEN
    IF v = Null THEN "null" ELSE Truth(v <= t + DayLength)
Until(v, t) == IF v = Null THEN "null" ELSE Truth(v < t + DayLength)

\* The literal becomes an instant, plus a day.  The replacement has no parentheses,
\* so that NOT takes the first half of it.
RangeTruth(n, row) ==
    LET v == Stored(n.left, row)
        from == From(v, Moment[n.lit])
    IN All({IF n.neg THEN Not(from) ELSE from, Until(v, Moment[n.lit])})

\* The comparisons of a WHERE clause are joined by AND, or by OR.
Joined(conn, P) == IF conn = "and" THEN All(P) ELSE Any(P)

Selects(nodes, conn, row) ==
    Joined(conn, {ComparisonTruth(nodes[i], row) : i \in DOMAIN nodes}) = "true"

\* The same with the range in place of the k-th comparison.
SelectsRewritten(nodes, conn, k, row) ==
    Joined(conn, {IF i = k THEN RangeTruth(nodes[i], row) ELSE ComparisonTruth(nodes[i], row)
                     : i \in DOMAIN nodes}) = "true"
================================================================================
