---------------------------------- MODULE MCRules ----------------------------------
(* Small instances of Rules for TLC. *)
EXTENDS RulesProperties

MCTables == {"t", "u"}
\* FROM t AS x, u, and v, of which the schema knows nothing.
MCRefs == << [name |-> "t", alias |-> "x"], [name |-> "v", alias |-> ""],
             [name |-> "u", alias |-> ""] >>
MCCols == [r \in MCTables |-> IF r = "t" THEN {"id", "a", "c", "d"} ELSE {"id", "a", "b"}]
MCDateLike == [r \in MCTables |-> IF r = "t" THEN {"a", "d"} ELSE {"a"}]
MCLeading == [r \in MCTables |-> IF r = "t" THEN {"id"} ELSE {"b"}]
MCRows == [r \in MCTables |-> IF r = "t" THEN 1000 ELSE 50000]
MCLowDistinct == [r \in MCTables |-> IF r = "t" THEN {"c"} ELSE {}]

\* Days of two instants; the third literal has a time of day.
MCMoment == [lit \in {"d0", "d1", "noon"} |-> CASE lit = "d0" -> 0 [] lit = "d1" -> 2 [] OTHER -> 3]

Side(q, c, r, f, k) == [qual |-> q, col |-> c, real |-> r, fn |-> f, cast |-> k]
Plain == { Side("x", "id", "t", "", ""), Side("x", "a", "t", "", ""), Side("x", "c", "t", "", ""),
           Side("", "c", "t", "", ""), Side("u", "a", "u", "", ""), Side("u", "b", "u", "", ""),
           Side("v", "a", "v", "", ""),
           Side("", "a", "u", "", "") }   \* the last stands in a subquery over u
Dates == { Side("x", "d", "t", "date", ""), Side("", "d", "t", "date", ""),
           Side("u", "a", "u", "date", "") }
Others == { Side("x", "a", "t", "lower", ""), Side("x", "c", "t", "", "text"),
            Side("x", "d", "t", "", "") }
MCSides == Plain \cup Dates \cup Others

Node(l, op, r, lit) == [left |-> l, op |-> op, right |-> r, lit |-> lit, neg |-> FALSE]
Negated(n) == [n EXCEPT !.neg = TRUE]
MCNodes ==
    {Node(s, "=", NoSide, lit) : s \in MCSides, lit \in {"", "d1"}}
    \cup {Node(s, "=", NoSide, lit) : s \in Dates, lit \in {"d0", "noon"}}
    \cup {Node(NoSide, "<", s, "d1") : s \in Dates \cup Others}
    \cup {Node(NoSide, "=", s, "d1") : s \in Dates}
    \cup {Node(p[1], "=", p[2], "") : p \in {p \in MCSides \X Others : p[1] # p[2]}}
    \cup {Node(NoSide, "=", NoSide, "d1")}
    \cup {Node(Side("x", "c", "t", "", ""), "~~", NoSide, "%v")}
    \cup {Node(Side("x", "c", "t", "", ""), "~~", NoSide, "v%")}
    \cup {Node(Side("x", "c", "t", "", ""), "in", NoSide, "")}
    \cup {Negated(Node(s, "=", NoSide, "d1")) : s \in Dates}
    \cup {Negated(Node(Side("x", "c", "t", "", ""), "in", NoSide, ""))}

Form(dialect, star, limit, order, conn) ==
    [dialect |-> dialect, star |-> star, limit |-> limit, order |-> order, conn |-> conn]
MCForms == { Form("postgres", TRUE, TRUE, FALSE, "and"), Form("postgres", FALSE, TRUE, TRUE, "or"),
             Form("mysql", TRUE, TRUE, FALSE, "or") }

Plan(scans, estimated, actual, temp) ==
    [scans |-> scans, estimated |-> estimated, actual |-> actual, temp |-> temp]
MCPlans == { Plan(<<"t", "u", "u", "w">>, 10, 101, 0), Plan(<<>>, 10, 1, 1) }
================================================================================
