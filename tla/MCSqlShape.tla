------------------------------- MODULE MCSqlShape -------------------------------
(* Small instances of SqlShape for TLC. *)
EXTENDS SqlShape

MCTables == {"t", "T", "u"}
MCWith == {"w", "v"}
MCColumns == {"a", "A", "b"}
MCFold == [n \in {"t", "T", "u", "w", "v", "a", "A", "b"} |->
              IF n = "T" THEN "t" ELSE IF n = "A" THEN "a" ELSE n]

\* The last one is a WITH on a UNION.
MCOriginals == {
    Query(<<"a">>, {"t"}), Query(<<"a", "">>, {"t", "u"}), Query(<<"*">>, {"t", "u"}),
    [selects |-> <<Plain(<<"a">>, {"w"}), Plain(<<"a">>, {"u"})>>,
     with |-> <<Cte("w", "t", <<"*">>)>>, ordered |-> FALSE]}

\* A rewrite for PostgreSQL nests no WITH.
MCEdits ==
    [d \in {"postgres", "mysql"} |->
        {"column", "spelling", "table", "subquery", "with", "union", "order"} \cup
        IF d = "postgres" THEN {} ELSE {"nest"}]
================================================================================
