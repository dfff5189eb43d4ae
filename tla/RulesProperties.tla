----------------------------- MODULE RulesProperties -----------------------------
(* What the findings of the rules may be relied on for. *)
EXTENDS Rules

Compared == {i \in DOMAIN nodes : nodes[i].op \in Operators}
Written == (UNION {{nodes[i].left, nodes[i].right} : i \in Compared}) \ {NoSide}
Suggested == {i \in DOMAIN findings : findings[i].code = "missing-index"}

\* An index is suggested on a column the statement really compares, of a relation
\* where nothing leads with it yet (rules.go:471, "guessing between two candidates
\* would attribute a filter to the wrong table and propose an index on it").
SuggestionsAreReal ==
    \A i \in Suggested :
        /\ findings[i].col \notin Leading[findings[i].table]
        /\ \E s \in Written : s.real = findings[i].table /\ s.col = findings[i].col

\* However often and in whatever spelling a column is compared, one index is
\* suggested for it, and sorting the report loses or doubles none: an experiment is
\* not made twice out of a budget of few.
SuggestedOnce ==
    \A i, j \in Suggested :
        findings[i].table = findings[j].table /\ findings[i].col = findings[j].col => i = j

\* The relation the rules can tell from what is written.
Clear(s) == Resolved(s) = s.real

Said(t, col, codes) ==
    \E i \in DOMAIN findings :
        findings[i].table = t /\ findings[i].col = col /\ findings[i].code \in codes

\* No comparison is lost on the way to the report: each column of a large relation
\* without an index of its own gets its suggestion or the reason why not.
EveryColumnAnswered ==
    pc = "done" /\ form.dialect = "postgres" => \A s \in Written :
        /\ Clear(s) /\ s.real \in Tables /\ s.col \notin Leading[s.real] /\ Rows[s.real] >= 1000
        => Said(s.real, s.col, {"missing-index", "low-selectivity-column"})

\* Every function around a compared column is reported, on whichever side of the
\* comparison and however often the column is compared otherwise
\* (rules.go, checkSargability).
FunctionsReported ==
    pc = "done" /\ form.dialect = "postgres" => \A s \in Written :
        s.fn # "" => Said(Resolved(s), s.col, {"non-sargable-predicate"})

Instants == (0..LastInstant) \cup {Null}
Read == {<<s.real, s.col>> : s \in Written}
RowsThereMayBe == [value : [Read -> Instants], other : {"true", "false", "null"}]

Rewritings == {i \in DOMAIN findings : findings[i].rewrites # 0}
SelectsTheSame(k) ==
    \A row \in RowsThereMayBe :
        Selects(nodes, form.conn, row) = SelectsRewritten(nodes, form.conn, k, row)

\* The statement a rule rewrites selects the same rows, at midnight and for NULL too,
\* whatever else stands in the WHERE clause: why the range is half open
\* (rules.go:182).  Not so of a comparison under NOT, or with a literal that has a time
\* of day, see RewritesAreSafe.
RewriteSelectsSameRows ==
    pc = "done" => \A i \in Rewritings :
        LET n == nodes[findings[i].rewrites] IN
        ~n.neg /\ Moment[n.lit] = MidnightOf(Moment[n.lit]) => SelectsTheSame(findings[i].rewrites)

--------------------------------------------------------------------------------
(* Said of the program, and not so. *)

\* rules.go:180: the date range is "the one rewrite that can be produced
\* deterministically and safely".  It is put in without parentheses, and a NOT before
\* the comparison is left with the first half of the range; and the literal, which
\* DATE(col) = '2024-01-02 10:00' reads as a day, becomes a day from ten o'clock.
RewritesAreSafe == pc = "done" => \A i \in Rewritings : SelectsTheSame(findings[i].rewrites)

\* rules.go:337: "proposes an index for every filtered or joined column that has
\* none, and explains when it declines to".
DeclinesAreExplained ==
    pc = "done" /\ form.dialect = "postgres" => \A s \in Written :
        Clear(s) /\ s.real \in Tables /\ s.col \notin Leading[s.real] =>
            Said(s.real, s.col, {"missing-index", "low-selectivity-column"})

\* rules.go:151: "finds predicates whose column is wrapped in a function or a cast".
CastsReported ==
    pc = "done" /\ form.dialect = "postgres" => \A s \in Written :
        s.cast # "" => Said(Resolved(s), s.col, {"non-sargable-predicate"})

\* rules.go:365: a column of few values is declined "unless" it is joined on.
JoinsAreNotDeclined ==
    pc = "done" /\ form.dialect = "postgres" => \A i \in Compared :
        NoSide \notin {nodes[i].left, nodes[i].right} =>
            \A s \in {nodes[i].left, nodes[i].right} :
                /\ Clear(s) /\ s.real \in Tables
                /\ s.col \notin Leading[s.real] /\ Rows[s.real] >= 1000
                => Said(s.real, s.col, {"missing-index"})

\* rules.go:328: "NOT IN with a subquery is a NULL trap".
OnlyNotInReported ==
    Said("", "", {"not-in-subquery"}) => \E i \in DOMAIN nodes : nodes[i].op = "in" /\ nodes[i].neg

\* rules.go:77: "Limitations names analyses that could not run": on MySQL the list
\* leaves out the missing indexes, which need predicates just the same.
GapsAreStated ==
    pc = "done" /\ form.dialect = "mysql" => \A s \in Written :
        Clear(s) /\ s.real \in Tables /\ s.col \notin Leading[s.real] /\ Rows[s.real] >= 1000
            => Said(s.real, s.col, {"missing-index", "low-selectivity-column"})
================================================================================
