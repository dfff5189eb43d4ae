------------------------------- MODULE BenchScore -------------------------------
(***************************************************************************)
(* The scores of the benchmark (cmd/bench/main.go): what runOne keeps of a   *)
(* run of the optimizer, and what summarize makes of all of them.           *)
(*                                                                         *)
(* A run is a record of: failed, control (nothing should be found), wants    *)
(* and codes (the finding expected and those reported), verdicts (of the     *)
(* candidates, in order), gain (of the best rewrite), recommended (of each   *)
(* index experiment whether it ended in a recommendation).                  *)
(***************************************************************************)
EXTENDS Integers, Sequences, FiniteSets

CONSTANT NoFinding   \* the query expects none

\* The queries that did not fail, by their place.
Ran(all) == {i \in DOMAIN all : ~ all[i].failed}

Candidates(all) == UNION {{i} \X (DOMAIN all[i].verdicts) : i \in Ran(all)}
Experiments(all) == UNION {{i} \X (DOMAIN all[i].recommended) : i \in Ran(all)}

VerdictAt(all, c) == all[c[1]].verdicts[c[2]]
Improved(r) == \E k \in DOMAIN r.verdicts : r.verdicts[k] = "accepted"
Recommends(r) == \E k \in DOMAIN r.recommended : r.recommended[k]
FoundExpected(r) == r.wants = NoFinding \/ \E k \in DOMAIN r.codes : r.codes[k] = r.wants

\* slip: the counts of the last query stand for all
RejectedLast(all, why) ==
    Cardinality({c \in Candidates(all) : c[1] = Len(all) /\ VerdictAt(all, c) = why})
Rejected(all, why) == Cardinality({c \in Candidates(all) : VerdictAt(all, c) = why})

FalsePositive(r) == r.control /\ (Improved(r) \/ Recommends(r))

\* A query that failed is counted, and nothing else of it.
Totals(all, reasons) ==
    LET expected == {i \in Ran(all) : all[i].wants # NoFinding} IN
    [queries |-> Len(all), failed |-> Cardinality(DOMAIN all \ Ran(all)),
     expected |-> Cardinality(expected),
     found |-> Cardinality({i \in expected : FoundExpected(all[i])}),
     tested |-> Cardinality(Candidates(all)),
     accepted |-> Cardinality({c \in Candidates(all) : VerdictAt(all, c) = "accepted"}),
     rejected |-> [why \in reasons |-> Rejected(all, why)],
     indexesTested |-> Cardinality(Experiments(all)),
     indexesRecommended |->
         Cardinality({e \in Experiments(all) : all[e[1]].recommended[e[2]]}),
     improved |-> Cardinality({i \in Ran(all) : Improved(all[i])}),
     gains |-> [i \in Ran(all) |-> IF Improved(all[i]) THEN all[i].gain ELSE 0],
     falsePositives |-> Cardinality({i \in Ran(all) : FalsePositive(all[i])})]
================================================================================
