------------------------- MODULE VerificationProperties -------------------------
(* What a report of the optimizer may be relied on for. *)
EXTENDS Verification, BenchScore, Functions

Phases == {"introspect", "explain", "measure", "checksum", "propose", "next", "hash",
           "time", "experiment", "create", "trial", "rollback", "report", "error"}

Reasons == {"does_not_parse", "not_read_only", "identical", "shape_differs", "failed",
            "results_differ", "timed_out", "not_faster", "accepted"}

\* Every variable stays in its type.
TypeOK ==
    /\ query \in Queries /\ pc \in Phases /\ expired \in BOOLEAN /\ data \in 0..MaxWrites
    /\ base.m \in Measurements \cup {NoMeasurement} /\ base.at \in 0..MaxWrites
    /\ todo \in Seq(Texts)
    /\ seen \subseteq {Norm[c] : c \in Texts}
    /\ hand \in [sql : Texts \cup {NoText}, at : 0..MaxWrites]
    /\ results \in Seq([sql : Texts, reason : Reasons, gain : Int, at : 0..MaxWrites])
    /\ best \in 0..Len(results)
    /\ tested \in 0..Len(Suggested[query])
    /\ trial \in [measured : BOOLEAN, gain : Int]
    /\ experiments \in Seq([ddl : Indexes, measured : BOOLEAN, gain : Int, recommended : BOOLEAN])
    /\ session \in [tx : {"none", "rw"}, index : {"none", "uncommitted"}]

Accepted == {i \in DOMAIN results : results[i].reason = "accepted"}
Judged == pc \in {"experiment", "create", "trial", "rollback", "report"}

\* The same rows, in the same order when the original promises one.
SameRows(o, p) ==
    IF query \in HasOrderBy THEN o = p
    ELSE /\ Len(o) = Len(p)
         /\ \E f \in [DOMAIN o -> DOMAIN p] :
               /\ \A i, j \in DOMAIN o : f[i] = f[j] => i = j
               /\ \A i \in DOMAIN o : p[f[i]] = o[i]

\* An accepted rewrite can return, on the data it was compared on, what the original
\* can return on the data of the baseline, whatever is written in between or later
\* (verify.go, gate 4).
AcceptedMatchesOriginal ==
    \A i \in Accepted :
        \E o \in Outputs[query][base.at], p \in Outputs[results[i].sql][results[i].at] :
            SameRows(o, p)

\* A rewrite is refused for its results only if, on the data it was compared on, they
\* can differ from the baseline: a query that promises no order loses no equivalent
\* rewrite to the order of arrival (postgres.go, Checksum).
EquivalentNotRefused ==
    \A i \in DOMAIN results : results[i].reason = "results_differ" =>
        \E o \in Outputs[query][base.at], p \in Outputs[results[i].sql][results[i].at] :
            ~ SameRows(o, p)

\* No text is judged twice in another spelling, and the original never
\* (optimizer.go, the seen map).
NothingJudgedTwice ==
    /\ \A i, j \in DOMAIN results : Norm[results[i].sql] = Norm[results[j].sql] => i = j
    /\ \A i \in DOMAIN results : Norm[results[i].sql] # Norm[query]

\* Whatever the model proposes or fails to propose, each rewrite of the rules gets
\* its verdict (optimizer.go, "a proposer failure degrades the run").
EveryRewriteJudged ==
    Judged => \A k \in DOMAIN RuleRewrites[query] :
        LET n == Norm[RuleRewrites[query][k]] IN
        n = Norm[query] \/ \E i \in DOMAIN results : Norm[results[i].sql] = n

\* Only single SELECTs of the original's shape are ever executed, whoever
\* proposed them (verify.go, gates 1 to 3 come before any execution).
OnlyReadsExecuted ==
    LET ran == {results[i].sql : i \in {k \in DOMAIN results : results[k].reason \in
                   {"failed", "results_differ", "timed_out", "not_faster", "accepted"}}}
        running == IF pc \in {"hash", "time"} THEN {hand.sql} ELSE {}
    IN \A c \in ran \cup running : Kind[c] = "select" /\ <<query, c>> \in SameShape

\* The median of an accepted rewrite is below every timed run of the original:
\* what the two bars of isFaster add up to.
AcceptedBeatsEveryRun ==
    \A i \in Accepted : base.m.median - results[i].gain < 2 * base.m.min

\* The report's best rewrite is the first of the accepted ones with the largest gain, and
\* there is one whenever some rewrite was accepted, however its neighbours were judged
\* (optimizer.go, the loop over rep.Candidates).
BestIsFastest ==
    Judged => IF Accepted = {} THEN best = 0
              ELSE /\ best \in Accepted
                   /\ \A i \in Accepted :
                         IF i < best THEN results[i].gain < results[best].gain
                                     ELSE results[i].gain <= results[best].gain

\* No index outlives its experiment, however the experiment ends
\* (postgres.go, "the index must not survive the experiment").
IndexNeverSurvives == pc \notin {"create", "trial", "rollback"} => session = NoSession

\* Every experiment that was begun is in the report, once, and there are no more
\* of them than the budget (optimizer.go, runIndexExperiments).
ExperimentsAccounted ==
    LET open == IF pc \in {"create", "trial", "rollback"} THEN 1 ELSE 0 IN
    /\ Len(experiments) + open = tested
    /\ tested <= IF MaxIndexTests < 0 THEN 0 ELSE MaxIndexTests
    /\ open = 0 => \A n \in 1..tested : \E i \in DOMAIN experiments :
                       experiments[i].ddl = Suggested[query][n]

\* A statement that writes whenever it is executed never comes as far as the
\* transaction of an experiment, which is the only one that may write, and no rewrite
\* that writes is judged on a finished execution (postgres.go:464, "even if a
\* statement slipped past the parse-time check").
NothingIsWritten ==
    /\ session.tx = "rw" => query \notin Writers
    /\ \A i \in DOMAIN results :
          results[i].reason \in {"results_differ", "not_faster", "accepted"} =>
              results[i].sql \notin Writers

\* The run as the benchmark takes it down, with its query a control or not.
Line(control) ==
    [failed |-> pc = "error", control |-> control, wants |-> NoFinding, codes |-> <<>>,
     verdicts |-> [i \in DOMAIN results |-> results[i].reason],
     gain |-> IF best = 0 THEN 0 ELSE results[best].gain,
     recommended |-> [i \in DOMAIN experiments |-> experiments[i].recommended]]

\* Whatever way the runs of a benchmark end, its totals lose no candidate, a query
\* counts as improved exactly if its best rewrite saves time, and no false positives
\* means that no control got a rewrite or an index (docs/RESULTS.md:36).
ScoreAddsUp ==
    pc \in {"report", "error"} =>
        LET lines == <<Line(TRUE), Line(FALSE)>>
            t == Totals(lines, Reasons \ {"accepted"})
            finished == t.queries - t.failed IN
        /\ t.tested = finished * Len(results)
        /\ t.tested = t.accepted + SumFunction(t.rejected)
        /\ t.improved = Cardinality({i \in DOMAIN t.gains : t.gains[i] > 0})
        /\ t.falsePositives = 0 /\ pc = "report" =>
              best = 0 /\ \A i \in DOMAIN experiments : ~experiments[i].recommended

--------------------------------------------------------------------------------
(* Said of the program, and not so. *)

\* docs/ARCHITECTURE.md:266: "A checksum match proves the two queries returned identical
\* rows for the data present when they ran".
MatchProvesSameRows ==
    \A i \in Accepted :
        \E o \in Outputs[query][results[i].at], p \in Outputs[results[i].sql][results[i].at] :
            SameRows(o, p)

\* README.md:202: "every measurement runs inside a READ ONLY transaction".
MeasurementsAreReadOnly == pc = "trial" => session.tx = "ro"
================================================================================
