------------------------------ MODULE Verification ------------------------------
(***************************************************************************)
(* One job in the hands of the optimizer:                                  *)
(*                                                                         *)
(*   internal/optimizer/optimizer.go  Run, propose, runIndexExperiments    *)
(*   internal/optimizer/verify.go     EstablishBaseline, Verify, MeasureIndex *)
(*   internal/engine/postgres.go, mysql.go  Measure, Checksum,             *)
(*                                    WithHypotheticalIndex, MeasureInTx   *)
(*                                                                         *)
(* Each call of the engine is one step, except an index experiment, which   *)
(* is a transaction of several.  Between two steps other clients may write  *)
(* to the target database and the job's own deadline may pass.  The schema  *)
(* and the findings of the rules only matter for the rewrites and indexes   *)
(* they suggest, which are given as constants.                             *)
(***************************************************************************)
EXTENDS Timing, Selection

CONSTANTS
    Texts,          \* SQL texts
    Queries,        \* the texts that jobs are submitted for
    Norm,           \* normalizeSQL of each text
    Kind,           \* what the parser makes of each: "select", "write" or "junk"
    SameShape,      \* pairs <<q, c>> for which q.SameShapeAs(c) has no objection
    HasOrderBy,     \* texts with a top-level ORDER BY
    Dialect,        \* of the target each query runs on: "postgres" or "mysql"
    Outputs,        \* Outputs[c][v]: the row sequences c may return on version v of the data
    Null,           \* the field of a row that has no value
    Absent,         \* what NULL is written as before rows are hashed
    Writers,        \* texts that write when they are executed, whatever the parser says
    Repeats,        \* texts with two output columns of one name
    RuleRewrites,   \* the rewrites the rules generate for each query, in order
    Proposals,      \* the lists of texts propose may return
    NoText,         \* no candidate in hand
    Indexes,        \* index definitions
    Suggested,      \* the indexes the rules suggest for each query, in order
    TestIndexes,    \* TEST_INDEXES
    MaxIndexTests,  \* MAX_INDEX_TESTS
    Measurements,   \* what Measure may return when no run times out
    MinImprovementPct,  \* MIN_IMPROVEMENT_PCT
    DeadlineMayPass,    \* whether the job's context may expire
    MaxWrites           \* bound: writes of other clients to the target

ASSUME TextsAssumption ==
    /\ Queries \subseteq Texts /\ NoText \notin Texts
    /\ SameShape \subseteq Texts \X Texts /\ HasOrderBy \subseteq Texts
    /\ \A c \in Texts : Kind[c] \in {"select", "write", "junk"}
    /\ \A q \in Queries : Kind[q] = "select" /\ Dialect[q] \in {"postgres", "mysql"}
    /\ Writers \subseteq Texts /\ Repeats \subseteq Texts
ASSUME CandidatesAssumption ==
    /\ RuleRewrites \in [Queries -> Seq(Texts)]
    /\ Proposals \subseteq Seq(Texts)
    /\ Suggested \in [Queries -> Seq(Indexes)]
    \* the rules walk PostgreSQL's syntax tree only
    /\ \A q \in Queries : Dialect[q] = "mysql" => RuleRewrites[q] = <<>> /\ Suggested[q] = <<>>
\* mysql.go, Checksum: "a sentinel no value can produce".
ASSUME RowsAssumption ==
    \A c \in Texts : \A v \in 0..MaxWrites : \A rows \in Outputs[c][v] :
        /\ Len(rows) \in Nat /\ rows = [i \in 1..Len(rows) |-> rows[i]]
        /\ \A i \in DOMAIN rows :
              /\ rows[i] = [k \in DOMAIN rows[i] |-> rows[i][k]]
              /\ \A k \in DOMAIN rows[i] : rows[i][k] # Absent
ASSUME MeasurementsAssumption == \A m \in Measurements : Proper(m)
ASSUME BoundsAssumption ==
    /\ MinImprovementPct \in 0..100   \* config.go refuses any other
    /\ MaxIndexTests \in Int /\ MaxWrites \in Nat
    /\ TestIndexes \in BOOLEAN /\ DeadlineMayPass \in BOOLEAN

VARIABLES
    query,        \* the job's statement
    pc,           \* the phase of Run, or the gate of Verify
    expired,      \* whether the job's context is done
    data,         \* the version of the target's data
    base,         \* Baseline: the measurement and the checksum of the original, and the
                  \* version of the data it was taken on
    todo,         \* candidates still to be looked at
    seen,         \* normalised texts looked at
    hand,         \* the candidate being verified
    results,      \* rep.Candidates
    best,         \* the index in results of rep.Best, 0 for none
    tested,       \* index experiments begun
    trial,        \* the outcome of the experiment under way
    experiments,  \* rep.Indexes
    session       \* the experiment's transaction, and where its index is

vars == <<query, pc, expired, data, base, todo, seen, hand, results, best,
          tested, trial, experiments, session>>
environment == <<query, expired, data>>
candidates == <<todo, seen, hand, results, best>>
indexing == <<tested, trial, experiments, session>>

NoMeasurement == [median |-> 0, min |-> 0, max |-> 0]
NoHand == [sql |-> NoText, at |-> 0]
NoTrial == [measured |-> FALSE, gain |-> 0]
NoSession == [tx |-> "none", index |-> "none"]

Init ==
    /\ query \in Queries
    /\ pc = "introspect"
    /\ expired = FALSE
    /\ data = 0
    /\ base = [m |-> NoMeasurement, hash |-> <<>>, at |-> 0]
    /\ todo = <<>> /\ seen = {} /\ hand = NoHand /\ results = <<>> /\ best = 0
    /\ tested = 0 /\ trial = NoTrial /\ experiments = <<>> /\ session = NoSession

--------------------------------------------------------------------------------
(* The world the job runs in. *)

\* Another client of the target commits a write.
Write ==
    /\ data < MaxWrites
    /\ data' = data + 1
    /\ UNCHANGED <<query, pc, expired, base, candidates, indexing>>

\* JobTimeout is over.
Expire ==
    /\ DeadlineMayPass /\ ~expired
    /\ expired' = TRUE
    /\ UNCHANGED <<query, pc, data, base, candidates, indexing>>

--------------------------------------------------------------------------------
(* The checksum of a result. *)

\* The fields of a row as they are hashed.  PostgreSQL hashes the text of the whole
\* row, MySQL joins its columns and would skip a NULL.
CodeSkippingNulls(row) == SelectSeq(row, LAMBDA f : f # Null)   \* slip
Code(row) == [k \in DOMAIN row |-> IF row[k] = Null THEN Absent ELSE row[k]]

Count(codes, c) == Cardinality({i \in DOMAIN codes : codes[i] = c})
Bag(codes) == [c \in {codes[i] : i \in DOMAIN codes} |-> Count(codes, c)]

HashArrival(rows, ordered) ==                               \* slip: order always counts
    [count |-> Len(rows), digest |-> [i \in DOMAIN rows |-> Code(rows[i])]]
Hash(rows, ordered) ==
    LET codes == [i \in DOMAIN rows |-> Code(rows[i])] IN
    [count |-> Len(rows), digest |-> IF ordered THEN codes ELSE Bag(codes)]

\* Executing c now, hashed by the rule of the original.
Checksums(c) == {Hash(rows, query \in HasOrderBy) : rows \in Outputs[c][data]}

\* Every execution but those of an experiment is in a READ ONLY transaction.
RefusedNever(c) == FALSE   \* slip
Refused(c) == c \in Writers

\* The query becomes a derived table; MySQL wants its columns to differ in name.
Hashable(c) == ~Refused(c) /\ ~(Dialect[query] = "mysql" /\ c \in Repeats)

--------------------------------------------------------------------------------
(* Run up to the candidates. *)

Fail ==
    /\ pc' = "error"
    /\ UNCHANGED <<environment, base, candidates, indexing>>

\* A call of the engine that only has to succeed: Introspect, Explain.
Pass(from, to) ==
    /\ pc = from
    /\ \/ ~expired /\ pc' = to /\ UNCHANGED <<environment, base, candidates, indexing>>
       \/ Fail

Introspect == Pass("introspect", "explain")
ExplainBaseline == Pass("explain", "measure")

\* EstablishBaseline: a timeout of the original is an error too.
MeasureBaseline ==
    /\ pc = "measure"
    /\ \/ /\ ~expired /\ ~Refused(query)
          /\ \E m \in Measurements : base' = [base EXCEPT !.m = m]
          /\ pc' = "checksum"
          /\ UNCHANGED <<environment, candidates, indexing>>
       \/ Fail

ChecksumBaseline ==
    /\ pc = "checksum"
    /\ \/ /\ ~expired /\ Hashable(query)
          /\ \E h \in Checksums(query) : base' = [m |-> base.m, hash |-> h, at |-> data]
          /\ pc' = "propose"
          /\ UNCHANGED <<environment, candidates, indexing>>
       \/ Fail

\* slip: a failed proposer leaves no candidates at all
ProposeOrNothing ==
    /\ pc = "propose"
    /\ \/ todo' = <<>>
       \/ \E answer \in Proposals : ~expired /\ todo' = RuleRewrites[query] \o answer
    /\ seen' = {Norm[query]}
    /\ pc' = "next"
    /\ UNCHANGED <<environment, base, hand, results, best, indexing>>

\* The rules' rewrites, and the model's if it is there and answers.
Propose ==
    /\ pc = "propose"
    /\ \/ todo' = RuleRewrites[query]
       \/ \E answer \in Proposals : ~expired /\ todo' = RuleRewrites[query] \o answer
    /\ seen' = {Norm[query]}
    /\ pc' = "next"
    /\ UNCHANGED <<environment, base, hand, results, best, indexing>>

--------------------------------------------------------------------------------
(* Verify. *)

Result(c, reason, gain, at) == [sql |-> c, reason |-> reason, gain |-> gain, at |-> at]

ObjectionNoParser(c) ==   \* slip: the shape alone is looked at
    IF <<query, c>> \notin SameShape THEN "shape_differs" ELSE "none"

\* What the gates before any execution say of c.
Objection(c) ==
    IF Kind[c] = "junk" THEN "does_not_parse"
    ELSE IF Kind[c] = "write" THEN "not_read_only"
    ELSE IF Norm[c] = Norm[query] THEN "identical"
    ELSE IF <<query, c>> \notin SameShape THEN "shape_differs"
    ELSE "none"

\* The verdict on the candidate in hand, which was compared on version "at" of the data.
Conclude(reason, gain, at) ==
    /\ results' = Append(results, Result(hand.sql, reason, gain, at))
    /\ hand' = NoHand
    /\ pc' = "next"
    /\ UNCHANGED <<environment, base, todo, seen, best, indexing>>

RememberedNot(c) == seen   \* slip
Remembered(c) == seen \cup {Norm[c]}

\* The next candidate: skipped if its text was seen, rejected by the gates that
\* need no execution, or taken in hand.
NextCandidate ==
    LET c == Head(todo) IN
    /\ pc = "next" /\ todo # <<>>
    /\ todo' = Tail(todo)
    /\ seen' = Remembered(c)
    /\ \/ /\ Norm[c] \in seen
          /\ UNCHANGED <<pc, hand, results>>
       \/ /\ Norm[c] \notin seen /\ Objection(c) # "none"
          /\ results' = Append(results, Result(c, Objection(c), 0, data))
          /\ UNCHANGED <<pc, hand>>
       \/ /\ Norm[c] \notin seen /\ Objection(c) = "none"
          /\ hand' = [sql |-> c, at |-> data]
          /\ pc' = "hash"
          /\ UNCHANGED results
    /\ UNCHANGED <<environment, base, best, indexing>>

\* The check that carries the load: the results are compared.
ChecksumCandidate ==
    /\ pc = "hash"
    /\ \/ Conclude("failed", 0, data)
       \/ /\ ~expired /\ Hashable(hand.sql)
          /\ \E h \in Checksums(hand.sql) : h # base.hash
          /\ Conclude("results_differ", 0, data)
       \/ /\ ~expired /\ Hashable(hand.sql)
          /\ base.hash \in Checksums(hand.sql)
          /\ hand' = [hand EXCEPT !.at = data]
          /\ pc' = "time"
          /\ UNCHANGED <<environment, base, todo, seen, results, best, indexing>>

\* MySQL takes the job's own deadline for a timeout of the candidate.
MeasureCandidate ==
    /\ pc = "time"
    /\ \/ \E reason \in {"failed", "timed_out"} : Conclude(reason, 0, hand.at)
       \/ /\ ~expired /\ ~Refused(hand.sql)
          /\ \E m \in Measurements :
                Conclude(IF IsFaster(base.m, m, MinImprovementPct) THEN "accepted"
                                                                   ELSE "not_faster",
                         Gain(base.m, m), hand.at)

\* rep.Best: each accepted result in turn replaces a best of smaller gain.
ReplacesUnjudged(i, b) == b = 0 \/ results[i].gain > results[b].gain   \* slip
Replaces(i, b) ==
    results[i].reason = "accepted" /\ (b = 0 \/ results[i].gain > results[b].gain)
BestOfFirst[n \in 0..Len(results)] ==
    IF n = 0 THEN 0
    ELSE LET b == BestOfFirst[n - 1] IN IF Replaces(n, b) THEN n ELSE b

ChooseBest ==
    /\ pc = "next" /\ todo = <<>>
    /\ best' = BestOfFirst[Len(results)]
    /\ pc' = IF TestIndexes THEN "experiment" ELSE "report"
    /\ UNCHANGED <<environment, base, todo, seen, hand, results, indexing>>

--------------------------------------------------------------------------------
(* Index experiments. *)

BudgetInclusive == tested <= MaxIndexTests   \* slip
BudgetLeft == tested < MaxIndexTests

\* What the report says of an experiment.
Experiment(ddl, t) ==
    [ddl |-> ddl, measured |-> t.measured, gain |-> t.gain,
     recommended |-> t.measured /\ Reaches(base.m, t.gain, MinImprovementPct)]

Ddl == Suggested[query][tested]
Recorded == Append(experiments, Experiment(Ddl, trial))

\* Begin, or an experiment that fails before it has a transaction, as each does on
\* MySQL.
BeginExperiment ==
    /\ pc = "experiment"
    /\ tested < Len(Suggested[query]) /\ BudgetLeft
    /\ tested' = tested + 1
    /\ \/ /\ ~expired /\ Dialect[query] = "postgres"
          /\ session' = [tx |-> "rw", index |-> "none"]
          /\ pc' = "create"
          /\ UNCHANGED experiments
       \/ /\ experiments' = Append(experiments, Experiment(Suggested[query][tested + 1], NoTrial))
          /\ UNCHANGED <<pc, session>>
    /\ UNCHANGED <<environment, base, candidates, trial>>

\* SET LOCAL statement_timeout and CREATE INDEX.
CreateIndex ==
    /\ pc = "create"
    /\ \/ /\ ~expired
          /\ session' = [session EXCEPT !.index = "uncommitted"]
          /\ pc' = "trial"
       \/ pc' = "rollback" /\ UNCHANGED session
    /\ UNCHANGED <<environment, base, candidates, tested, trial, experiments>>

\* MeasureInTx: the original, with the index in place.
MeasureWithIndex ==
    /\ pc = "trial"
    /\ \/ /\ ~expired
          /\ \E m \in Measurements : trial' = [measured |-> TRUE, gain |-> Gain(base.m, m)]
       \/ UNCHANGED trial
    /\ pc' = "rollback"
    /\ UNCHANGED <<environment, base, candidates, tested, experiments, session>>

\* slip: the transaction is rolled back on error and left to commit on success
RollbackOnError ==
    /\ pc = "rollback"
    /\ session' = IF trial.measured THEN [tx |-> "none", index |-> "permanent"] ELSE NoSession
    /\ experiments' = Recorded
    /\ trial' = NoTrial
    /\ pc' = "experiment"
    /\ UNCHANGED <<environment, base, candidates, tested>>

\* The deferred rollback, with a context that is never cancelled.
Rollback ==
    /\ pc = "rollback"
    /\ session' = NoSession
    /\ experiments' = Recorded
    /\ trial' = NoTrial
    /\ pc' = "experiment"
    /\ UNCHANGED <<environment, base, candidates, tested>>

EndExperiments ==
    /\ pc = "experiment"
    /\ tested = Len(Suggested[query]) \/ ~BudgetLeft
    /\ experiments' = Ranked(experiments)
    /\ pc' = "report"
    /\ UNCHANGED <<environment, base, candidates, tested, trial, session>>

--------------------------------------------------------------------------------

\* What the worker's goroutine does next.
Step ==
    \/ Introspect \/ ExplainBaseline \/ MeasureBaseline \/ ChecksumBaseline \/ Propose
    \/ NextCandidate \/ ChecksumCandidate \/ MeasureCandidate \/ ChooseBest
    \/ BeginExperiment \/ CreateIndex \/ MeasureWithIndex \/ Rollback \/ EndExperiments

Next == Step \/ Write \/ Expire

Spec == Init /\ [][Next]_vars
================================================================================
