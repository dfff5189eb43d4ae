# QueryForge: TLA+ models, checks and proofs

QueryForge takes a slow SQL query over HTTP, records it as a job, queues the job
in Kafka, and has a worker look for a faster equivalent: rules and a language
model propose rewrites, each rewrite is executed and its results and timings
compared with those of the original, and index suggestions are tried out inside a
transaction that is rolled back. The report goes into the job's row.

Paths below are relative to the repository (`internal/store/store.go`), lines are
those of the commit these modules were written from. `PROJECT.json` maps every
definition to the lines it stands for.

## 1. Inventory

| component | state it keeps | operations | what is hard |
| --- | --- | --- | --- |
| job API (`internal/api/server.go`) | none of its own | `createOptimization`: insert a row, publish a message, answer 202/200/500/503; read-only handlers | insert and publish are two calls: one may fail, the process may die in between, clients ask again |
| job store (`internal/store`) | `optimization_jobs` rows, `query_runs` history | `CreateJob` (insert or find), `ClaimJob` (conditional update), `CompleteJob`, `MarkFailure` (by id), `ReclaimStale` (by age), `RecordRun` | statements of several workers on one row in any order; two of them do not look at the status |
| queue (`internal/queue`) | a main topic, two delay topics, a dead-letter topic, the group's committed offsets | `Publish`, `Fetch`, `Commit` | at-least-once: duplicates, redelivery after a rebalance, commits that are lost or cover more than was handled |
| worker (`cmd/worker/main.go`) | the message in each goroutine's hands | `consumeMain`/`handle`, `recordRuns`, `scheduleRetry`, `consumeRetry`, `reclaimLoop`, shutdown | several goroutines and processes, each call may fail, a crash between any two, leases that expire, a context that is cancelled |
| optimizer (`internal/optimizer/optimizer.go`) | the report under way | `Run`, `propose`, `runIndexExperiments` | phases that degrade or fail, duplicate candidates, a budget |
| verifier (`internal/optimizer/verify.go`) | the baseline | `EstablishBaseline`, `Verify`, `isFaster`, `MeasureIndex` | measurements and checksums taken at different times of a changing database; numeric bars |
| engines (`internal/engine`) | connections and transactions | `Introspect`, `Explain`, `Measure`, `Checksum`, `WithHypotheticalIndex`, `MeasureInTx`, `readOnly` | timeouts and errors inside a transaction that must roll back; some runs of a measurement done and others not; row order and NULLs; a catalogue that changes between two queries |
| parser (`internal/sqlparse`) | none | `Parse`, `ParseMySQL`, `SameShapeAs` | scopes of names over two grammars |
| rules (`internal/rules`) | the findings under way | `Analyze` and a dozen checks, the date rewrite | resolving names to relations, keys that are too coarse, boundaries of ranges |
| model client (`internal/llm`) | none between calls | `Generate` with retries, `ExtractJSON` | a retry loop with three clocks: backoff, budget, context |
| bench (`cmd/bench`) | totals | `runOne`, `summarize` | counts over failed, control and improved queries |
| cache, configuration, start-up | - | - | nothing: the cache is pinged and never used |

How they interact: the API writes a row and publishes its id; a consumer of some
worker process fetches the message, claims the row, calls `Optimizer.Run`, writes
history and report, and commits the offset. On an error it marks the row, and
publishes to a delay topic or the dead-letter topic; a forwarder goroutine brings
a delayed message back to the main topic. A reclaimer in every process looks for
rows that have been running for `2*JobTimeout`. `Run` calls the parser, the engine,
the rules, the model client and the verifier in order, all in one goroutine, while
other clients may write to the target database.

What makes each of them correct is stated in the property modules, and summed up
in section 4. `PROJECT.json` lists under "hazards" where each of these things can
go wrong and which property watches it.

## 2. Modules

| module | models | built on |
| --- | --- | --- |
| `JobLifecycle` | abstract: what is promised of one row (a graph of statuses, a paid attempt per start, final states) | - |
| `JobPipeline` | API, store, queue and worker, composed: they share rows and topics, and their hazards are about each other | - |
| `JobPipelineProperties` | the properties of the pipeline, and `RefinesLifecycle` | `JobPipeline`, `JobLifecycle` |
| `JobPipelineProofs` | proofs about it | `JobPipelineProperties` |
| `Timing` | pure: k-th smallest, median, measurement, improvement, `isFaster` | - |
| `Measuring`, `MeasuringProofs` | one call of `Measure` or `MeasureInTx`, run by run, on each engine | `Timing` |
| `Introspection`, `IntrospectionProofs` | `Introspect` of both engines against a catalogue that changes | - |
| `Selection`, `SelectionProofs` | pure: the cut of the model's proposals, stable sorts | - |
| `Verification` | optimizer, verifier and engine, composed, for one job | `Timing`, `Selection` |
| `BenchScore` | pure: what the benchmark takes down of a report, and its totals | - |
| `VerificationProperties`, `VerificationProofs` | properties of a report and of the benchmark made from it, and proofs | `Verification`, `BenchScore` |
| `ModelClient`, `ModelClientProofs` | one call of `Generate` | - |
| `SqlShape`, `SqlShapeProofs` | what the parsers collect, and `SameShapeAs`, under edits of a candidate | - |
| `DateRange` | pure: what a WHERE clause says of a row before and after the date rewrite, in three-valued logic | - |
| `Rules` | `Analyze`: predicates, resolution of names, every check, the sort of the findings | `DateRange`, `Selection` |
| `RulesProperties`, `RulesProofs` | its properties and proofs | `Rules` |
| `MC*` | the small constants the runs use | the module they are named after |

`Verification` is the inside of the one step `Run` of `JobPipeline`: the pipeline
needs to know of it that it ends with a report or an error. `SameShape` and `Kind`
of `Verification` are constants; `SqlShape` is how the first is computed. Its
`Measurements` are what `Measuring` returns: that each is `Proper`, which
`Verification` assumes, is the theorem `MeasurementsAreProper` there. Its
`RuleRewrites` and `Suggested` are what `Rules` finds, and the schema `Rules` is given
is what `Introspection` reads.

A definition marked `slip` stands next to the one it would replace: a dropped
guard, a missing reset, an off-by-one. It is used by no specification; each is a
variation under which some property fails, named with it in `PROJECT.json`, so that
a reader can see what each property is sensitive to.

## 3. State and actions against the code

### JobPipeline

* `row[j]` is the row of idempotency key `j`: `status`, `attempts`, `lastError`
  ("run" or "lease", who wrote it), `report`, and `age`, the time since
  `started_at` of a running row in whole `JobTimeout`s, up to 2. `runs[j]` counts baselines in
  `query_runs`. `max_attempts` is `AttemptLimit` (an unset one becomes 3).
* `log[t][k]` is everything ever written to partition `k` of topic `t`, 0 being the
  main topic and `1..NumTiers` the delay topics, of which the code has two. `committed` and
  `pos` are the group's committed offset and the present owner's fetch position. `dlq` counts.
* A message is the id of its job. Its other fields are read by nobody that changes
  state; `NotBefore` only delays a forwarder, which may be slow anyway. `NoJob` in a
  log is a message that does not decode.
* `actor[a]` is a worker goroutine, `<<topic, process, n>>`: where in `handle` or
  `consumeRetry` it is and what it holds. `proc[p]` is "up", "draining" (SIGTERM was
  delivered: the context of every call is cancelled), or "down".
* Every external call is one step: `Create`, `PublishJob`; `Fetch`, `Claim`, `Run`,
  `RecordRuns`, `Complete`, `MarkFailure`, `PublishRetry`, `PublishDLQ`, `Forward`,
  `Commit`; `ReclaimStale`. A call that fails may or may not have had its effect
  (`SetOrNot`, `Unacked`). A step takes the branch the code takes after it, errors
  that are only logged included.
* Kafka is modelled from how the code uses it: `Rebalance` gives partitions without
  owner to live members, `Reshuffle` is a rebalance no process joined or left for; both restart
  every partition at its committed offset, and a goroutine that still holds a
  message goes on with it. A process that joins (`Restart`) makes a new generation: every
  member loses its partitions, in mid-run too, until `Rebalance`. A late commit may move the
  committed offset back. A producer retry may leave two copies.
* `Elapse` and `Stall` age a running row. `Run` is cancelled after one `JobTimeout`,
  and the few statements after it are taken to need less than another; a worker
  that needs more is the fault "stall".
* Faults are counted and bounded by `MaxFaults`; `Faults` selects the kinds.

### Verification

* `pc` is the phase of `Run` or the gate of `Verify`. `base` is the `Baseline`, `todo`
  and `seen` the loop over candidates, `hand` the candidate between two engine calls,
  `results`, `best` and `experiments` the report. `base.at`, `hand.at` and `results[i].at`
  record the version of the data the baseline was taken and a verdict was reached on; the
  program has no such fields. `BestOfFirst[n]` is the best after `n` turns of the loop that
  picks it, which replaces it by an accepted result of larger gain.
* A text is a model value: `Norm` is its `normalizeSQL`, `Kind` what the parser says of
  it, `Outputs[c][v]` the row sequences it may return on version `v` of the data.
* The hash is a sequence of row codes when the original has ORDER BY and a bag otherwise;
  SHA-256 and MD5 are taken to be injective. `Code` writes NULL as the sentinel of
  mysql.go; that no value equals the sentinel is `RowsAssumption`, as a comment there says (it
  also has results be sequences of rows).
* `Dialect[q]` is the engine of the target. On MySQL the rules suggest nothing, every
  experiment fails before it has a transaction, and a query with two output columns of
  one name cannot be hashed (`Hashable`).
* `Writers` are texts that write although the parser let them pass (a function with side
  effects): a READ ONLY transaction refuses them, that of an experiment would not.
* One engine call is one step; an index experiment is `BeginExperiment`,
  `CreateIndex`, `MeasureWithIndex`, `Rollback`, each of which may fail. The rollback
  uses a context of its own and is taken to succeed or to be done by the server when
  the connection goes.
* A measurement is any `Proper` record: twice the fastest run <= twice the median <=
  twice the slowest. Medians are doubled, so that the mean of two runs is an integer.
  Percentages are compared after multiplication, not divided.
* Other clients write to the target (`Write`) and `JobTimeout` passes (`Expire`)
  between any two steps.

### The others

* `ModelClient`: `pc` is the place in the loop, `now` the time since the call in
  seconds; the wait is the `select` on timer and context. `late` counts requests
  begun after the context was done and exists for the property.
* `SqlShape`: a statement is its WITH list and the branches of its UNION; the
  candidate starts as the original and is edited. `dialect` picks the parser.
  `Tables`, `CTENames`, `OutputCols`, `HasOrderBy` are the facts the two parsers
  extract; `RealTables`, `Produced` and `Promised` are what the database would say. `Top` is
  the SELECT whose columns and ORDER BY count: in MySQL the first one the visitor enters,
  which for a WITH on a UNION is the one inside the WITH.
* `Measuring`: `pc` is the call under way, `tx` the transaction the next statement runs in:
  a READ ONLY one per run, or the experiment's own. Each call may fail with any of
  the errors its engine gives; `TimeoutErrors` are those `isTimeout` and `isMySQLTimeout`
  take for a timeout of the statement. Warm-ups are executed and not kept.
* `Introspection`: a relation is a record of its identity, schema, name, kind, rows,
  columns and indexes; `catalog` is what the target has now, `past` what it had since
  the call began, and exists for the properties. Each query is one step and one
  snapshot. `byName` is the map of that name. Of an index the schema keeps the name and
  the part it leads with, which is all the rules look at (`indexLeadsWith`). `Described` are
  the relations whose columns are read: PostgreSQL's query of columns leaves out its own
  schemas, the other two do not. That a relation
  "was there" means one of the same identity, name, schema and kind.
* `Rules`: a comparison has one or two sides, each with the qualifier as written, the
  function and the cast around it, and the relation the database takes the column from.
  `Refs` may hold relations the schema lacks; `resolveTables` passes over them.
  Each check of `Analyze` is one action, a loop over predicates one step per element,
  in the order of the code. Findings keep code, severity, table, column and the
  comparison a rewrite replaces; their wording is left out. On MySQL, whose tree is not
  walked, `Analyze` begins at the checks that need none.
* `DateRange`: a row gives each column an instant or NULL; what is compared is whether
  the WHERE clause is true of the row. Instants are integers, a day is `DayLength` of
  them, and a date literal names one, at midnight or later in the day.
* `BenchScore`: a run is a record of what `runOne` keeps; `Totals` is `summarize`, which counts the
  runs that failed and leaves them out of everything else (`Ran`).

## 4. Runs

All runs are of finite models explored completely. `CHECK_DEADLOCK FALSE` stands in
every configuration, since every system here really comes to rest: a pipeline with
all jobs finished and all processes idle, a run that has its report, a call that
returned, a rewrite with no edit left.

### The pipeline

| run | instance | shows |
| --- | --- | --- |
| `JP_delivery` | 2 jobs in one partition, 2 processes, 2 attempts; one crash, with or without a restart, rebalance, lost commit or duplicate (2.0 million states) | `ExclusiveRun`, `ReportIffSucceeded`, `WaitingIsCarried`, `DeadLetteredOnce`, `SucceededHasHistory`, `CommittedRetryWasForwarded`, `FinishedIsFinal`, `RefinesLifecycle` |
| `JP_every_fault` | 1 job, 1 request, 2 processes, 2 attempts; all kinds of fault, any two (1.6 million) | `TypeOK`, `AttemptsAccounted`, `MessageHasRow`, `HistoryBounded` |
| `JP_live` | 1 job asked for twice, 1 process with 2 consumers, default attempts; one rebalance, duplicate or undecodable message; fair (61,000) | `AcceptedFinishes` |

* `ExclusiveRun`: one worker at a time holds a job, and the row is running on its
  attempt. Claim, redelivery and lease are jointly there for it. It needs that no
  lease expires under a live worker, so "stall" is not among the faults here.
* `AttemptsAccounted`: a row that may be claimed has an attempt left, a failed row
  used all of them; under every fault, stalls included.
* `WaitingIsCarried`: a row that waits for a worker has a message on its way: beyond the
  committed offset of a topic, or in the hands of a worker about to publish it. It
  excepts rows the reclaimer sent back, for which it is not so (`JP_reclaimed`). A row
  that was never claimed keeps its message through any number of crashes and
  rebalances; a retry can be lost by two faults, a rebalance in mid-run, after which
  the message is skipped and committed elsewhere, and then the death of the worker
  between `MarkFailure` and the publish.
* `CommittedRetryWasForwarded`: a committed offset of a delay topic covers only messages
  that are in the main topic again, whatever was redelivered in between. It needs that
  the forwarder's publishes succeed: "forward" is not among the faults here, and with
  it the statement fails (below).
* `DeadLetteredOnce`: a job is dead-lettered only when its row failed, at most once
  more than there were faults, and exactly once while there were none. It cannot
  be stronger: a worker that dies between `MarkFailure` and the publish leaves a
  failed row that is never dead-lettered, and a duplicate delivers it twice.

Bounds: the hazards are about two holders of one job, and about one message that
hides another in a partition. Two jobs in one partition with two processes and one
retry reach both with a single fault. Pairs of faults (a crash plus a rebalance, a
duplicate plus a lost commit) are in `JP_every_fault`. Section 5 says of each
property of `JP_delivery` which kinds of fault it is proved under for any number of
them, jobs, workers, attempts and delay topics. Two attempts use the first delay topic only,
so the safety runs have `NumTiers = 1`; `JP_live` uses the default of three attempts and both
topics. The safety runs use the symmetry of processes, and `JP_delivery` that of its two
jobs with their requests as well (they are in one partition); the fair run uses none.

Fairness (`FairSpec`): weak fairness of the publish of a request being handled, of
every goroutine, of the assignment of partitions, of time, the reclaimer's ticker
and the exit of a draining process. The Go scheduler, the HTTP server and the
consumer group's coordinator give these. None is assumed of faults, of new
requests, of a shutdown or of a restart: `docker-compose.yml` has no restart policy.

### The verifier and the measurements

| run | instance | shows |
| --- | --- | --- |
| `VF_report` | 4 originals: ordered, unordered, on MySQL, one that writes; 10 other texts (respelled, equal, reordered, with other counts of rows, with NULLs elsewhere, writes, junk); measurements of 3 runs; 3 index suggestions and a budget of 2; one write of another client; a deadline (749,000) | `TypeOK`, `AcceptedMatchesOriginal`, `EquivalentNotRefused`, `NothingJudgedTwice`, `EveryRewriteJudged`, `OnlyReadsExecuted`, `AcceptedBeatsEveryRun`, `BestIsFastest`, `IndexNeverSurvives`, `ExperimentsAccounted`, `NothingIsWritten`, `ScoreAddsUp` |
| `ME_runs` | both engines and an experiment; the default of 3 runs, 1 and 4; one warm-up; 4 durations, one far off; every error at every call (7,400) | `MedianIsMiddle`, `OneRunCannotMoveTheMedian`, `CompleteOrNothing` |

`AcceptedMatchesOriginal` and `EquivalentNotRefused` say that there are executions
with equal, and with different, results: two rows with the same values in different
columns, one of which a write removes, tell row order, multiplicity, NULLs and
version apart. What is compared is the original on the version of the data its baseline was
taken on and the rewrite on the one it ran on, so both say what a verdict means when
another client writes in between; that the two were then equal on one version is
`MatchProvesSameRows`, which does not hold (below). `BestIsFastest` says what the loop over
the verdicts comes to: the first of the accepted ones that gain most, whatever faster
rewrites were refused around it. `AcceptedBeatsEveryRun` is a consequence
the code does not state: because the gain must exceed the spread of the original, the median of an accepted rewrite lies
below the original's fastest run. Measurements of 3 runs out of {2, 9} and {2, 3} contain
equal medians, gains on the threshold and gains within the noise.

`NothingIsWritten` is about the one transaction that is not READ ONLY: what keeps a
statement that writes out of it is that its first, read-only measurement must have
succeeded. `ScoreAddsUp` composes the report with the benchmark: two queries, a control and
an ordinary one, each ending the way the run ended.

### The rest

| run | instance | shows |
| --- | --- | --- |
| `IN_catalog` | both engines, 12 catalogues (indexes that come and go, a relation made anew, a view, another schema, a system one, a quoted name), up to 3 of them during the call (46,000) | `StableFactsAreRead`, `QuietSchemaIsExact` |
| `RU_analysis` | 2 relations with shared columns and one the schema lacks, 14 sides, all statements of up to 2 comparisons out of 90, LIKE, IN, NOT and literals with a time of day; both dialects, AND and OR; 2 plans; 3 days of 2 instants (840,000) | `SuggestionsAreReal`, `SuggestedOnce`, `EveryColumnAnswered`, `FunctionsReported`, `RewriteSelectsSameRows` |
| `SQ_shape` | both dialects, 4 originals, one of them a WITH on a UNION, 4 edits (501,000) | `GateKeepsTables`, `RestructuringPasses`, `CollectedExist` |
| `LLM_retry` | the constants of `gemini.go`, 5 latencies (1,200) | `ReturnsInTime`, `CancelStopsAsking` |

`StableFactsAreRead` is the most that three snapshots can promise: what was so during
the whole call. Two changes let a relation be dropped and made anew, or an index come
and go, between any two of the queries. `QuietSchemaIsExact` excludes only names that
two relations share, and both except PostgreSQL's own schemas, whose columns are not read. Two
comparisons are enough for `Rules`, whose predicates meet only in pairs: in the key of `addPredicate` and in the map of proposed columns. The
relations have exactly the 1000 and 50000 rows the thresholds name, and the estimates are
just past the factor of ten and exactly on it. `RewriteSelectsSameRows` is checked for every row of instants and NULL.
`ReturnsInTime` makes precise what the 90 second budget bounds: the start of the
last wait, so a call may take the budget, one wait and one request. In `SQ_shape`
the candidate may not give a WITH the name of a relation and may nest WITHs only in
MySQL; and `RestructuringPasses` excepts in its statement a WITH on a UNION of MySQL, as
original or as candidate. What happens otherwise is in the list of divergences below.

### Disagreements found

Three runs each check one statement of the documentation or of a comment and find a
behaviour of the code that contradicts it. `PROJECT.json` quotes the lines.

| run | statement | what happens |
| --- | --- | --- |
| `JP_unqueued` | 503: "it will be retried" | a queued row without message stays queued for ever |
| `JP_reclaimed` | the reclaimer "rescues jobs whose worker died mid-run" | it sets the row to retrying and publishes nothing; the redelivered message was skipped and committed long before |
| `JP_shutdown` | "finishing in-flight jobs" | their context is cancelled; the row is left running |

The models show more of the kind. Where the statement is written down in a module,
its name is given with the constants under which TLC finds it violated; to see
one, put it into a copy of the configuration named.

| statement | where | what happens |
| --- | --- | --- |
| `RetryIsDelivered`: "Retries go to delay topics" (fair) | `JP_unqueued` with `MaxDeliveryAttempt = 4`, no faults | the third failure finds no delay topic, and the row is retrying for ever |
| `CommittedRetryWasForwarded`: at-least-once retries | `JP_delivery` with `Faults = {"forward"}` | a forwarder that could not publish goes on, and the next commit covers the lost message |
| `AcceptedIsRun`: effectively-once (fair) | `JP_unqueued` with `Faults = {"claim"}` | a database error in `ClaimJob` loses the job |
| `MatchProvesSameRows`: a match proves identical rows for the data present when they ran (ARCHITECTURE.md:266) | `VF_report` | original and rewrite ran on different data |
| `MeasurementsAreReadOnly`: every measurement is READ ONLY | `VF_report` | index experiments measure in a read-write transaction |
| `GateKeepsTables`: no table the original never touched | `SQ_shape` with a WITH named like a table | WITH u AS (SELECT ... FROM u) hides u |
| `CollectedExist`: a reference to a CTE is not a table | `SQ_shape` with nested WITHs in PostgreSQL | that of a subquery's WITH is |
| `StarLeftToComparison`: the comparison of results carries SELECT * | `SQ_shape` | it counts as one column and the gate refuses |
| `DroppedIsWeighed`: a dropped table is left to the verifier to weigh | `SQ_shape` | the gate refuses |
| `OrderIsOfTheStatement`: the outermost ORDER BY | `SQ_shape` | in MySQL that of the first branch of a UNION, or of the SELECT in its WITH |
| `ColumnsAreOfTheStatement`: only the outermost select contributes the output columns (mysql.go:125) | `SQ_shape` | of a WITH on a UNION in MySQL the visitor enters the SELECT in the WITH first (mysql.go:155): a rewrite that only moves a relation into such a WITH is refused, and one with other columns is left to the comparison of results |
| `TimedOutIsTheStatement`: "exceeded the statement timeout" (verify.go:213) | `ME_runs` | on MySQL the job's own deadline is reported as a timeout of the candidate, on PostgreSQL a cancellation by recovery is |
| `EveryRunIsReadOnly`: ANALYZE runs in a READ ONLY transaction (postgres.go:245) | `ME_runs` | not in an experiment |
| `EachTableIsOneRelation`: names are of relations (postgres.go:105) | `IN_catalog` | the columns of relations of one name in two schemas are merged |
| `QuietSchemaIsExact` | `IN_catalog` with `Catalogs <- WithNullsLast` | DESC NULLS LAST is stripped in the wrong order, the column keeps a suffix, and its index is not recognised (postgres.go:207) |
| `QuietSchemaIsExact` | `IN_catalog` with `Catalogs <- WithMixed` | the parts of a MySQL index that are expressions are left out, and an index on an expression and then a column appears to lead with the column |
| `SuggestionsAreReal`: no guessing between tables | `RU_analysis` with a side that is an output column of a subquery | it is attributed to a table |
| `RewritesAreSafe`: the date rewrite is produced "safely" (rules.go:180) | `RU_analysis` | no parentheses, so NOT takes half of the range; and a literal with a time of day, which DATE() compares as its day, becomes the 24 hours from that time; the checksum gate then has to catch it |
| `DeclinesAreExplained`: "explains when it declines to" (rules.go:337) | `RU_analysis` with a relation below 1000 rows | silent for small tables |
| `CastsReported`: columns in a function or a cast (rules.go:151) | `RU_analysis` | a cast is not part of the key, and the second predicate with it is lost |
| `JoinsAreNotDeclined`: a column of few values is declined unless joined on (rules.go:365) | `RU_analysis` | the key does not hold the kind of predicate: a filter met first stands for the join |
| `OnlyNotInReported`: NOT IN is the trap (rules.go:328) | `RU_analysis` | a plain IN is reported too |
| `GapsAreStated`: Limitations names what could not run (rules.go:77) | `RU_analysis` | on MySQL missing indexes are not among them |

Without a statement of their own:

* An index recommendation has no noise guard (`MeasureIndex` compares with the threshold
  only), although docs/RESULTS.md:133 describes the acceptance gate as exceeding the spread.
* `MeasureIndex` refuses MySQL with an error of its own and never reaches the engine's
  `ErrNoHypotheticalIndexes`, so the branch that reports an index "NOT measured"
  (optimizer.go:237-249) is never taken; and on MySQL the rules suggest no index at all.
* `MedianSpeedup` of the benchmark (main.go:293) is the upper of the middle two when their
  number is even, not the median docs/RESULTS.md:49 names.
* The cache is documented to hold schemas and reports (cache.go:1) and holds nothing.

## 5. Proofs

The theorems hold for every value of the constants that satisfies the named
assumptions of the modules, which TLC evaluates on every run; no further assumption
is made except where stated.

* `JobPipelineProofs`: `TypeCorrect` (`TypeOK`) and `AttemptsCorrect`
  (`AttemptsAccounted`), under every choice of faults. The inductive invariant `IInv`
  adds `HandsOK` to the two: what a goroutine holds agrees with where it is. Without it
  a step could use a partition or a tier the types do not give. The argument is one
  lemma per kind of update (rows, logs, hands, group), then one per action. On top of it,
  still under every choice of faults: `MessagesHaveRows` (`MessageHasRow`), because a row
  never loses its status and a message names a job its publisher had a row for; and
  `HistoryIsPaid` (`HistoryBounded`), where the invariant is that the runs recorded and
  the hands that may still record one are together no more than the attempts charged.
  Under `NoStalls` ("stall" is not among the faults): `ExclusiveRunCorrect`,
  `ReportsCorrect`, `FinishedFinal` and `PipelineImplementsLifecycle`. `EInv` adds
  `HeldIsFresh` (the row of a held job is younger than its lease) to exclusion and
  reports: without it the reclaimer could take a row from under its worker. The
  refinement maps every step to a step of `JobLifecycle` or a stutter; `ReclaimStale`,
  which updates many rows at once, maps to `GiveUp` of a set.

  What at-least-once delivery comes to, each theorem for any number of the faults
  it does not exclude:

  | theorem | states | excludes |
  | --- | --- | --- |
  | `RetriesForwarded` | `CommittedRetryWasForwarded` | forward |
  | `QueuedUncommitted` | `QueuedIsUncommitted`: a queued row's message is about to be published, or uncommitted | create, publishJob, apiCrash, claim, shutdown |
  | `WaitingCarried` | `WaitingIsCarried` | those, and mark, publishRetry, forward; crash, unless it is alone (`CrashIsAlone`); `AttemptLimit <= NumTiers + 1` |
  | `NothingLeftBehind` | every row that is neither new nor finished has its worker or a message on its way, and at rest every accepted job is finished | those of `WaitingCarried`, and every crash, complete |
  | `HistoryCorrect` | `SucceededHasHistory` | record, shutdown |
  | `DeadLettersCorrect` | `DeadLetteredOnce` | stall, mark, publishRetry, shutdown; `AttemptLimit <= NumTiers + 1` |

  No theorem excludes more than it must: with any one of the excluded faults TLC has a
  counterexample, for stall in the last row together with a rebalance. A crash does not
  strand a retry when it is the only fault, or when there is one process and no rebalance,
  which is `CrashIsAlone` and covers `JP_delivery`. Beyond that TLC has counterexamples:
  with a rebalance and a crash, and with two crashes of two processes, where
  the first makes the group share the partitions out in mid-run. `AttemptLimit <=
  NumTiers + 1` says that every retry has a delay topic, as the default of three
  attempts does. The argument has two parts. First, where messages are: `InPlace`
  (offsets point into the logs, the messages of a job are in its partition, a hand holds
  the message at its offset). Second, what an offset says: `Settled` are the offsets
  committed *or that a commit may still write*, by the owner or by a goroutine that lost
  its partition meanwhile; the committed offset alone is not inductive, since a late
  commit moves it. A message no settled offset has passed (`Unsettled`) stays so until
  a goroutine claims or forwards it, and then it is in a hand. `QInv` and `RInv` follow it
  from topic to topic. `InStep` says that before the first fault no goroutine has lost the
  partition of its message, so that the message of a worker that dies is fetched again;
  a restart takes partitions away too, but a process that is down was killed (`NoDraining`),
  and that was the first fault.
  `OwedAreHeld` adds the rows that are not
  waiting: where no worker dies, a running row has the worker that claimed it, and so has one
  the reclaimer released under a slow worker; when no worker is busy and no message is left,
  no row can be running or waiting. `FInv` counts: the copies of a job in the delay topics up to any
  settled offsets are fewer than its deliveries on the main topic, the first of which
  was no retry. `HInv` adds that a worker about to complete has recorded; `DInv` is
  `OneLetter` (one worker at most is about to dead-letter a job), `LettersCounted` and
  `FaultFree` (before the first fault every running or failed job has its worker).
* `VerificationProofs`: `TypeCorrect` (`TypeOK`), `JudgedOnce` (`NothingJudgedTwice`),
  `GatesBeforeExecution` (`OnlyReadsExecuted`), `AcceptedIsFaster` (`AcceptedBeatsEveryRun`), `IndexRolledBack`
  (`IndexNeverSurvives`), for any texts, measurements, writers and deadlines. `IInv` is
  `Shape` (types, and what is filled in when), `InHand` (the candidate being verified is
  new and passed the gates), `Distinct` (judged texts are remembered), `Earned` and
  `Contained`. `FasterBeatsEveryRun` is the arithmetic: gain > spread >= median - min.
  `WritersAreStopped` (`NothingIsWritten`) adds that past the baseline the query does not
  write; `ExperimentsReported` (`ExperimentsAccounted`) adds which suggestion each entry
  of the report is about, and takes from `SelectionProofs` that the last sort keeps
  the entries. `RewritesGetVerdicts` (`EveryRewriteJudged`): past `Propose` the text of a
  rewrite is waiting, in hand or decided (`Underway`). `BestGainsMost` (`BestIsFastest`):
  that the loop, after any number of turns, holds the first of the largest accepted gains so
  far; the recursive function is what its equation says, and a smallest turn at which the
  claim failed would contradict the turn before. `AcceptedIsEquivalent`
  (`AcceptedMatchesOriginal`) and `RefusedDiffers` (`EquivalentNotRefused`): results hash
  alike exactly if they have the same rows (`HashTells`), since the sentinel keeps `Code`
  one to one and sequences are of one bag exactly if their places match one to one;
  `Compared` keeps which checksums, of which versions of the data, each verdict compared.
  `RecommendedFirst`, for a threshold above zero: the report lists no index that is
  recommended after one that is not. With a threshold of zero a failed experiment, whose gain
  is 0, may precede an index recommended for a gain of 0.
  `ScoreCorrect` (`ScoreAddsUp`) is about the benchmark's totals over the lines taken down of any
  report: each run and each candidate of a run that did not fail is counted once. The
  totals are folds over finite sets: their function is the only one that satisfies its recursion equation (two that do would differ at a
  smallest set, `SumsAreUnique`), and the cardinalities of the parts of a finite set satisfy it.
* `SelectionProofs`: `SortedRearranges` and `SortedInOrder`. The place of an element in a linear
  order is one more than the number of those before it; that places are different and within the
  length makes the map of places onto, and that fewer come before the earlier of two puts it
  first.
* `MeasuringProofs`: `MeasuredCompletely` (`CompleteOrNothing`), `MedianInTheMiddle`
  (`MedianIsMiddle`) and `MeasurementsAreProper`, for any number of runs and durations. The
  invariant says how many durations there are at each place of the loop; that a k-th
  smallest exists for every k up to the length is proved first, as the least
  duration that at least k runs do not exceed. `MedianIsRobust`
  (`OneRunCannotMoveTheMedian`): half of three or more runs is two at least, so another
  run than the stray one is on each side of the median.
* `RulesProofs`: `OneSuggestionPerColumn` (`SuggestedOnce`), `EveryFunctionReported`
  (`FunctionsReported`), `EveryColumnGetsAnAnswer` (`EveryColumnAnswered`), for any schema,
  statement and plan. The invariant says what each loop owes to the elements it has
  passed: a predicate for each side (one with the same key stands for it), a finding
  for each predicate with a function, an answer for each one worth looking at; later
  checks only append, and the sort only rearranges. `MostSevereFirst`: what `Analyze` hands on, and
  the prompt and the experiments with their budget take in that order, has no finding before a
  more severe one.
  `SuggestionsReal` (`SuggestionsAreReal`), under `NamesAreOfTheList`: a qualifier
  stands for one relation of the statement's table list or for no table, and an
  unqualified column is of a relation of the list if any there has it. TLC shows the property
  false without it: an output column of a subquery is attributed to a table. `SInv` traces every predicate and every suggested
  column to a comparison of the statement.
  `DateRewriteIsRight` (`RewriteSelectsSameRows`), for any schema, any length of a day and
  any other comparisons. `RangeIsComparison`: for a literal at midnight and with no NOT
  before it, the half-open range has the truth of the comparison, NULL included (by
  division: v is on the day of t exactly if it is less than a day past its midnight).
  `DInv` adds that a finding only ever replaces a `DATE(col) = 'literal'` of the statement.
* `IntrospectionProofs`: `StableFactsRead` (`StableFactsAreRead`) and `QuietSchemaExact`
  (`QuietSchemaIsExact`), for any catalogues and any number of changes during the call.
  Both except, in their statements, the relations of PostgreSQL's own schemas, and assume
  `Readable`: the leading part of an index is printed alone or with one
  suffix, which is what `indexColumns` undoes; with "DESC NULLS LAST" TLC finds both
  false. The second also assumes `KeptReadably`, that a MySQL index that leads with an
  expression has no part that is a column (false without it, as the list above says).
  `Read` says of each relation that was there so far that, once listed, it is in the map
  with the columns and the leading parts it had all along; `ExactSoFar`, that while nothing
  changed each query has found, table by table, what the catalogue has. That as many
  indexes are read as there are needs that their names are distinct within a relation.
* `SqlShapeProofs`: `TablesAreKept` (`GateKeepsTables`), `CollectedAreReal`
  (`CollectedExist`) and `RestructuringIsPassed` (`RestructuringPasses`), for any names,
  originals and number of edits. The inductive part is `InScope`: in every statement the
  edits reach, a name is of a relation or of a WITH in whose scope it stands. From it the
  key lemma: among the names of relations, those the parser collects are those the database
  reads. The hypotheses: `OriginalsAreValid` (the originals are statements a database
  accepts), `SeparateNames` (no WITH bears the name of a relation) for the first and third,
  `NothingNested` (no WITH inside a subquery in PostgreSQL) for the second and third.
  TLC finds each property false where one it needs is dropped, as the list above says. The
  third says nothing of a WITH on a UNION for MySQL, which its statement excepts.
* `ModelClientProofs`: `InTime` (`ReturnsInTime`) and `StopsAsking`
  (`CancelStopsAsking`), with `Pace`: a wait begins within the budget, a request at most
  one wait later.

Only model-checked: `AcceptedFinishes`, since fairness and ENABLED are outside what the
prover does. That nothing is left behind when the system rests is `NothingLeftBehind`; that it
comes to rest is for TLC to say. The three runs that expect a violation have a behaviour
each, and nothing to prove. The theorems with no property of a run (`QueuedUncommitted`,
`NothingLeftBehind`, `RecommendedFirst`, `MostSevereFirst`, and the lemmas on
measurements and sorts) state their formula in the proof module.

## 6. Not modelled, and why

* Configuration and start-up: no behaviour beyond reading variables and pinging. The
  cache: the worker opens and pings it, and nothing is read or written through it.
* Read-only HTTP handlers, decoding and wording of answers and reports, the prompt,
  logging: no state depends on them.
* `ExtractJSON` and the decoding of the model's answer: an answer that does not decode is
  the failing branch of `Propose`, which texts decode is a question about characters.
* The SQL grammars (libraries), the reflection of `walk.go`, the decoding of plans.
* Values that contain the separators of the row encoding (0x1f) or equal its
  sentinel: excluded by `RowsAssumption`, as the code's comments do. The cap of 1000
  warnings and the truncation of GROUP_CONCAT; whether MySQL keeps the order of a
  derived table for ROW_NUMBER(); an output column named `t`: matters of the server.
* Statements that write in some executions and not in others: `Writers` write always.
* What two jobs of one process do to each other on the target, beyond noise.
* Speed-ups and the seconds saved of the benchmark: sums of floating-point numbers.

## 7. Plan

Written so far, in this order: `JobPipeline` with its abstract lifecycle and proofs
(the system's most important behaviour), `Verification`, then the parts it calls:
`SqlShape`, `ModelClient`, `Rules`, `Measuring`, `Introspection`, and `BenchScore` on top of it.
Next:

1. `SqlShape` with aliases, schemas and `dedupeTables`, and the refusal of writes
   (`rejectDataModifyingCTEs`, `mysqlGuard`), which is `Kind` now.
2. Two jobs on one target with the locks of their experiments.
3. Proofs: that what `Introspection` reads is a schema as `Rules` takes it; and `DeadLetteredOnce`
   with a stall and neither rebalance nor crash.
