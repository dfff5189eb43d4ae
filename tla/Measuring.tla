-------------------------------- MODULE Measuring --------------------------------
(***************************************************************************)
(* One measurement of one statement, run by run                             *)
(* (internal/engine/postgres.go, Measure and MeasureInTx; mysql.go, Measure, *)
(* timeOnce and readOnly).  Each timed run is a transaction of its own,     *)
(* except within an index experiment, which brings its transaction along.   *)
(* Any call may fail, and the job's own deadline may pass between two.      *)
(***************************************************************************)
EXTENDS Timing

CONSTANTS
    Engines,        \* among "postgres", "mysql", "experiment" (in a transaction)
    Asked,          \* the numbers of runs asked for, 0 or less for the default
    DefaultRuns,    \* MEASURE_RUNS
    WarmupRuns,
    Durations       \* what a run may take

ASSUME MeasuringAssumption ==
    /\ Engines \subseteq {"postgres", "mysql", "experiment"}
    /\ Asked \subseteq Int /\ DefaultRuns \in Nat /\ WarmupRuns \in Nat
    /\ Durations \subseteq Nat
ASSUME DefaultAssumption == DefaultRuns >= 3   \* config.go refuses fewer

VARIABLES
    engine, asked,
    expired,        \* whether the job's context is done
    pc,             \* the call under way
    tx,             \* the transaction the next statement runs in
    executed,       \* runs that succeeded, warm-ups included
    durations,      \* of the timed ones
    result          \* what Measure returns

vars == <<engine, asked, expired, pc, tx, executed, durations, result>>
call == <<engine, asked>>

NoMeasurement == [median |-> 0, min |-> 0, max |-> 0]
Result(kind, m, cause) == [kind |-> kind, m |-> m, cause |-> cause]
NoResult == Result("none", NoMeasurement, "none")

Runs == IF asked <= 0 THEN DefaultRuns ELSE asked
Total == Runs + WarmupRuns

InExperiment == engine = "experiment"
Between == IF InExperiment THEN "execute" ELSE "begin"
Outside == IF InExperiment THEN "experiment" ELSE "none"

Init ==
    /\ engine \in Engines /\ asked \in Asked
    /\ expired = FALSE
    /\ pc = IF engine = "mysql" THEN "explain" ELSE Between
    /\ tx = Outside
    /\ executed = 0 /\ durations = <<>>
    /\ result = NoResult

\* JobTimeout is over.
Expire ==
    /\ ~expired /\ expired' = TRUE
    /\ UNCHANGED <<call, pc, tx, executed, durations, result>>

--------------------------------------------------------------------------------
(* Errors, and which of them are taken for a timeout of the statement. *)

\* A context that is done ends MySQL's calls with its own error; its readOnly has a
\* deadline of its own besides the job's.
Errors ==
    {"statement_timeout", "other"}
        \cup (IF engine = "mysql" THEN {"killed", "deadline"} ELSE {"recovery_conflict"})
        \cup (IF expired THEN {"deadline"} ELSE {})

\* isTimeout looks for "canceling statement due to", isMySQLTimeout for the
\* context's error and for "query execution was interrupted" too.
TimeoutErrors ==
    IF engine = "mysql" THEN {"statement_timeout", "killed", "deadline"}
    ELSE {"statement_timeout", "recovery_conflict"}

Return(r) == result' = r /\ pc' = "returned" /\ tx' = Outside

FailedKeepingRuns(cause) ==   \* slip: what was timed so far is summed up all the same
    IF cause \in TimeoutErrors /\ durations # <<>>
    THEN Result("measured", Summary(durations), cause)
    ELSE Result("error", NoMeasurement, cause)
Failed(cause) ==
    Result(IF cause \in TimeoutErrors THEN "timed_out" ELSE "error", NoMeasurement, cause)

--------------------------------------------------------------------------------

\* MySQL has no plan in its timings, and asks for one first.
Explain ==
    /\ pc = "explain"
    /\ \/ ~expired /\ pc' = "begin" /\ UNCHANGED <<tx, result>>
       \/ \E cause \in Errors : Return(Result("error", NoMeasurement, cause))
    /\ UNCHANGED <<call, expired, executed, durations>>

\* readOnly: a connection, BEGIN READ ONLY and the statement timeout.
Begin ==
    /\ pc = "begin" /\ executed < Total
    /\ \/ ~expired /\ tx' = "readonly" /\ pc' = "execute" /\ UNCHANGED result
       \/ \E cause \in Errors : Return(Failed(cause))
    /\ UNCHANGED <<call, expired, executed, durations>>

Timed(d) == IF executed < WarmupRuns THEN durations ELSE Append(durations, d)

\* EXPLAIN ANALYZE, or the query with its rows drained; then the deferred rollback.
Execute ==
    /\ pc = "execute" /\ executed < Total
    /\ \/ /\ ~expired
          /\ \E d \in Durations : durations' = Timed(d)
          /\ executed' = executed + 1
          /\ tx' = Outside /\ pc' = Between
          /\ UNCHANGED result
       \/ \E cause \in Errors : Return(Failed(cause)) /\ UNCHANGED <<executed, durations>>
    /\ UNCHANGED <<call, expired>>

SummedUp ==
    /\ pc = Between /\ executed = Total
    /\ Return(Result("measured", Summary(durations), "none"))
    /\ UNCHANGED <<call, expired, executed, durations>>

Next == Expire \/ Explain \/ Begin \/ Execute \/ SummedUp

Spec == Init /\ [][Next]_vars

--------------------------------------------------------------------------------

IsMeasured == result.kind = "measured"

\* Half of the timed runs are at or below the median and half at or above it, for
\* odd and even numbers of runs (postgres.go, median).
MedianIsMiddle ==
    IsMeasured =>
        /\ 2 * Cardinality({i \in DOMAIN durations : 2 * durations[i] <= result.m.median}) >= Runs
        /\ 2 * Cardinality({i \in DOMAIN durations : 2 * durations[i] >= result.m.median}) >= Runs

\* Had one of three or more runs come out differently, however far off, the median
\* would still lie among the other runs (engine.go:101, "one cold run ... moves a
\* mean of five runs far more than it moves their median").
OneRunCannotMoveTheMedian ==
    IsMeasured /\ Runs >= 3 => \A i \in DOMAIN durations, d \in Durations :
        LET median == Median([durations EXCEPT ![i] = d]) IN
        \E j, k \in DOMAIN durations \ {i} :
            2 * durations[j] <= median /\ median <= 2 * durations[k]

\* A measurement stands for as many timed runs as were asked for, after the warm-up,
\* all of them finished; a call that failed on the way says nothing of the runs
\* before (verify.go compares medians and spreads as if they were of equal numbers).
CompleteOrNothing ==
    IF IsMeasured THEN executed = Total /\ Len(durations) = Runs
    ELSE result.m = NoMeasurement

--------------------------------------------------------------------------------
(* Said of the program, and not so. *)

\* verify.go:213: "the candidate exceeded the statement timeout".
TimedOutIsTheStatement == result.kind = "timed_out" => result.cause = "statement_timeout"

\* postgres.go:245: "the whole thing runs inside a READ ONLY transaction".
EveryRunIsReadOnly == pc = "execute" => tx = "readonly"
================================================================================
