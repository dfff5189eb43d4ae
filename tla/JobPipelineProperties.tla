------------------------- MODULE JobPipelineProperties -------------------------
(***************************************************************************)
(* What is expected of the job pipeline: first what the code guarantees,   *)
(* with the faults under which it does, then what its comments and          *)
(* documents say and the code does not do.                                 *)
(***************************************************************************)
EXTENDS JobPipeline

PCs == {"idle", "claim", "record", "run", "complete", "mark", "retry", "dlq",
        "forward", "commit"}

Answers == {"new", "publish", "202", "200", "500", "503", "gone"}

RowType ==
    [status : Statuses, attempts : 0..AttemptLimit, lastError : {"none", "run", "lease"},
     report : {"none", "stored"}, age : 0..MaxAge]

ActorType ==
    [pc : PCs, job : Jobs \cup {NoJob}, part : 0..NumPartitions, off : Nat,
     att : 0..AttemptLimit]

\* Every variable stays in its type; in particular a row's attempts never pass
\* max_attempts, although ClaimJob increments them without comparing.
TypeOK ==
    /\ row \in [Jobs -> RowType]
    /\ runs \in [Jobs -> Nat]
    /\ req \in [Requests -> Answers]
    /\ log \in [Topics -> [Partitions -> Seq(Jobs \cup {NoJob})]]
    /\ committed \in [Topics -> [Partitions -> Nat]]
    /\ pos \in [Topics -> [Partitions -> Nat]]
    /\ owner \in [Topics -> [Partitions -> Actors \cup {NoOne}]]
    /\ dlq \in [Jobs -> Nat]
    /\ actor \in [Actors -> ActorType]
    /\ proc \in [Procs -> {"up", "draining", "down"}]
    /\ faults \in Nat

\* A row that can be claimed has an attempt left, and a row fails only when all
\* its attempts are used.  ClaimJob, MarkFailure and ReclaimStale each hold their
\* part of it, and CompleteJob and MarkFailure run without looking at the status;
\* it survives every fault, stalls included.
AttemptsAccounted ==
    \A j \in Jobs :
        /\ CanClaim(row[j]) => row[j].attempts < AttemptLimit
        /\ row[j].status = "failed" => row[j].attempts = AttemptLimit

\* Nothing on any topic, and nothing in a worker's hands, names a job without a
\* row: handle's "message references an unknown job" never happens, because
\* createOptimization publishes only after CreateJob returned a row.
MessageHasRow ==
    /\ \A t \in Topics, k \in Partitions : \A i \in 1..Len(log[t][k]) :
          log[t][k][i] # NoJob => row[log[t][k][i]].status # "none"
    /\ \A a \in Actors : actor[a].job # NoJob => row[actor[a].job].status # "none"
    /\ \A r \in Requests : req[r] \in {"publish", "202", "200"} => row[KeyOf[r]].status # "none"

\* A job adds at most one baseline measurement to the history per attempt it was
\* charged for, whatever is redelivered (recordRuns has no guard of its own).
HistoryBounded == \A j \in Jobs : runs[j] <= row[j].attempts

\* At most one worker holds a job, and the row says so: it is running and on that
\* worker's attempt.  This is what ClaimJob's WHERE clause, the redelivery of
\* messages and the 2*JobTimeout lease are jointly there for.  Without stalls.
ExclusiveRun ==
    \A a \in Consumers : \A j \in Jobs : Holds(a, j) =>
        /\ row[j].status = "running"
        /\ row[j].attempts = actor[a].att
        /\ \A b \in Consumers : Holds(b, j) => b = a

\* A finished row never changes status again, although no UPDATE but ClaimJob
\* and ReclaimStale tests the status.  Without stalls.
FinishedIsFinal ==
    [][\A j \in Jobs : row[j].status \in Finished => row'[j].status = row[j].status]_vars

\* A row has a report exactly when it succeeded (the API serves the report column
\* next to the status).  Without stalls.
ReportIffSucceeded == \A j \in Jobs : row[j].report = "stored" <=> row[j].status = "succeeded"

\* A succeeded job left at least one baseline in the history, if no insert failed.
SucceededHasHistory == \A j \in Jobs : row[j].status = "succeeded" => runs[j] > 0

\* The pipeline implements the lifecycle of a row.  Without stalls.
Lifecycle ==
    INSTANCE JobLifecycle WITH
        status <- [j \in Jobs |-> row[j].status],
        attempts <- [j \in Jobs |-> row[j].attempts]
RefinesLifecycle == Lifecycle!Spec

\* A request that has created j's row is about to publish its message.
Asked(j) == \E r \in Requests : KeyOf[r] = j /\ req[r] = "publish"

\* j's message is on its way: about to be published, still to be fetched, or in
\* the hands of a goroutine that has yet to claim or to republish it.
Carried(j) ==
    \/ Asked(j)
    \/ \E t \in Topics, k \in Partitions : \E i \in 1..Len(log[t][k]) :
          i > pos[t][k] /\ log[t][k][i] = j
    \/ \E a \in Actors : actor[a].job = j /\ actor[a].pc \in {"claim", "retry", "forward"}

\* A row nobody has claimed yet has a message about to be published or beyond the
\* committed offset, where the next owner of the partition starts: handle claims before
\* consumeMain commits.  Any number of worker crashes and rebalances included.
QueuedIsUncommitted ==
    \A j \in Jobs : row[j].status = "queued" =>
        \/ Asked(j)
        \/ \E i \in 1..Len(log[Main][PartOf[j]]) :
              i > committed[Main][PartOf[j]] /\ log[Main][PartOf[j]][i] = j

\* A row waiting for a worker has a message on its way, unless the reclaimer put
\* it there; a row not yet claimed has one that a crash does not lose.  A retry is
\* less safe: it takes two faults to lose one (a worker whose partition went to
\* another in mid-run, which then dies between MarkFailure and the publish).
WaitingIsCarried ==
    /\ \A j \in Jobs : CanClaim(row[j]) /\ row[j].lastError # "lease" => Carried(j)
    /\ QueuedIsUncommitted

\* A delay-topic message whose offset is committed was put back on the main topic,
\* which therefore holds more messages of its job, the first delivery included
\* (consumeRetry; ARCHITECTURE.md:254, "Kafka is at-least-once").  Crashes, rebalances
\* and duplicates included; not after a forwarder's publish failed, for the commit of
\* a later message then covers the one passed over.
Copies(t, j, n) == {i \in 1..n : log[t][PartOf[j]][i] = j}
CommittedRetryWasForwarded ==
    \A j \in Jobs :
        LET retries == UNION {{t} \X Copies(t, j, committed[t][PartOf[j]]) : t \in Tiers}
            deliveries == Copies(Main, j, Len(log[Main][PartOf[j]]))
        IN retries # {} => Cardinality(retries) < Cardinality(deliveries)

\* Only a failed job is dead-lettered, once but for faults (a producer may leave
\* two copies); and each failed job is, until a fault happens: a worker that dies
\* between MarkFailure and the publish leaves a failed row whose redelivered message
\* is skipped.
DeadLetteredOnce ==
    \A j \in Jobs :
        /\ dlq[j] <= 1 + faults
        /\ dlq[j] > 0 => row[j].status = "failed"
        /\ faults = 0 /\ row[j].status = "failed" /\ dlq[j] = 0 =>
              \E a \in Consumers : actor[a].job = j /\ actor[a].pc = "dlq"

\* Every request answered 202 or 200 is eventually followed by a finished job,
\* past rebalances, duplicates and messages that do not decode (queue.go, Fetch).
AcceptedFinishes ==
    \A r \in Requests :
        req[r] \in {"200", "202"} ~> row[KeyOf[r]].status \in Finished

--------------------------------------------------------------------------------
(* Said of the program, and not so. *)

\* server.go:124 answers 503 with "it will be retried".
UnqueuedIsRetried ==
    \A r \in Requests : req[r] = "503" ~> row[KeyOf[r]].status # "queued"

\* ARCHITECTURE.md:256: "a reclaimer rescues jobs whose worker died mid-run".
ReclaimedRunsAgain ==
    \A j \in Jobs :
        row[j].status = "retrying" /\ row[j].lastError = "lease" ~>
            row[j].status \in {"running"} \cup Finished

\* ARCHITECTURE.md:254-255: "Retries go to delay topics": a job set to retry is
\* run again.
RetryIsDelivered ==
    \A j \in Jobs : row[j].status = "retrying" ~> row[j].status # "retrying"

\* schema.sql:5-6: the pipeline is effectively-once: an accepted job is run.
AcceptedIsRun ==
    \A r \in Requests : req[r] = "202" ~> row[KeyOf[r]].attempts > 0

\* main.go:122 logs "finishing in-flight jobs" at shutdown: no draining worker
\* lets go of a job that is still running.
ShutdownFinishesJobs ==
    [][\A a \in Consumers, j \in Jobs :
          proc[ProcOf(a)] = "draining" /\ Holds(a, j) /\ ~ (Holds(a, j))'
             => row'[j].status # "running"]_vars
================================================================================
