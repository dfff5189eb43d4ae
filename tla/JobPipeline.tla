------------------------------ MODULE JobPipeline ------------------------------
(***************************************************************************)
(* The life of an optimisation job, from POST /v1/optimizations to the row  *)
(* that holds its report:                                                  *)
(*                                                                         *)
(*   internal/api/server.go    createOptimization: insert the row, publish *)
(*   internal/store/store.go   the rows and every UPDATE made to them      *)
(*   internal/queue/queue.go   main topic, delay ("retry") topics, DLQ     *)
(*   cmd/worker/main.go        consumers, retry forwarders, reclaimer      *)
(*                                                                         *)
(* Each external call (a statement on the metadata database, a publish, an *)
(* offset commit) is one step, so that steps of different goroutines and   *)
(* processes interleave between any two calls.  A call that fails may or   *)
(* may not have had its effect.  A message is the id of its job: no        *)
(* consumer reads its Attempt, SQL, LastError or EnqueuedAt fields, and     *)
(* NotBefore only delays a forwarder, which is free to be slow here.        *)
(***************************************************************************)
EXTENDS Integers, Sequences, FiniteSets

CONSTANTS
    Jobs,                \* idempotency keys, each the key of one row
    NoJob,               \* no job in hand; in a log, a message that does not decode
    Requests,            \* calls of POST /v1/optimizations with a valid body
    KeyOf,               \* the idempotency key of each request
    Procs,               \* worker processes
    Concurrency,         \* WORKER_CONCURRENCY: main-topic consumers per process
    NumPartitions,       \* partitions of each topic
    PartOf,              \* the partition the hash of a job's id selects
    NumTiers,            \* len(RetryTiers), 2 in the code: its delay topics
    MaxDeliveryAttempt,  \* MAX_DELIVERY_ATTEMPTS
    Faults,              \* the kinds of fault that may happen
    MaxFaults            \* bound: how many faults may happen in a behaviour

FaultKinds ==
    { "crash", "shutdown", "rebalance", "stall", "apiCrash", "garbage",
      "duplicate", "create", "claim", "record", "complete", "mark",
      "publishJob", "publishRetry", "publishDLQ", "forward", "commit" }

Partitions == 1..NumPartitions

ASSUME JobsAssumption == NoJob \notin Jobs
ASSUME RequestsAssumption == KeyOf \in [Requests -> Jobs]
ASSUME WorkersAssumption == Concurrency \in Nat
ASSUME PartitionsAssumption == NumPartitions \in Nat \ {0} /\ PartOf \in [Jobs -> Partitions]
ASSUME TiersAssumption == NumTiers \in Nat
ASSUME AttemptsAssumption == MaxDeliveryAttempt \in Nat
ASSUME FaultsAssumption == Faults \subseteq FaultKinds /\ MaxFaults \in Nat

VARIABLES
    row,        \* optimization_jobs, by key: status, attempts, lastError, report, age
    runs,       \* query_runs: baseline measurements recorded for each job
    req,        \* each request: not yet made, at its publish, or how it was answered
    log,        \* log[t][k]: every message ever written to partition k of topic t
    committed,  \* the consumer group's committed offset in log[t][k]
    pos,        \* how far the present owner of log[t][k] has fetched
    owner,      \* the group member that reads log[t][k]
    dlq,        \* messages on the dead-letter topic, by job
    actor,      \* each worker goroutine: where it is and the message it holds
    proc,       \* each worker process: "up", "draining" after SIGTERM, "down"
    faults      \* faults so far

vars == <<row, runs, req, log, committed, pos, owner, dlq, actor, proc, faults>>
offsets == <<committed, pos, owner>>
kafka == <<log, committed, pos, owner, dlq>>

--------------------------------------------------------------------------------
(* Topics, goroutines and rows. *)

\* RetryTopic has a tier for attempts 1 .. len(RetryTiers) and for no other.
Tiers == 1..NumTiers
HasTierAboveOne(n) == n \in 2..NumTiers   \* slip: attempt <= 1 has no tier
HasTier(n) == n \in Tiers

\* Topic 0 is the main topic, topic n the delay topic of tier n.
Main == 0
Topics == {Main} \cup Tiers

\* <<topic, process, n>>: goroutine n of the process that reads the topic.
Consumers == {Main} \X Procs \X (1..Concurrency)
Forwarders == Tiers \X Procs \X {1}
Actors == Consumers \cup Forwarders
NoOne == <<>>

TopicOf(a) == a[1]
ProcOf(a) == a[2]
Up(a) == proc[ProcOf(a)] = "up"

Statuses == {"none", "queued", "running", "retrying", "succeeded", "failed"}
Finished == {"succeeded", "failed"}

\* CreateJob turns an unset max_attempts into 3.
AttemptLimit == IF MaxDeliveryAttempt = 0 THEN 3 ELSE MaxDeliveryAttempt

\* A worker between winning the claim and its last write to the row.
HoldingPCs == {"run", "record", "complete", "mark"}
Holds(a, j) == actor[a].job = j /\ actor[a].pc \in HoldingPCs
Held(j) == \E a \in Consumers : Holds(a, j)

NoRow == [status |-> "none", attempts |-> 0, lastError |-> "none",
          report |-> "none", age |-> 0]

Idle == [pc |-> "idle", job |-> NoJob, part |-> 0, off |-> 0, att |-> 0]

Init ==
    /\ row = [j \in Jobs |-> NoRow]
    /\ runs = [j \in Jobs |-> 0]
    /\ req = [r \in Requests |-> "new"]
    /\ log = [t \in Topics |-> [k \in Partitions |-> <<>>]]
    /\ committed = [t \in Topics |-> [k \in Partitions |-> 0]]
    /\ pos = [t \in Topics |-> [k \in Partitions |-> 0]]
    /\ owner = [t \in Topics |-> [k \in Partitions |-> NoOne]]
    /\ dlq = [j \in Jobs |-> 0]
    /\ actor = [a \in Actors |-> Idle]
    /\ proc = [p \in Procs |-> "up"]
    /\ faults = 0

--------------------------------------------------------------------------------
(* Outcomes of an external call. *)

Fault(f) ==
    /\ f \in Faults
    /\ faults < MaxFaults
    /\ faults' = faults + 1

NoFault == UNCHANGED faults

\* A call made by goroutine a returns normally.
Succeeds(a) == Up(a) /\ NoFault

\* It returns an error: because of a fault, or, after SIGTERM, because the
\* context every call of the process is made with has been cancelled.
Fails(a, f) ==
    \/ Up(a) /\ Fault(f)
    \/ proc[ProcOf(a)] = "draining" /\ NoFault

\* n copies of j's message at the end of its partition of topic t.
Sent(t, j, n) == [log EXCEPT ![t][PartOf[j]] = @ \o [i \in 1..n |-> j]]

\* A publish that is acknowledged.  The producer's own retries (MaxAttempts 5,
\* no idempotence) can leave a second copy behind.
Published(t, j) ==
    \/ NoFault /\ log' = Sent(t, j, 1)
    \/ Fault("duplicate") /\ log' = Sent(t, j, 2)

\* A publish that is reported as failed.
Unacked(t, j) == log' \in {log, Sent(t, j, 1)}

Goto(a, pc) == actor' = [actor EXCEPT ![a].pc = pc]

--------------------------------------------------------------------------------
(* The rows: what each statement of internal/store makes of one. *)

Queued == [NoRow EXCEPT !.status = "queued"]

\* slips: any row that is not running; first deliveries only
CanClaimUnlessRunning(r) == r.status # "running"
CanClaimQueued(r) == r.status = "queued"

\* The WHERE clause of ClaimJob.
CanClaim(r) == r.status \in {"queued", "retrying"}

ClaimedForFree(r) == [r EXCEPT !.status = "running", !.age = 0]   \* slip
Claimed(r) == [r EXCEPT !.status = "running", !.attempts = @ + 1, !.age = 0]

\* CompleteJob updates the row by id alone: it does not look at the status.
Completed(r) ==
    [r EXCEPT !.status = "succeeded", !.report = "stored", !.lastError = "none", !.age = 0]

HasAttemptLeftInclusive(r) == r.attempts <= AttemptLimit     \* slip
HasAttemptLeftButOne(r) == r.attempts + 1 < AttemptLimit     \* slip
HasAttemptLeft(r) == r.attempts < AttemptLimit

\* The CASE shared by MarkFailure (cause "run") and ReclaimStale (cause "lease").
GivenUp(r, cause) ==
    [r EXCEPT !.status = IF HasAttemptLeft(r) THEN "retrying" ELSE "failed",
              !.lastError = cause, !.age = 0]

\* Time since started_at is counted in whole JobTimeouts, up to MaxAge; of a row that
\* is not running nobody asks, and its age is 0.
MaxAge == 2
LeaseOneTimeout == 1   \* slip: the lease is JobTimeout, not twice that
LeaseUnits == 2
LeaseExpired(r) == r.status = "running" /\ r.age >= LeaseUnits

Set(j, r) == row' = [row EXCEPT ![j] = r]
SetOrNot(j, r) == row' \in {row, [row EXCEPT ![j] = r]}

--------------------------------------------------------------------------------
(* The API: createOptimization. *)

\* slip: publish even when CreateJob reported an error
CreateIgnoringError(r) ==
    LET j == KeyOf[r] IN
    /\ req[r] = "new"
    /\ \/ /\ row[j].status = "none"
          /\ Set(j, Queued)
          /\ NoFault
       \/ Fault("create") /\ UNCHANGED row
    /\ req' = [req EXCEPT ![r] = "publish"]
    /\ UNCHANGED <<runs, kafka, actor, proc>>

\* CreateJob: INSERT ... ON CONFLICT DO NOTHING, and the SELECT of the row that
\* was in the way.  Rows are never deleted, so the pair acts as one step.
Create(r) ==
    LET j == KeyOf[r] IN
    /\ req[r] = "new"
    /\ \/ /\ row[j].status = "none"
          /\ Set(j, Queued)
          /\ req' = [req EXCEPT ![r] = "publish"]
          /\ NoFault
       \/ /\ row[j].status # "none"
          /\ req' = [req EXCEPT ![r] = "200"]
          /\ NoFault /\ UNCHANGED row
       \/ /\ Fault("create")
          /\ IF row[j].status = "none" THEN SetOrNot(j, Queued) ELSE UNCHANGED row
          /\ req' = [req EXCEPT ![r] = "500"]
    /\ UNCHANGED <<runs, kafka, actor, proc>>

\* Only the request that created the row publishes its message.
PublishJob(r) ==
    /\ req[r] = "publish"
    /\ \/ /\ Published(Main, KeyOf[r])
          /\ req' = [req EXCEPT ![r] = "202"]
       \/ /\ Fault("publishJob")
          /\ Unacked(Main, KeyOf[r])
          /\ req' = [req EXCEPT ![r] = "503"]
    /\ UNCHANGED <<row, runs, offsets, dlq, actor, proc>>

\* The API process dies between the two.
ApiCrash(r) ==
    /\ req[r] = "publish"
    /\ Fault("apiCrash")
    /\ req' = [req EXCEPT ![r] = "gone"]
    /\ UNCHANGED <<row, runs, kafka, actor, proc>>

--------------------------------------------------------------------------------
(* Kafka: fetching, committing, group membership. *)

\* A message that does not decode is committed on the spot; an error of that
\* commit is ignored.
SkipUndecodable(t, k, off) ==
    \/ NoFault /\ committed' = [committed EXCEPT ![t][k] = off]
    \/ Fault("commit") /\ UNCHANGED committed

\* Fetch: the next message of a partition the goroutine owns.
Fetch(a, k) ==
    LET t == TopicOf(a)
        off == pos[t][k] + 1
        j == log[t][k][off] IN
    /\ Up(a)
    /\ actor[a].pc = "idle"
    /\ owner[t][k] = a
    /\ off <= Len(log[t][k])
    /\ pos' = [pos EXCEPT ![t][k] = off]
    /\ IF j = NoJob
       THEN SkipUndecodable(t, k, off) /\ UNCHANGED actor
       ELSE /\ actor' = [actor EXCEPT ![a] =
                            [pc |-> IF t = Main THEN "claim" ELSE "forward",
                             job |-> j, part |-> k, off |-> off, att |-> 0]]
            /\ NoFault /\ UNCHANGED committed
    /\ UNCHANGED <<row, runs, req, log, owner, dlq, proc>>

\* The committed offsets once the message in hand is committed.
Marked(a) == [committed EXCEPT ![TopicOf(a)][actor[a].part] = actor[a].off]

\* Commit of the message in hand; its error is only logged.
Commit(a) ==
    /\ actor[a].pc = "commit"
    /\ \/ Succeeds(a) /\ committed' = Marked(a)
       \/ Fails(a, "commit") /\ committed' \in {committed, Marked(a)}
    /\ actor' = [actor EXCEPT ![a] = Idle]
    /\ UNCHANGED <<row, runs, req, log, pos, owner, dlq, proc>>

\* The members leaving the group give up their partitions; the next owner
\* starts from the committed offset.
Leave(p) ==
    /\ owner' = [t \in Topics |-> [k \in Partitions |->
                    IF owner[t][k] # NoOne /\ ProcOf(owner[t][k]) = p
                    THEN NoOne ELSE owner[t][k]]]
    /\ pos' = [t \in Topics |-> [k \in Partitions |->
                    IF owner[t][k] # NoOne /\ ProcOf(owner[t][k]) = p
                    THEN committed[t][k] ELSE pos[t][k]]]

\* A new generation of the group: the live members share the partitions out and
\* all of them start again from the committed offsets, whatever is in hand.
Assign(t) ==
    LET live == {a \in Actors : TopicOf(a) = t /\ Up(a)} IN
    /\ live # {}
    /\ \E assignment \in [Partitions -> live] :
          owner' = [owner EXCEPT ![t] = assignment]
    /\ pos' = [pos EXCEPT ![t] = committed[t]]
    /\ UNCHANGED <<row, runs, req, log, committed, dlq, actor, proc>>

\* Partitions without an owner are assigned.
Rebalance(t) ==
    /\ \E k \in Partitions : owner[t][k] = NoOne
    /\ NoFault
    /\ Assign(t)

\* A rebalance no process joined or left for: a missed heartbeat, a coordinator change.
Reshuffle(t) ==
    /\ \A k \in Partitions : owner[t][k] # NoOne
    /\ Fault("rebalance")
    /\ Assign(t)

\* Something other than this program writes to the main topic.
Garbage(k) ==
    /\ Fault("garbage")
    /\ log' = [log EXCEPT ![Main][k] = Append(@, NoJob)]
    /\ UNCHANGED <<row, runs, req, offsets, dlq, actor, proc>>

--------------------------------------------------------------------------------
(* A worker: handle, from the claim to the commit. *)

\* ClaimJob.  A lost race, an unknown job and a database error all end the same
\* way: handle returns and consumeMain commits the message.
Claim(a) ==
    LET j == actor[a].job
        claimed == Claimed(row[j]) IN
    /\ actor[a].pc = "claim"
    /\ \/ /\ Succeeds(a)
          /\ CanClaim(row[j])
          /\ Set(j, claimed)
          /\ actor' = [actor EXCEPT ![a].pc = "run", ![a].att = claimed.attempts]
       \/ /\ Succeeds(a)
          /\ ~CanClaim(row[j])
          /\ Goto(a, "commit")
          /\ UNCHANGED row
       \/ /\ Fails(a, "claim")
          /\ IF CanClaim(row[j]) THEN SetOrNot(j, claimed) ELSE UNCHANGED row
          /\ Goto(a, "commit")
    /\ UNCHANGED <<runs, req, kafka, proc>>

\* Optimizer.Run returns a report or an error.
Run(a) ==
    /\ actor[a].pc = "run"
    /\ \/ Goto(a, "record")
       \/ Goto(a, "mark")
    /\ NoFault
    /\ UNCHANGED <<row, runs, req, kafka, proc>>

\* slip: the baseline recorded once more with the candidates
RecordRunsTwice(a) ==
    /\ actor[a].pc = "record"
    /\ runs' = [runs EXCEPT ![actor[a].job] = @ + 2]
    /\ Succeeds(a)
    /\ Goto(a, "complete")
    /\ UNCHANGED <<row, req, kafka, proc>>

\* slip: only accepted candidates recorded
RecordRunsNoBaseline(a) ==
    /\ actor[a].pc = "record"
    /\ Goto(a, "complete")
    /\ NoFault
    /\ UNCHANGED <<row, runs, req, kafka, proc>>

\* recordRuns: one baseline measurement; errors are ignored.
RecordRuns(a) ==
    LET recorded == [runs EXCEPT ![actor[a].job] = @ + 1] IN
    /\ actor[a].pc = "record"
    /\ \/ Succeeds(a) /\ runs' = recorded
       \/ Fails(a, "record") /\ runs' \in {runs, recorded}
    /\ Goto(a, "complete")
    /\ UNCHANGED <<row, req, kafka, proc>>

\* CompleteJob; an error is only logged.
Complete(a) ==
    LET j == actor[a].job
        completed == Completed(row[j]) IN
    /\ actor[a].pc = "complete"
    /\ \/ Succeeds(a) /\ Set(j, completed)
       \/ Fails(a, "complete") /\ SetOrNot(j, completed)
    /\ Goto(a, "commit")
    /\ UNCHANGED <<runs, req, kafka, proc>>

\* scheduleRetry: MarkFailure.  An error counts as "will not retry".
MarkFailure(a) ==
    LET j == actor[a].job
        marked == GivenUp(row[j], "run") IN
    /\ actor[a].pc = "mark"
    /\ \/ /\ Succeeds(a)
          /\ Set(j, marked)
          /\ Goto(a, IF marked.status = "retrying" /\ HasTier(actor[a].att)
                     THEN "retry" ELSE "dlq")
       \/ /\ Fails(a, "mark")
          /\ SetOrNot(j, marked)
          /\ Goto(a, "dlq")
    /\ UNCHANGED <<runs, req, kafka, proc>>

\* slip: no return after the retry was published
PublishRetryNoReturn(a) ==
    /\ actor[a].pc = "retry"
    /\ Up(a)
    /\ Published(actor[a].att, actor[a].job)
    /\ Goto(a, "dlq")
    /\ UNCHANGED <<row, runs, req, offsets, dlq, proc>>

\* scheduleRetry: publish to the delay topic of this attempt, or fall through.
PublishRetry(a) ==
    LET j == actor[a].job
        t == actor[a].att IN
    /\ actor[a].pc = "retry"
    /\ \/ Up(a) /\ Published(t, j) /\ Goto(a, "commit")
       \/ Fails(a, "publishRetry") /\ Unacked(t, j) /\ Goto(a, "dlq")
    /\ UNCHANGED <<row, runs, req, offsets, dlq, proc>>

\* scheduleRetry: publish to the dead-letter topic; an error is only logged.
PublishDLQ(a) ==
    LET lettered(n) == [dlq EXCEPT ![actor[a].job] = @ + n] IN
    /\ actor[a].pc = "dlq"
    /\ \/ Succeeds(a) /\ dlq' = lettered(1)
       \/ Up(a) /\ Fault("duplicate") /\ dlq' = lettered(2)
       \/ Fails(a, "publishDLQ") /\ dlq' \in {dlq, lettered(1)}
    /\ Goto(a, "commit")
    /\ UNCHANGED <<row, runs, req, log, offsets, proc>>

\* slip: the offset is committed before the message is published
ForwardAfterCommit(a) ==
    LET t == TopicOf(a)
        k == actor[a].part IN
    /\ actor[a].pc = "forward"
    /\ Up(a)
    /\ IF committed[t][k] < actor[a].off
       THEN committed' = Marked(a) /\ NoFault /\ UNCHANGED <<log, actor>>
       ELSE Published(Main, actor[a].job) /\ actor' = [actor EXCEPT ![a] = Idle] /\ UNCHANGED committed
    /\ UNCHANGED <<row, runs, req, pos, owner, dlq, proc>>

\* consumeRetry: after the delay, back to the main topic.  A failed publish
\* moves on to the next message without committing this one.
Forward(a) ==
    LET j == actor[a].job IN
    /\ actor[a].pc = "forward"
    /\ \/ Up(a) /\ Published(Main, j) /\ Goto(a, "commit")
       \/ /\ Fails(a, "forward")
          /\ Unacked(Main, j)
          /\ actor' = [actor EXCEPT ![a] = Idle]
    /\ UNCHANGED <<row, runs, req, offsets, dlq, proc>>

--------------------------------------------------------------------------------
(* Leases, and worker processes coming and going. *)

\* Another JobTimeout passes since j was claimed.  A job whose worker is alive
\* gets past the first only by a stall: Run is cancelled after one JobTimeout,
\* and the few statements after it are taken to need less than another.
Elapse(j) ==
    /\ row[j].status = "running"
    /\ row[j].age < MaxAge
    /\ row[j].age = 0 \/ ~Held(j)
    /\ Set(j, [row[j] EXCEPT !.age = @ + 1])
    /\ NoFault
    /\ UNCHANGED <<runs, req, kafka, actor, proc>>

Stall(j) ==
    /\ row[j].status = "running"
    /\ row[j].age < MaxAge
    /\ row[j].age > 0 /\ Held(j)
    /\ Fault("stall")
    /\ Set(j, [row[j] EXCEPT !.age = @ + 1])
    /\ UNCHANGED <<runs, req, kafka, actor, proc>>

\* ReclaimStale, run every minute by each process; it writes rows and nothing else.
ReclaimStale ==
    /\ \E p \in Procs : proc[p] = "up"
    /\ \E j \in Jobs : LeaseExpired(row[j])
    /\ row' = [j \in Jobs |-> IF LeaseExpired(row[j]) THEN GivenUp(row[j], "lease")
                                                      ELSE row[j]]
    /\ NoFault
    /\ UNCHANGED <<runs, req, kafka, actor, proc>>

\* The process is killed.
Crash(p) ==
    /\ proc[p] # "down"
    /\ Fault("crash")
    /\ proc' = [proc EXCEPT ![p] = "down"]
    /\ actor' = [a \in Actors |-> IF ProcOf(a) = p THEN Idle ELSE actor[a]]
    /\ Leave(p)
    /\ UNCHANGED <<row, runs, req, log, committed, dlq>>

\* SIGTERM: the context of every goroutine is cancelled.
Shutdown(p) ==
    /\ proc[p] = "up"
    /\ Fault("shutdown")
    /\ proc' = [proc EXCEPT ![p] = "draining"]
    /\ UNCHANGED <<row, runs, req, kafka, actor>>

\* wg.Wait returns: every goroutine has left its loop.
Exit(p) ==
    /\ proc[p] = "draining"
    /\ \A a \in Actors : ProcOf(a) = p => actor[a].pc = "idle"
    /\ proc' = [proc EXCEPT ![p] = "down"]
    /\ Leave(p)
    /\ NoFault
    /\ UNCHANGED <<row, runs, req, log, committed, dlq, actor>>

\* The group makes a new generation for a process that joins: every member loses its
\* partitions, whatever it has in hand, and Rebalance shares them out again.
Restart(p) ==
    /\ proc[p] = "down"
    /\ proc' = [proc EXCEPT ![p] = "up"]
    /\ owner' = [t \in Topics |-> [k \in Partitions |-> NoOne]]
    /\ pos' = committed
    /\ NoFault
    /\ UNCHANGED <<row, runs, req, log, committed, dlq, actor>>

--------------------------------------------------------------------------------
(* The specification. *)

\* What goroutine a does next.
Step(a) ==
    \/ \E k \in Partitions : Fetch(a, k)
    \/ Claim(a) \/ Run(a) \/ RecordRuns(a) \/ Complete(a)
    \/ MarkFailure(a) \/ PublishRetry(a) \/ PublishDLQ(a)
    \/ Forward(a) \/ Commit(a)

Next ==
    \/ \E r \in Requests : Create(r) \/ PublishJob(r) \/ ApiCrash(r)
    \/ \E a \in Actors : Step(a)
    \/ \E t \in Topics : Rebalance(t) \/ Reshuffle(t)
    \/ \E k \in Partitions : Garbage(k)
    \/ \E j \in Jobs : Elapse(j) \/ Stall(j)
    \/ ReclaimStale
    \/ \E p \in Procs : Crash(p) \/ Shutdown(p) \/ Exit(p) \/ Restart(p)

Spec == Init /\ [][Next]_vars

\* A request that was accepted runs its handler to the end, goroutines are
\* scheduled, calls return, time passes, the ticker ticks and the group assigns
\* partitions.  Nothing forces a fault, a new request, a shutdown or a restart.
Fairness ==
    /\ \A r \in Requests : WF_vars(PublishJob(r))
    /\ \A a \in Actors : WF_vars(Step(a))
    /\ \A t \in Topics : WF_vars(Rebalance(t))
    /\ \A j \in Jobs : WF_vars(Elapse(j))
    /\ WF_vars(ReclaimStale)
    /\ \A p \in Procs : WF_vars(Exit(p))

FairSpec == Spec /\ Fairness
================================================================================
