--------------------------- MODULE JobPipelineProofs ---------------------------
(***************************************************************************)
(* Proofs about JobPipeline for every set of jobs, requests and processes, *)
(* every number of consumers, partitions and attempts, and every choice of *)
(* faults. In three parts:                                                  *)
(*                                                                         *)
(* - types, attempts, and what holds under every fault;                     *)
(* - as long as no lease expires under a live worker ("stall" is not one of *)
(*   the faults), that a job is run by one worker at a time, that finished  *)
(*   rows stay finished, and that the pipeline implements the lifecycle of  *)
(*   a row, whatever is redelivered, reordered, lost or killed;             *)
(* - what at-least-once delivery comes to: an offset is settled only when   *)
(*   its message has been claimed or put back, no retry is lost that was    *)
(*   not forwarded, no row waits without a message, and at the end of its   *)
(*   way a job has its history, or its dead letter. Each theorem excludes   *)
(*   the faults that TLC has a counterexample with, and no other.           *)
(***************************************************************************)
EXTENDS JobPipelineProperties, FiniteSetTheorems, TLAPS

\* What a goroutine has in hand agrees with where it is: past "idle" it has a job
\* and a partition, main-topic consumers never forward, forwarders do nothing
\* else, and a publish to a delay topic is for an attempt that has one.
HandsOK ==
    \A a \in Actors :
        /\ actor[a].pc # "idle" => actor[a].job \in Jobs /\ actor[a].part \in Partitions
        /\ actor[a].pc = "forward" => a \in Forwarders
        /\ actor[a].pc \notin {"idle", "forward", "commit"} => a \in Consumers
        /\ actor[a].pc = "retry" => actor[a].att \in Tiers

\* max_attempts is positive: CreateJob replaces an unset one.
LEMMA LimitPositive == AttemptLimit \in Nat /\ AttemptLimit > 0
BY AttemptsAssumption DEF AttemptLimit

\* Every goroutine belongs to a topic and a process.
LEMMA ActorParts ==
    ASSUME NEW a \in Actors
    PROVE  TopicOf(a) \in Topics /\ ProcOf(a) \in Procs /\ a # NoOne
BY DEF Actors, Consumers, Forwarders, TopicOf, ProcOf, Topics, NoOne

\* One row accounts for its attempts.
Accounted(r) ==
    /\ CanClaim(r) => r.attempts < AttemptLimit
    /\ r.status = "failed" => r.attempts = AttemptLimit

LEMMA AccountedRows == AttemptsAccounted <=> \A j \in Jobs : Accounted(row[j])
BY DEF AttemptsAccounted, Accounted

\* Every statement of the store turns a well-typed, accounted row into one.
LEMMA QueuedRow == Queued \in RowType /\ Accounted(Queued)
<1>1. AttemptLimit \in Nat /\ AttemptLimit > 0
  BY LimitPositive
<1> QED
  BY <1>1 DEF Queued, NoRow, RowType, Statuses, Accounted, CanClaim, MaxAge

LEMMA ClaimedRow ==
    ASSUME NEW r \in RowType, Accounted(r), CanClaim(r)
    PROVE  Claimed(r) \in RowType /\ Accounted(Claimed(r))
<1>1. /\ "running" \in Statuses /\ 0 \in 0..MaxAge /\ r.attempts \in Nat
      /\ r.attempts + 1 \in 0..AttemptLimit
  BY LimitPositive DEF Accounted, RowType, Statuses, MaxAge
<1>2. Claimed(r) \in RowType
  BY <1>1 DEF Claimed, RowType
<1>3. Accounted(Claimed(r))
  BY <1>1 DEF Claimed, RowType, Accounted, CanClaim
<1> QED
  BY <1>2, <1>3

LEMMA CompletedRow ==
    ASSUME NEW r \in RowType
    PROVE  Completed(r) \in RowType /\ Accounted(Completed(r))
<1>1. 0 \in 0..MaxAge /\ "succeeded" \in Statuses
  BY DEF MaxAge, Statuses
<1> QED
  BY <1>1 DEF Completed, RowType, Accounted, CanClaim

LEMMA GivenUpRow ==
    ASSUME NEW r \in RowType, NEW c \in {"run", "lease"}
    PROVE  GivenUp(r, c) \in RowType /\ Accounted(GivenUp(r, c))
<1>1. AttemptLimit \in Nat /\ r.attempts \in 0..AttemptLimit
  BY LimitPositive DEF RowType
<1>2. CASE HasAttemptLeft(r)
  <2>1. GivenUp(r, c) = [r EXCEPT !.status = "retrying", !.lastError = c, !.age = 0]
    BY <1>2 DEF GivenUp
  <2>2. "retrying" \in Statuses /\ c \in {"none", "run", "lease"} /\ 0 \in 0..MaxAge
    BY DEF Statuses, MaxAge
  <2>3. GivenUp(r, c) \in RowType
    BY <2>1, <2>2 DEF RowType
  <2>4. Accounted(GivenUp(r, c))
    BY <1>1, <1>2, <2>1 DEF RowType, Accounted, CanClaim, HasAttemptLeft
  <2> QED
    BY <2>3, <2>4
<1>3. CASE ~ HasAttemptLeft(r)
  <2>1. GivenUp(r, c) = [r EXCEPT !.status = "failed", !.lastError = c, !.age = 0]
    BY <1>3 DEF GivenUp
  <2>2. "failed" \in Statuses /\ c \in {"none", "run", "lease"} /\ 0 \in 0..MaxAge
    BY DEF Statuses, MaxAge
  <2>3. GivenUp(r, c) \in RowType
    BY <2>1, <2>2 DEF RowType
  <2>4. Accounted(GivenUp(r, c))
    BY <1>1, <1>3, <2>1 DEF RowType, Accounted, CanClaim, HasAttemptLeft
  <2> QED
    BY <2>3, <2>4
<1> QED
  BY <1>2, <1>3

LEMMA OlderRow ==
    ASSUME NEW r \in RowType, Accounted(r), r.age < MaxAge
    PROVE  LET older == [r EXCEPT !.age = @ + 1] IN older \in RowType /\ Accounted(older)
BY DEF RowType, Accounted, CanClaim, MaxAge

--------------------------------------------------------------------------------
(* How a step changes one variable. *)

RowsOK == row \in [Jobs -> RowType] /\ AttemptsAccounted
HandOK(a, h) ==
    /\ h.pc # "idle" => h.job \in Jobs /\ h.part \in Partitions
    /\ h.pc = "forward" => a \in Forwarders
    /\ h.pc \notin {"idle", "forward", "commit"} => a \in Consumers
    /\ h.pc = "retry" => h.att \in Tiers
ActorsOK == actor \in [Actors -> ActorType] /\ HandsOK

\* A row is replaced by a good one, or not.
LEMMA SetRow ==
    ASSUME RowsOK, NEW j \in Jobs, NEW r \in RowType, Accounted(r),
           Set(j, r) \/ SetOrNot(j, r) \/ UNCHANGED row
    PROVE  RowsOK'
<1>1. row' = row \/ row' = [row EXCEPT ![j] = r]
  BY DEF Set, SetOrNot
<1>2. \A i \in Jobs : row'[i] = row[i] \/ row'[i] = r
  BY <1>1 DEF RowsOK
<1>3. row' \in [Jobs -> RowType]
  BY <1>1 DEF RowsOK
<1>4. \A i \in Jobs : Accounted(row'[i])
  BY <1>2, AccountedRows DEF RowsOK
<1> QED
  BY <1>3, <1>4 DEF RowsOK, AttemptsAccounted, Accounted

\* One goroutine's hand is replaced by a good one.
LEMMA SetHand ==
    ASSUME ActorsOK, NEW a \in Actors, NEW h \in ActorType, HandOK(a, h),
           actor' = [actor EXCEPT ![a] = h]
    PROVE  ActorsOK'
<1>1. actor' \in [Actors -> ActorType]
  BY DEF ActorsOK
<1>2. \A b \in Actors : HandOK(b, actor'[b])
  BY DEF ActorsOK, HandsOK, HandOK
<1> QED
  BY <1>1, <1>2 DEF ActorsOK, HandsOK, HandOK

LEMMA IdleHand == Idle \in ActorType /\ \A a : HandOK(a, Idle)
BY LimitPositive, PartitionsAssumption DEF Idle, ActorType, PCs, HandOK

\* A worker moves on inside handle, or any goroutine to its commit.
LEMMA GotoHand ==
    ASSUME ActorsOK, NEW a \in Actors, NEW x \in PCs, Goto(a, x),
           actor[a].pc # "idle", x # "idle",
           x = "commit" \/ (a \in Consumers /\ x # "forward"),
           x = "retry" => actor[a].att \in Tiers
    PROVE  ActorsOK'
<1> DEFINE h == [actor[a] EXCEPT !.pc = x]
<1>1. actor[a] \in ActorType /\ HandOK(a, actor[a])
  BY DEF ActorsOK, HandsOK, HandOK
<1>2. h \in ActorType
  BY <1>1 DEF ActorType
<1>3. HandOK(a, h)
  BY <1>1 DEF HandOK, ActorType
<1>4. actor' = [actor EXCEPT ![a] = h]
  BY DEF Goto
<1> QED
  BY <1>2, <1>3, <1>4, SetHand

\* Copies of a message are added at the end of one partition.
LogsOK == log \in [Topics -> [Partitions -> Seq(Jobs \cup {NoJob})]]
LEMMA SendLog ==
    ASSUME LogsOK, NEW t \in Topics, NEW j \in Jobs, Published(t, j) \/ Unacked(t, j)
    PROVE  LogsOK'
<1>1. PICK n \in {1, 2} : log' = log \/ log' = Sent(t, j, n)
  BY DEF Published, Unacked
<1>2. [i \in 1..n |-> j] \in Seq(Jobs \cup {NoJob})
  OBVIOUS
<1>3. PartOf[j] \in Partitions
  BY PartitionsAssumption
<1>4. log[t][PartOf[j]] \o [i \in 1..n |-> j] \in Seq(Jobs \cup {NoJob})
  BY <1>2, <1>3 DEF LogsOK
<1>5. Sent(t, j, n) \in [Topics -> [Partitions -> Seq(Jobs \cup {NoJob})]]
  BY <1>3, <1>4 DEF LogsOK, Sent
<1> QED
  BY <1>1, <1>5 DEF LogsOK

\* The count of faults stays a number.
FaultsOK == faults \in Nat
LEMMA CountFaults ==
    ASSUME FaultsOK, NoFault \/ \E f : Fault(f)
    PROVE  FaultsOK'
BY DEF FaultsOK, NoFault, Fault

\* The offsets and the owners of the partitions, and everything that is counted
\* or merely noted.
GroupOK ==
    /\ committed \in [Topics -> [Partitions -> Nat]]
    /\ pos \in [Topics -> [Partitions -> Nat]]
    /\ owner \in [Topics -> [Partitions -> Actors \cup {NoOne}]]
NotesOK ==
    /\ runs \in [Jobs -> Nat]
    /\ dlq \in [Jobs -> Nat]
    /\ req \in [Requests -> Answers]
    /\ proc \in [Procs -> {"up", "draining", "down"}]

\* A member that leaves hands back committed offsets and no owner.
LEMMA LeaveGroup ==
    ASSUME GroupOK, NEW p \in Procs, Leave(p), UNCHANGED committed
    PROVE  GroupOK'
BY DEF GroupOK, Leave

LEMMA AssignGroup ==
    ASSUME GroupOK, NEW t \in Topics, Assign(t)
    PROVE  GroupOK'
<1>1. PICK assignment \in [Partitions -> {a \in Actors : TopicOf(a) = t /\ Up(a)}] :
         owner' = [owner EXCEPT ![t] = assignment]
  BY DEF Assign
<1>2. owner' \in [Topics -> [Partitions -> Actors \cup {NoOne}]]
  BY <1>1 DEF GroupOK
<1> QED
  BY <1>2 DEF GroupOK, Assign

LEMMA CommitGroup ==
    ASSUME GroupOK, NEW a \in Actors, actor[a].part \in Partitions, actor[a].off \in Nat,
           committed' \in {committed, Marked(a)}, UNCHANGED <<pos, owner>>
    PROVE  GroupOK'
<1>1. Marked(a) \in [Topics -> [Partitions -> Nat]]
  BY ActorParts DEF GroupOK, Marked
<1> QED
  BY <1>1 DEF GroupOK

IInv == RowsOK /\ LogsOK /\ ActorsOK /\ FaultsOK /\ GroupOK /\ NotesOK

LEMMA IInvMeaning == IInv <=> TypeOK /\ AttemptsAccounted /\ HandsOK
BY DEF IInv, RowsOK, LogsOK, ActorsOK, FaultsOK, GroupOK, NotesOK, TypeOK

LEMMA InitIInv == Init => IInv
<1> SUFFICES ASSUME Init
             PROVE  IInv
  OBVIOUS
<1>1. RowsOK
  <2>1. NoRow \in RowType /\ Accounted(NoRow)
    BY LimitPositive DEF NoRow, RowType, Statuses, Accounted, CanClaim, MaxAge
  <2> QED
    BY <2>1, AccountedRows DEF Init, RowsOK
<1>2. ActorsOK
  BY IdleHand DEF Init, ActorsOK, HandsOK, HandOK
<1>3. LogsOK /\ FaultsOK /\ GroupOK /\ NotesOK
  BY DEF Init, LogsOK, FaultsOK, GroupOK, NotesOK, Answers
<1> QED
  BY <1>1, <1>2, <1>3 DEF IInv

--------------------------------------------------------------------------------
(* One lemma per group of actions: each keeps the invariant. *)

LEMMA ApiSteps ==
    ASSUME IInv, NEW r \in Requests, Create(r) \/ PublishJob(r) \/ ApiCrash(r)
    PROVE  IInv'
<1> DEFINE j == KeyOf[r]
<1>1. j \in Jobs
  BY RequestsAssumption
<1>2. CASE Create(r)
  <2>1. RowsOK'
    <3>1. Set(j, Queued) \/ SetOrNot(j, Queued) \/ UNCHANGED row
      BY <1>2 DEF Create
    <3> QED
      BY <1>1, <3>1, SetRow, QueuedRow DEF IInv
  <2>2. FaultsOK'
    BY <1>2, CountFaults DEF IInv, Create
  <2>3. NotesOK'
    <3>1. PICK x \in {"publish", "200", "500"} : req' = [req EXCEPT ![r] = x]
      BY <1>2 DEF Create
    <3>2. x \in Answers
      BY DEF Answers
    <3> QED
      BY <1>2, <3>1, <3>2 DEF IInv, NotesOK, Create, kafka
  <2>4. LogsOK' /\ ActorsOK' /\ GroupOK'
    BY <1>2 DEF IInv, Create, kafka, LogsOK, ActorsOK, HandsOK, GroupOK
  <2> QED
    BY <2>1, <2>2, <2>3, <2>4 DEF IInv
<1>3. CASE PublishJob(r)
  <2>1. LogsOK'
    BY <1>1, <1>3, SendLog DEF IInv, PublishJob, Main, Topics
  <2>2. FaultsOK'
    BY <1>3, CountFaults DEF IInv, PublishJob, Published
  <2>3. NotesOK'
    <3>1. PICK x \in {"202", "503"} : req' = [req EXCEPT ![r] = x]
      BY <1>3 DEF PublishJob
    <3>2. x \in Answers
      BY DEF Answers
    <3> QED
      BY <1>3, <3>1, <3>2 DEF IInv, NotesOK, PublishJob
  <2>4. RowsOK' /\ ActorsOK' /\ GroupOK'
    BY <1>3 DEF IInv, PublishJob, offsets, RowsOK, AttemptsAccounted, ActorsOK, HandsOK, GroupOK
  <2> QED
    BY <2>1, <2>2, <2>3, <2>4 DEF IInv
<1>4. CASE ApiCrash(r)
  <2>1. FaultsOK'
    BY <1>4, CountFaults DEF IInv, ApiCrash
  <2>2. NotesOK'
    BY <1>4 DEF IInv, NotesOK, ApiCrash, Answers, kafka
  <2>3. RowsOK' /\ LogsOK' /\ ActorsOK' /\ GroupOK'
    BY <1>4 DEF IInv, ApiCrash, kafka, RowsOK, AttemptsAccounted, LogsOK, ActorsOK, HandsOK, GroupOK
  <2> QED
    BY <2>1, <2>2, <2>3 DEF IInv
<1> QED
  BY <1>2, <1>3, <1>4

LEMMA FetchStep ==
    ASSUME IInv, NEW a \in Actors, NEW k \in Partitions, Fetch(a, k)
    PROVE  IInv'
<1> DEFINE t == TopicOf(a)
           off == pos[t][k] + 1
           j == log[t][k][off]
           h == [pc |-> IF t = Main THEN "claim" ELSE "forward",
                 job |-> j, part |-> k, off |-> off, att |-> 0]
<1>1. t \in Topics /\ pos[t][k] \in Nat /\ off \in Nat
  BY ActorParts DEF IInv, GroupOK
<1>2. j \in Jobs \cup {NoJob}
  BY <1>1 DEF IInv, LogsOK, Fetch
<1>3. FaultsOK'
  <2>1. NoFault \/ Fault("commit")
    BY DEF Fetch, SkipUndecodable
  <2> QED
    BY <2>1, CountFaults DEF IInv
<1>4. GroupOK'
  <2>1. committed' = committed \/ committed' = [committed EXCEPT ![t][k] = off]
    BY DEF Fetch, SkipUndecodable
  <2>2. pos' = [pos EXCEPT ![t][k] = off] /\ owner' = owner
    BY DEF Fetch
  <2> QED
    BY <1>1, <2>1, <2>2 DEF IInv, GroupOK
<1>5. ActorsOK'
  <2>1. CASE j = NoJob
    BY <2>1 DEF Fetch, IInv, ActorsOK, HandsOK
  <2>2. CASE j # NoJob
    <3>1. actor' = [actor EXCEPT ![a] = h]
      BY <2>2 DEF Fetch
    <3>2. h \in ActorType
      <4>1. h.pc \in PCs /\ 0 \in 0..AttemptLimit /\ k \in 0..NumPartitions
        BY LimitPositive, PartitionsAssumption DEF PCs, Partitions
      <4> QED
        BY <1>1, <1>2, <4>1 DEF ActorType
    <3>3. HandOK(a, h)
      <4>1. t = Main => a \in Consumers
        BY DEF Actors, Consumers, Forwarders, Tiers, Main, TopicOf
      <4>2. t # Main => a \in Forwarders
        BY DEF Actors, Consumers, Forwarders, Tiers, Main, TopicOf
      <4> QED
        BY <1>2, <2>2, <4>1, <4>2 DEF HandOK
    <3> HIDE DEF h
    <3> QED
      BY <3>1, <3>2, <3>3, SetHand DEF IInv
  <2> QED
    BY <2>1, <2>2
<1>6. RowsOK' /\ LogsOK' /\ NotesOK'
  BY DEF Fetch, IInv, RowsOK, AttemptsAccounted, LogsOK, NotesOK
<1> QED
  BY <1>3, <1>4, <1>5, <1>6 DEF IInv

LEMMA CommitStep ==
    ASSUME IInv, NEW a \in Actors, Commit(a)
    PROVE  IInv'
<1>1. actor[a].part \in Partitions /\ actor[a].off \in Nat
  BY DEF Commit, IInv, ActorsOK, HandsOK, ActorType
<1>2. GroupOK'
  BY <1>1, CommitGroup DEF Commit, IInv
<1>3. ActorsOK'
  BY SetHand, IdleHand DEF Commit, IInv
<1>4. FaultsOK'
  BY CountFaults DEF Commit, Succeeds, Fails, IInv
<1>5. RowsOK' /\ LogsOK' /\ NotesOK'
  BY DEF Commit, IInv, RowsOK, AttemptsAccounted, LogsOK, NotesOK
<1> QED
  BY <1>2, <1>3, <1>4, <1>5 DEF IInv

LEMMA GroupSteps ==
    ASSUME IInv, NEW t \in Topics, Rebalance(t) \/ Reshuffle(t)
    PROVE  IInv'
<1>1. Assign(t)
  BY DEF Rebalance, Reshuffle
<1>2. GroupOK'
  BY <1>1, AssignGroup DEF IInv
<1>3. FaultsOK'
  BY CountFaults DEF Rebalance, Reshuffle, IInv
<1>4. RowsOK' /\ LogsOK' /\ ActorsOK' /\ NotesOK'
  BY <1>1 DEF Assign, IInv, RowsOK, AttemptsAccounted, LogsOK, ActorsOK, HandsOK, NotesOK
<1> QED
  BY <1>2, <1>3, <1>4 DEF IInv

LEMMA GarbageStep ==
    ASSUME IInv, NEW k \in Partitions, Garbage(k)
    PROVE  IInv'
<1>1. LogsOK'
  <2>1. Main \in Topics
    BY DEF Main, Topics
  <2>2. Append(log[Main][k], NoJob) \in Seq(Jobs \cup {NoJob})
    BY <2>1 DEF IInv, LogsOK
  <2> QED
    BY <2>1, <2>2 DEF Garbage, IInv, LogsOK
<1>2. FaultsOK'
  BY CountFaults DEF Garbage, IInv
<1>3. RowsOK' /\ ActorsOK' /\ GroupOK' /\ NotesOK'
  BY DEF Garbage, offsets, IInv, RowsOK, AttemptsAccounted, ActorsOK, HandsOK, GroupOK, NotesOK
<1> QED
  BY <1>1, <1>2, <1>3 DEF IInv

\* What every action of a worker starts from.
LEMMA WorkerHand ==
    ASSUME IInv, NEW a \in Actors, actor[a].pc \notin {"idle", "forward", "commit"}
    PROVE  /\ a \in Consumers
           /\ actor[a].job \in Jobs
           /\ row[actor[a].job] \in RowType
           /\ Accounted(row[actor[a].job])
<1>1. a \in Consumers /\ actor[a].job \in Jobs
  BY DEF IInv, ActorsOK, HandsOK
<1> QED
  BY <1>1, AccountedRows DEF IInv, RowsOK

LEMMA ClaimStep ==
    ASSUME IInv, NEW a \in Actors, Claim(a)
    PROVE  IInv'
<1> DEFINE j == actor[a].job
           claimed == Claimed(row[j])
<1>1. /\ a \in Consumers /\ j \in Jobs
      /\ row[j] \in RowType /\ Accounted(row[j])
  BY WorkerHand DEF Claim
<1>2. CanClaim(row[j]) => claimed \in RowType /\ Accounted(claimed)
  BY <1>1, ClaimedRow
<1>3. RowsOK'
  <2>1. CASE CanClaim(row[j])
    <3>1. Set(j, claimed) \/ SetOrNot(j, claimed)
      BY <2>1 DEF Claim
    <3> QED
      BY <1>1, <1>2, <2>1, <3>1, SetRow DEF IInv
  <2>2. CASE ~ CanClaim(row[j])
    BY <2>2 DEF Claim, IInv, RowsOK, AttemptsAccounted
  <2> QED
    BY <2>1, <2>2
<1>4. ActorsOK'
  <2>1. CASE CanClaim(row[j]) /\ actor' = [actor EXCEPT ![a].pc = "run", ![a].att = claimed.attempts]
    <3> DEFINE h == [actor[a] EXCEPT !.pc = "run", !.att = claimed.attempts]
    <3>1. actor[a] \in ActorType
      BY DEF IInv, ActorsOK
    <3>2. claimed.attempts \in 0..AttemptLimit
      BY <1>2, <2>1 DEF RowType
    <3>3. "run" \in PCs
      BY DEF PCs
    <3>4. h \in ActorType
      BY <3>1, <3>2, <3>3 DEF ActorType
    <3>5. actor[a].job \in Jobs /\ actor[a].part \in Partitions
      BY DEF Claim, IInv, ActorsOK, HandsOK
    <3>6. HandOK(a, h)
      BY <1>1, <3>1, <3>5 DEF HandOK, ActorType
    <3>7. actor' = [actor EXCEPT ![a] = h]
      BY <2>1
    <3> HIDE DEF h
    <3> QED
      BY <3>4, <3>6, <3>7, SetHand DEF IInv
  <2>2. CASE Goto(a, "commit")
    BY <2>2, GotoHand DEF Claim, IInv, PCs
  <2> QED
    BY <2>1, <2>2 DEF Claim
<1>5. FaultsOK'
  BY CountFaults DEF Claim, Succeeds, Fails, IInv
<1>6. LogsOK' /\ GroupOK' /\ NotesOK'
  BY DEF Claim, kafka, IInv, LogsOK, GroupOK, NotesOK
<1> QED
  BY <1>3, <1>4, <1>5, <1>6 DEF IInv

LEMMA RunStep ==
    ASSUME IInv, NEW a \in Actors, Run(a)
    PROVE  IInv'
<1>1. ActorsOK'
  BY WorkerHand, GotoHand DEF Run, IInv, PCs
<1>2. RowsOK' /\ LogsOK' /\ GroupOK' /\ NotesOK' /\ FaultsOK'
  BY DEF Run, NoFault, kafka, IInv, RowsOK, AttemptsAccounted, LogsOK, GroupOK, NotesOK, FaultsOK
<1> QED
  BY <1>1, <1>2 DEF IInv

LEMMA RecordRunsStep ==
    ASSUME IInv, NEW a \in Actors, RecordRuns(a)
    PROVE  IInv'
<1>1. ActorsOK'
  BY WorkerHand, GotoHand DEF RecordRuns, IInv, PCs
<1>2. NotesOK'
  BY WorkerHand DEF RecordRuns, kafka, IInv, NotesOK
<1>3. FaultsOK'
  BY CountFaults DEF RecordRuns, Succeeds, Fails, IInv
<1>4. RowsOK' /\ LogsOK' /\ GroupOK'
  BY DEF RecordRuns, kafka, IInv, RowsOK, AttemptsAccounted, LogsOK, GroupOK
<1> QED
  BY <1>1, <1>2, <1>3, <1>4 DEF IInv

LEMMA CompleteStep ==
    ASSUME IInv, NEW a \in Actors, Complete(a)
    PROVE  IInv'
<1> DEFINE j == actor[a].job
<1>1. a \in Consumers /\ j \in Jobs /\ row[j] \in RowType
  BY WorkerHand DEF Complete
<1>2. RowsOK'
  BY <1>1, SetRow, CompletedRow DEF Complete, IInv
<1>3. ActorsOK'
  BY <1>1, GotoHand DEF Complete, IInv, PCs
<1>4. FaultsOK'
  BY CountFaults DEF Complete, Succeeds, Fails, IInv
<1>5. LogsOK' /\ GroupOK' /\ NotesOK'
  BY DEF Complete, kafka, IInv, LogsOK, GroupOK, NotesOK
<1> QED
  BY <1>2, <1>3, <1>4, <1>5 DEF IInv

LEMMA MarkFailureStep ==
    ASSUME IInv, NEW a \in Actors, MarkFailure(a)
    PROVE  IInv'
<1> DEFINE j == actor[a].job
           marked == GivenUp(row[j], "run")
<1>1. a \in Consumers /\ j \in Jobs /\ row[j] \in RowType
  BY WorkerHand DEF MarkFailure
<1>2. RowsOK'
  <2>1. marked \in RowType /\ Accounted(marked)
    BY <1>1, GivenUpRow
  <2>2. Set(j, marked) \/ SetOrNot(j, marked)
    BY DEF MarkFailure
  <2> QED
    BY <1>1, <2>1, <2>2, SetRow DEF IInv
<1>3. ActorsOK'
  <2>1. \/ Goto(a, "dlq")
        \/ Goto(a, "retry") /\ HasTier(actor[a].att)
    BY DEF MarkFailure
  <2> QED
    BY <1>1, <2>1, GotoHand DEF MarkFailure, HasTier, IInv, PCs
<1>4. FaultsOK'
  BY CountFaults DEF MarkFailure, Succeeds, Fails, IInv
<1>5. LogsOK' /\ GroupOK' /\ NotesOK'
  BY DEF MarkFailure, kafka, IInv, LogsOK, GroupOK, NotesOK
<1> QED
  BY <1>2, <1>3, <1>4, <1>5 DEF IInv

LEMMA PublishRetryStep ==
    ASSUME IInv, NEW a \in Actors, PublishRetry(a)
    PROVE  IInv'
<1>1. a \in Consumers /\ actor[a].job \in Jobs
  BY WorkerHand DEF PublishRetry
<1>2. actor[a].att \in Topics
  BY DEF PublishRetry, IInv, ActorsOK, HandsOK, Topics
<1>3. LogsOK'
  BY <1>1, <1>2, SendLog DEF PublishRetry, IInv
<1>4. ActorsOK'
  BY <1>1, GotoHand DEF PublishRetry, IInv, PCs
<1>5. FaultsOK'
  BY CountFaults DEF PublishRetry, Published, Fails, IInv
<1>6. RowsOK' /\ GroupOK' /\ NotesOK'
  BY DEF PublishRetry, offsets, IInv, RowsOK, AttemptsAccounted, GroupOK, NotesOK
<1> QED
  BY <1>3, <1>4, <1>5, <1>6 DEF IInv

LEMMA PublishDLQStep ==
    ASSUME IInv, NEW a \in Actors, PublishDLQ(a)
    PROVE  IInv'
<1>1. a \in Consumers /\ actor[a].job \in Jobs
  BY WorkerHand DEF PublishDLQ
<1>2. ActorsOK'
  BY <1>1, GotoHand DEF PublishDLQ, IInv, PCs
<1>3. NotesOK'
  BY <1>1 DEF PublishDLQ, IInv, NotesOK
<1>4. FaultsOK'
  BY CountFaults DEF PublishDLQ, Succeeds, Fails, IInv
<1>5. RowsOK' /\ LogsOK' /\ GroupOK'
  BY DEF PublishDLQ, offsets, IInv, RowsOK, AttemptsAccounted, LogsOK, GroupOK
<1> QED
  BY <1>2, <1>3, <1>4, <1>5 DEF IInv

LEMMA ForwardStep ==
    ASSUME IInv, NEW a \in Actors, Forward(a)
    PROVE  IInv'
<1>1. actor[a].job \in Jobs /\ Main \in Topics
  BY DEF Forward, IInv, ActorsOK, HandsOK, Main, Topics
<1>2. LogsOK'
  BY <1>1, SendLog DEF Forward, IInv
<1>3. ActorsOK'
  BY SetHand, IdleHand, GotoHand DEF Forward, IInv, PCs
<1>4. FaultsOK'
  BY CountFaults DEF Forward, Published, Fails, IInv
<1>5. RowsOK' /\ GroupOK' /\ NotesOK'
  BY DEF Forward, offsets, IInv, RowsOK, AttemptsAccounted, GroupOK, NotesOK
<1> QED
  BY <1>2, <1>3, <1>4, <1>5 DEF IInv

LEMMA LeaseSteps ==
    ASSUME IInv, NEW j \in Jobs, Elapse(j) \/ Stall(j)
    PROVE  IInv'
<1> DEFINE older == [row[j] EXCEPT !.age = @ + 1]
<1>1. row[j] \in RowType /\ Accounted(row[j]) /\ row[j].age < MaxAge
  BY AccountedRows DEF Elapse, Stall, IInv, RowsOK
<1>2. older \in RowType /\ Accounted(older)
  BY <1>1, OlderRow
<1>3. RowsOK'
  BY <1>2, SetRow DEF Elapse, Stall, IInv
<1>4. FaultsOK'
  BY CountFaults DEF Elapse, Stall, IInv
<1>5. LogsOK' /\ ActorsOK' /\ GroupOK' /\ NotesOK'
  BY DEF Elapse, Stall, kafka, IInv, LogsOK, ActorsOK, HandsOK, GroupOK, NotesOK
<1> QED
  BY <1>3, <1>4, <1>5 DEF IInv

LEMMA ReclaimStep ==
    ASSUME IInv, ReclaimStale
    PROVE  IInv'
<1>1. \A j \in Jobs : row'[j] = row[j] \/ row'[j] = GivenUp(row[j], "lease")
  BY DEF ReclaimStale
<1>2. \A j \in Jobs : row[j] \in RowType /\ Accounted(row[j])
  BY AccountedRows DEF IInv, RowsOK
<1>3. \A j \in Jobs : row'[j] \in RowType /\ Accounted(row'[j])
  BY <1>1, <1>2, GivenUpRow
<1>4. RowsOK'
  <2>1. row' = [j \in Jobs |-> row'[j]]
    BY DEF ReclaimStale
  <2> QED
    BY <1>3, <2>1 DEF RowsOK, AttemptsAccounted, Accounted
<1>5. FaultsOK'
  BY CountFaults DEF ReclaimStale, IInv
<1>6. LogsOK' /\ ActorsOK' /\ GroupOK' /\ NotesOK'
  BY DEF ReclaimStale, kafka, IInv, LogsOK, ActorsOK, HandsOK, GroupOK, NotesOK
<1> QED
  BY <1>4, <1>5, <1>6 DEF IInv

LEMMA ProcessSteps ==
    ASSUME IInv, NEW p \in Procs, Crash(p) \/ Shutdown(p) \/ Exit(p) \/ Restart(p)
    PROVE  IInv'
<1>1. FaultsOK'
  BY CountFaults DEF Crash, Shutdown, Exit, Restart, IInv
<1>2. GroupOK'
  <2>1. CASE Crash(p) \/ Exit(p)
    BY <2>1, LeaveGroup DEF Crash, Exit, IInv
  <2>2. CASE Shutdown(p) \/ Restart(p)
    BY <2>2 DEF Shutdown, Restart, kafka, IInv, GroupOK
  <2> QED
    BY <2>1, <2>2
<1>3. ActorsOK'
  <2>1. CASE Crash(p)
    BY <2>1, IdleHand DEF Crash, IInv, ActorsOK, HandsOK, HandOK
  <2>2. CASE Shutdown(p) \/ Exit(p) \/ Restart(p)
    BY <2>2 DEF Shutdown, Exit, Restart, IInv, ActorsOK, HandsOK
  <2> QED
    BY <2>1, <2>2
<1>4. NotesOK'
  BY DEF Crash, Shutdown, Exit, Restart, kafka, IInv, NotesOK
<1>5. RowsOK' /\ LogsOK'
  BY DEF Crash, Shutdown, Exit, Restart, kafka, IInv, RowsOK, AttemptsAccounted, LogsOK
<1> QED
  BY <1>1, <1>2, <1>3, <1>4, <1>5 DEF IInv

LEMMA NextIInv == IInv /\ [Next]_vars => IInv'
<1> SUFFICES ASSUME IInv, [Next]_vars
             PROVE  IInv'
  OBVIOUS
<1>1. CASE UNCHANGED vars
  BY <1>1 DEF vars, IInv, RowsOK, AttemptsAccounted, LogsOK, ActorsOK, HandsOK,
              FaultsOK, GroupOK, NotesOK
<1>2. ASSUME NEW a \in Actors, Step(a)
      PROVE  IInv'
  BY <1>2, FetchStep, CommitStep, ClaimStep, RunStep, RecordRunsStep, CompleteStep,
     MarkFailureStep, PublishRetryStep, PublishDLQStep, ForwardStep DEF Step
<1> QED
  BY <1>1, <1>2, ApiSteps, GroupSteps, GarbageStep, LeaseSteps, ReclaimStep, ProcessSteps
     DEF Next

LEMMA Invariance == Spec => []IInv
BY InitIInv, NextIInv, PTL DEF Spec

--------------------------------------------------------------------------------
(* The theorems. *)

\* Every variable stays in its type whatever fails: no row is ever charged more
\* attempts than max_attempts, although ClaimJob does not compare the two.
THEOREM TypeCorrect == Spec => []TypeOK
BY Invariance, IInvMeaning, PTL

\* A row that can be claimed has an attempt left, and a row that failed has used
\* them all, under every fault: late writers, lost results, crashes.
THEOREM AttemptsCorrect == Spec => []AttemptsAccounted
BY Invariance, IInvMeaning, PTL

--------------------------------------------------------------------------------
(* Messages are of jobs that have a row. *)

Known == {j \in Jobs : row[j].status # "none"}

LogsKnown ==
    \A t \in Topics, k \in Partitions : \A i \in 1..Len(log[t][k]) :
        log[t][k][i] \in Known \cup {NoJob}
HandsKnown == \A a \in Actors : actor[a].job \in Known \cup {NoJob}
RequestsKnown == \A r \in Requests : req[r] \in {"publish", "202", "200"} => KeyOf[r] \in Known
MessagesKnown == LogsKnown /\ HandsKnown /\ RequestsKnown

\* Writing to a row that has a status makes none disappear.
LEMMA SetKnown ==
    ASSUME RowsOK, NEW j \in Jobs, NEW r, r.status # "none",
           Set(j, r) \/ SetOrNot(j, r) \/ UNCHANGED row
    PROVE  Known \subseteq Known'
<1>1. row' = row \/ row' = [row EXCEPT ![j] = r]
  BY DEF Set, SetOrNot
<1>2. \A i \in Jobs : row'[i] = row[i] \/ row'[i] = r
  BY <1>1 DEF RowsOK
<1> QED
  BY <1>2 DEF Known

\* No statement of the store takes a row's status away.
LEMMA KnownForever == IInv /\ [Next]_vars => Known \subseteq Known'
<1> SUFFICES ASSUME IInv, [Next]_vars
             PROVE  Known \subseteq Known'
  OBVIOUS
<1>1. CASE UNCHANGED row
  BY <1>1 DEF Known
<1>2. Queued.status # "none" /\ \A r \in RowType :
           /\ Claimed(r).status # "none" /\ Completed(r).status # "none"
           /\ \A c : GivenUp(r, c).status # "none"
  BY DEF Queued, NoRow, RowType, Claimed, Completed, GivenUp
<1>3. ASSUME NEW r \in Requests, Create(r)
      PROVE  Known \subseteq Known'
  <2>1. KeyOf[r] \in Jobs
    BY RequestsAssumption
  <2>2. Set(KeyOf[r], Queued) \/ SetOrNot(KeyOf[r], Queued) \/ UNCHANGED row
    BY <1>3 DEF Create
  <2> QED
    BY <1>2, <2>1, <2>2, SetKnown DEF IInv
<1>4. ASSUME NEW a \in Actors, Step(a), row' # row
      PROVE  Known \subseteq Known'
  <2> DEFINE j == actor[a].job
  <2>1. actor[a].pc \in {"claim", "complete", "mark"}
    BY <1>4 DEF Step, Fetch, Claim, Run, RecordRuns, Complete, MarkFailure, PublishRetry,
                PublishDLQ, Forward, Commit
  <2>2. j \in Jobs /\ row[j] \in RowType
    BY <2>1, WorkerHand
  <2>3. PICK r \in {Claimed(row[j]), Completed(row[j]), GivenUp(row[j], "run")} :
            Set(j, r) \/ SetOrNot(j, r)
    BY <1>4 DEF Step, Fetch, Claim, Run, RecordRuns, Complete, MarkFailure, PublishRetry,
                PublishDLQ, Forward, Commit
  <2>4. r.status # "none"
    BY <1>2, <2>2, <2>3
  <2> QED
    BY <2>2, <2>3, <2>4, SetKnown DEF IInv
<1>5. ASSUME NEW j \in Jobs, Elapse(j) \/ Stall(j)
      PROVE  Known \subseteq Known'
  <2> DEFINE older == [row[j] EXCEPT !.age = @ + 1]
  <2>1. row[j] \in RowType /\ row[j].status = "running" /\ Set(j, older)
    BY <1>5 DEF Elapse, Stall, IInv, RowsOK
  <2>2. older.status # "none"
    BY <2>1 DEF RowType
  <2> QED
    BY <2>1, <2>2, SetKnown DEF IInv
<1>6. CASE ReclaimStale
  <2>1. \A j \in Jobs : row'[j] = row[j] \/ row'[j] = GivenUp(row[j], "lease")
    BY <1>6 DEF ReclaimStale
  <2>2. \A j \in Jobs : row[j] \in RowType
    BY DEF IInv, RowsOK
  <2> QED
    BY <1>2, <2>1, <2>2 DEF Known
<1>7. CASE \/ \E r \in Requests : PublishJob(r) \/ ApiCrash(r)
           \/ \E t \in Topics : Rebalance(t) \/ Reshuffle(t)
           \/ \E k \in Partitions : Garbage(k)
           \/ \E p \in Procs : Crash(p) \/ Shutdown(p) \/ Exit(p) \/ Restart(p)
           \/ UNCHANGED vars
  BY <1>1, <1>7 DEF PublishJob, ApiCrash, Rebalance, Reshuffle, Assign, Garbage, Crash,
                    Shutdown, Exit, Restart, vars
<1> QED
  BY <1>1, <1>3, <1>4, <1>5, <1>6, <1>7 DEF Next

\* A message is sent of a job with a row.
LEMMA SendKnownJob ==
    ASSUME LogsOK, LogsKnown, NEW t \in Topics, NEW j \in Known, Known \subseteq Known',
           Published(t, j) \/ Unacked(t, j)
    PROVE  LogsKnown'
<1>1. PICK n \in {1, 2} : log' = log \/ log' = Sent(t, j, n)
  BY DEF Published, Unacked
<1>2. CASE log' = log
  BY <1>2 DEF LogsKnown
<1>3. CASE log' = Sent(t, j, n)
  <2> DEFINE k == PartOf[j]
             copies == [i \in 1..n |-> j]
             new == log[t][k] \o copies
  <2>1. k \in Partitions
    BY PartitionsAssumption DEF Known
  <2>2. log[t][k] \in Seq(Jobs \cup {NoJob}) /\ copies \in Seq(Jobs \cup {NoJob})
    BY <2>1 DEF LogsOK, Known
  <2>3. \A i \in 1..Len(new) : (i \in 1..Len(log[t][k]) /\ new[i] = log[t][k][i]) \/ new[i] = j
    BY <2>2
  <2>4. \A u \in Topics, l \in Partitions :
           log'[u][l] = log[u][l] \/ (u = t /\ l = k /\ log'[u][l] = new)
    BY <1>3, <2>1 DEF LogsOK, Sent
  <2> HIDE DEF new, k
  <2>5. ASSUME NEW u \in Topics, NEW l \in Partitions, NEW i \in 1..Len(log'[u][l])
        PROVE  log'[u][l][i] \in Known' \cup {NoJob}
    <3>1. CASE log'[u][l] = log[u][l]
      BY <3>1 DEF LogsKnown
    <3>2. CASE u = t /\ l = k /\ log'[u][l] = new
      BY <2>3, <3>2 DEF LogsKnown
    <3> QED
      BY <2>4, <3>1, <3>2
  <2> QED
    BY <2>5 DEF LogsKnown
<1> QED
  BY <1>1, <1>2, <1>3

\* A hand keeps its job, lets go of it, or takes one that has a row.
LEMMA TakeKnownJob ==
    ASSUME HandsKnown, Known \subseteq Known',
           \A a \in Actors : actor'[a].job \in {actor[a].job, NoJob} \cup Known
    PROVE  HandsKnown'
BY DEF HandsKnown

LEMMA MessagesStep == IInv /\ MessagesKnown /\ [Next]_vars => MessagesKnown'
<1> SUFFICES ASSUME IInv, MessagesKnown, [Next]_vars
             PROVE  MessagesKnown'
  OBVIOUS
<1>1. Known \subseteq Known'
  BY KnownForever
<1>2. actor \in [Actors -> ActorType] /\ LogsOK /\ LogsKnown /\ HandsKnown /\ RequestsKnown
  BY DEF IInv, ActorsOK, MessagesKnown
<1>3. UNCHANGED log => LogsKnown'
  BY <1>1, <1>2 DEF LogsKnown
<1>4. UNCHANGED actor => HandsKnown'
  BY <1>1, <1>2 DEF HandsKnown
<1>5. UNCHANGED req => RequestsKnown'
  BY <1>1, <1>2 DEF RequestsKnown
<1>6. ASSUME NEW r \in Requests, Create(r)
      PROVE  MessagesKnown'
  <2>1. UNCHANGED <<log, actor>>
    BY <1>6 DEF Create, kafka
  <2>2. KeyOf[r] \in Jobs
    BY RequestsAssumption
  <2>3. PICK x : req' = [req EXCEPT ![r] = x] /\ (x \in {"publish", "202", "200"} => KeyOf[r] \in Known')
    <3>1. CASE row[KeyOf[r]].status = "none" /\ Set(KeyOf[r], Queued) /\ req' = [req EXCEPT ![r] = "publish"]
      <4>1. row'[KeyOf[r]] = Queued
        BY <2>2, <3>1 DEF Set, IInv, RowsOK
      <4> QED
        BY <2>2, <3>1, <4>1 DEF Known, Queued, NoRow
    <3>2. CASE row[KeyOf[r]].status # "none" /\ req' = [req EXCEPT ![r] = "200"]
      BY <1>1, <2>2, <3>2 DEF Known
    <3>3. CASE req' = [req EXCEPT ![r] = "500"]
      <4>1. "500" \notin {"publish", "202", "200"}
        OBVIOUS
      <4> QED
        BY <3>3, <4>1
    <3> QED
      BY <1>6, <3>1, <3>2, <3>3 DEF Create
  <2>4. \A s \in Requests : req'[s] = req[s] \/ (s = r /\ req'[s] = x)
    BY <2>3 DEF IInv, NotesOK
  <2>5. RequestsKnown'
    BY <1>1, <1>2, <2>3, <2>4 DEF RequestsKnown
  <2> QED
    BY <1>3, <1>4, <2>1, <2>5 DEF MessagesKnown
<1>7. ASSUME NEW r \in Requests, PublishJob(r) \/ ApiCrash(r)
      PROVE  MessagesKnown'
  <2>1. UNCHANGED actor /\ req[r] = "publish"
    BY <1>7 DEF PublishJob, ApiCrash
  <2>2. KeyOf[r] \in Known
    BY <1>2, <2>1 DEF RequestsKnown
  <2>3. \A s \in Requests : req'[s] = req[s] \/ s = r
    BY <1>7 DEF PublishJob, ApiCrash, IInv, NotesOK
  <2>4. RequestsKnown'
    BY <1>1, <1>2, <2>2, <2>3 DEF RequestsKnown
  <2>5. LogsKnown'
    <3>1. Main \in Topics
      BY DEF Main, Topics
    <3> QED
      BY <1>1, <1>2, <1>3, <1>7, <2>2, <3>1, SendKnownJob DEF PublishJob, ApiCrash, kafka
  <2> QED
    BY <1>4, <2>1, <2>4, <2>5 DEF MessagesKnown
<1>8. ASSUME NEW a \in Actors, NEW k \in Partitions, Fetch(a, k)
      PROVE  MessagesKnown'
  <2> DEFINE t == TopicOf(a)
             j == log[t][k][pos[t][k] + 1]
  <2>1. UNCHANGED <<log, req>>
    BY <1>8 DEF Fetch
  <2>2. j \in Known \cup {NoJob}
    <3>1. t \in Topics /\ pos[t][k] \in Nat /\ pos[t][k] + 1 <= Len(log[t][k])
      BY <1>8, ActorParts DEF Fetch, IInv, GroupOK
    <3>2. log[t][k] \in Seq(Jobs \cup {NoJob})
      BY <1>2, <3>1 DEF LogsOK
    <3>3. pos[t][k] + 1 \in 1..Len(log[t][k])
      BY <3>1, <3>2
    <3> QED
      BY <1>2, <3>1, <3>3 DEF LogsKnown
  <2>3. \A b \in Actors : actor'[b].job \in {actor[b].job, NoJob} \cup Known
    <3>1. CASE UNCHANGED actor
      BY <3>1
    <3>2. CASE j # NoJob
      BY <1>2, <1>8, <2>2, <3>2 DEF Fetch
    <3> QED
      BY <1>8, <3>1, <3>2 DEF Fetch
  <2> QED
    BY <1>1, <1>2, <1>3, <1>5, <2>1, <2>3, TakeKnownJob DEF MessagesKnown
<1>9. ASSUME NEW a \in Actors,
             \/ Claim(a) \/ Run(a) \/ RecordRuns(a) \/ Complete(a) \/ MarkFailure(a)
             \/ PublishRetry(a) \/ PublishDLQ(a) \/ Forward(a) \/ Commit(a)
      PROVE  MessagesKnown'
  <2>1. UNCHANGED req
    BY <1>9 DEF Claim, Run, RecordRuns, Complete, MarkFailure, PublishRetry, PublishDLQ, Forward,
                Commit
  <2>2. HandsKnown'
    <3>1. \/ \E x : Goto(a, x)
          \/ \E n : actor' = [actor EXCEPT ![a].pc = "run", ![a].att = n]
          \/ actor' = [actor EXCEPT ![a] = Idle]
      BY <1>9 DEF Claim, Run, RecordRuns, Complete, MarkFailure, PublishRetry, PublishDLQ, Forward,
                  Commit
    <3>2. Idle.job = NoJob
      BY DEF Idle
    <3>3. \A b \in Actors : actor'[b].job \in {actor[b].job, NoJob}
      BY <1>2, <3>1, <3>2 DEF Goto, ActorType
    <3> QED
      BY <1>1, <1>2, <3>3, TakeKnownJob
  <2>3. LogsKnown'
    <3>1. CASE PublishRetry(a) \/ Forward(a)
      <4>1. actor[a].job \in Jobs /\ Main \in Topics
            /\ (actor[a].pc = "retry" => actor[a].att \in Topics)
        BY <3>1 DEF PublishRetry, Forward, IInv, ActorsOK, HandsOK, Main, Topics
      <4>2. actor[a].job \in Known
        BY <1>2, <4>1, JobsAssumption DEF HandsKnown
      <4>3. \E t \in Topics : Published(t, actor[a].job) \/ Unacked(t, actor[a].job)
        BY <3>1, <4>1 DEF PublishRetry, Forward
      <4> QED
        BY <1>1, <1>2, <4>2, <4>3, SendKnownJob
    <3>2. CASE ~ (PublishRetry(a) \/ Forward(a))
      BY <1>3, <1>9, <3>2 DEF Claim, Run, RecordRuns, Complete, MarkFailure, PublishDLQ, Commit, kafka
    <3> QED
      BY <3>1, <3>2
  <2> QED
    BY <1>5, <2>1, <2>2, <2>3 DEF MessagesKnown
<1>10. ASSUME NEW k \in Partitions, Garbage(k)
       PROVE  MessagesKnown'
  <2>1. UNCHANGED <<actor, req>> /\ Main \in Topics
    BY <1>10 DEF Garbage, Main, Topics
  <2>2. \A u \in Topics, l \in Partitions :
           log'[u][l] = log[u][l] \/ log'[u][l] = Append(log[u][l], NoJob)
    BY <1>2, <1>10, <2>1 DEF Garbage, LogsOK
  <2>3. ASSUME NEW u \in Topics, NEW l \in Partitions, NEW i \in 1..Len(log'[u][l])
        PROVE  log'[u][l][i] \in Known' \cup {NoJob}
    <3>1. log[u][l] \in Seq(Jobs \cup {NoJob})
      BY <1>2 DEF LogsOK
    <3>2. (i \in 1..Len(log[u][l]) /\ log'[u][l][i] = log[u][l][i]) \/ log'[u][l][i] = NoJob
      BY <2>2, <3>1
    <3> QED
      BY <1>1, <1>2, <3>2 DEF LogsKnown
  <2> QED
    BY <1>4, <1>5, <2>1, <2>3 DEF MessagesKnown, LogsKnown
<1>11. ASSUME NEW p \in Procs, Crash(p)
       PROVE  MessagesKnown'
  <2>1. UNCHANGED <<log, req>>
    BY <1>11 DEF Crash
  <2>2. \A b \in Actors : actor'[b].job \in {actor[b].job, NoJob}
    BY <1>11 DEF Crash, Idle
  <2> QED
    BY <1>1, <1>2, <1>3, <1>5, <2>1, <2>2, TakeKnownJob DEF MessagesKnown
<1>12. CASE \/ \E t \in Topics : Rebalance(t) \/ Reshuffle(t)
            \/ \E j \in Jobs : Elapse(j) \/ Stall(j)
            \/ ReclaimStale
            \/ \E p \in Procs : Shutdown(p) \/ Exit(p) \/ Restart(p)
            \/ UNCHANGED vars
  <2>1. UNCHANGED <<log, actor, req>>
    BY <1>12 DEF Rebalance, Reshuffle, Assign, Elapse, Stall, ReclaimStale, Shutdown, Exit,
                 Restart, kafka, vars
  <2> QED
    BY <1>3, <1>4, <1>5, <2>1 DEF MessagesKnown
<1> QED
  BY <1>6, <1>7, <1>8, <1>9, <1>10, <1>11, <1>12 DEF Next, Step

\* No message and no worker ever names a job without a row, whatever fails: the message
\* is published after CreateJob returned the row, and rows are never deleted
\* (main.go, "message references an unknown job").
THEOREM MessagesHaveRows == Spec => []MessageHasRow
<1>1. Init => MessagesKnown
  <2>1. SUFFICES ASSUME Init
                 PROVE  MessagesKnown
    OBVIOUS
  <2>2. \A t \in Topics, k \in Partitions : Len(log[t][k]) = 0
    BY <2>1 DEF Init
  <2>3. \A a \in Actors : actor[a].job = NoJob
    BY <2>1 DEF Init, Idle
  <2> QED
    BY <2>1, <2>2, <2>3 DEF Init, MessagesKnown, LogsKnown, HandsKnown, RequestsKnown
<1>2. MessagesKnown => MessageHasRow
  BY DEF MessagesKnown, LogsKnown, HandsKnown, RequestsKnown, Known, MessageHasRow
<1> QED
  BY <1>1, <1>2, MessagesStep, Invariance, PTL DEF Spec

--------------------------------------------------------------------------------
(* The history of a job is paid for. *)

\* The workers that have claimed j and may still record a run of it.
Recording(j) == {a \in Consumers : actor[a].job = j /\ actor[a].pc \in {"run", "record"}}

\* Each attempt charged is one that was recorded, is in a hand, or came to nothing.
HistoryPaid ==
    \A j \in Jobs :
        /\ row[j].status = "none" => row[j].attempts = 0
        /\ IsFiniteSet(Recording(j)) /\ runs[j] + Cardinality(Recording(j)) <= row[j].attempts

RowsPaid(before, after) ==
    \A j \in Jobs : /\ after[j].attempts >= before[j].attempts
                    /\ after[j].status = "none" => after[j].attempts = 0

\* Attempts are never taken back.
LEMMA AttemptsGrow == IInv /\ HistoryPaid /\ [Next]_vars => RowsPaid(row, row')
<1> SUFFICES ASSUME IInv, HistoryPaid, [Next]_vars
             PROVE  RowsPaid(row, row')
  OBVIOUS
<1>1. row \in [Jobs -> RowType] /\ \A j \in Jobs : row[j] \in RowType /\ row[j].attempts \in Nat
  BY LimitPositive DEF IInv, RowsOK, RowType
<1>2. UNCHANGED row => RowsPaid(row, row')
  BY <1>1 DEF RowsPaid, HistoryPaid
<1>3. ASSUME NEW j \in Jobs, NEW r, r.status # "none", r.attempts >= row[j].attempts,
             Set(j, r) \/ SetOrNot(j, r)
      PROVE  RowsPaid(row, row')
  <2>1. \A i \in Jobs : row'[i] = row[i] \/ (i = j /\ row'[i] = r)
    BY <1>1, <1>3 DEF Set, SetOrNot
  <2> QED
    BY <1>1, <1>3, <2>1 DEF RowsPaid, HistoryPaid
<1>4. \A r \in RowType :
           /\ Claimed(r).status # "none" /\ Claimed(r).attempts = r.attempts + 1
           /\ Completed(r).status # "none" /\ Completed(r).attempts = r.attempts
           /\ \A c : GivenUp(r, c).status # "none" /\ GivenUp(r, c).attempts = r.attempts
  BY DEF RowType, Claimed, Completed, GivenUp
<1>5. ASSUME NEW r \in Requests, Create(r)
      PROVE  RowsPaid(row, row')
  <2>1. KeyOf[r] \in Jobs
    BY RequestsAssumption
  <2>2. CASE row[KeyOf[r]].status = "none" /\ (Set(KeyOf[r], Queued) \/ SetOrNot(KeyOf[r], Queued))
    <3>1. Queued.status # "none" /\ Queued.attempts = 0 /\ row[KeyOf[r]].attempts = 0
      BY <2>1, <2>2 DEF Queued, NoRow, HistoryPaid
    <3> QED
      BY <1>3, <2>1, <2>2, <3>1
  <2> QED
    BY <1>2, <1>5, <2>2 DEF Create
<1>6. ASSUME NEW a \in Actors, Step(a), row' # row
      PROVE  RowsPaid(row, row')
  <2> DEFINE j == actor[a].job
  <2>1. actor[a].pc \in {"claim", "complete", "mark"}
    BY <1>6 DEF Step, Fetch, Claim, Run, RecordRuns, Complete, MarkFailure, PublishRetry,
                PublishDLQ, Forward, Commit
  <2>2. j \in Jobs /\ row[j] \in RowType /\ row[j].attempts \in Nat
    BY <1>1, <2>1, WorkerHand
  <2>3. PICK r \in {Claimed(row[j]), Completed(row[j]), GivenUp(row[j], "run")} :
            Set(j, r) \/ SetOrNot(j, r)
    BY <1>6 DEF Step, Fetch, Claim, Run, RecordRuns, Complete, MarkFailure, PublishRetry,
                PublishDLQ, Forward, Commit
  <2>4. r.status # "none" /\ r.attempts >= row[j].attempts
    BY <1>4, <2>2, <2>3
  <2> QED
    BY <1>3, <2>2, <2>3, <2>4
<1>7. ASSUME NEW j \in Jobs, Elapse(j) \/ Stall(j)
      PROVE  RowsPaid(row, row')
  <2> DEFINE older == [row[j] EXCEPT !.age = @ + 1]
  <2>1. row[j] \in RowType /\ row[j].status = "running" /\ Set(j, older)
    BY <1>1, <1>7 DEF Elapse, Stall
  <2>2. older.status # "none" /\ older.attempts = row[j].attempts
    BY <2>1 DEF RowType
  <2> HIDE DEF older
  <2>3. older.attempts >= row[j].attempts
    BY <1>1, <2>2
  <2> QED
    BY <1>3, <2>1, <2>2, <2>3
<1>8. CASE ReclaimStale
  <2>1. \A j \in Jobs : row'[j] = row[j] \/ row'[j] = GivenUp(row[j], "lease")
    BY <1>8 DEF ReclaimStale
  <2>2. ASSUME NEW j \in Jobs
        PROVE  /\ row'[j].attempts >= row[j].attempts
               /\ row'[j].status = "none" => row'[j].attempts = 0
    <3>1. row'[j] = row[j] \/ (row'[j].attempts = row[j].attempts /\ row'[j].status # "none")
      BY <1>1, <1>4, <2>1
    <3> QED
      BY <1>1, <3>1 DEF HistoryPaid
  <2> QED
    BY <2>2 DEF RowsPaid
<1>9. CASE \/ \E r \in Requests : PublishJob(r) \/ ApiCrash(r)
           \/ \E t \in Topics : Rebalance(t) \/ Reshuffle(t)
           \/ \E k \in Partitions : Garbage(k)
           \/ \E p \in Procs : Crash(p) \/ Shutdown(p) \/ Exit(p) \/ Restart(p)
           \/ UNCHANGED vars
  <2>1. UNCHANGED row
    BY <1>9 DEF PublishJob, ApiCrash, Rebalance, Reshuffle, Assign, Garbage, Crash,
                Shutdown, Exit, Restart, vars
  <2> QED
    BY <1>2, <2>1
<1> QED
  BY <1>2, <1>5, <1>6, <1>7, <1>8, <1>9 DEF Next

\* Hands that let go of a job make the sum smaller.
LEMMA FewerRecording ==
    ASSUME IInv, HistoryPaid, NEW j \in Jobs, Recording(j)' \subseteq Recording(j),
           row'[j].attempts \in Nat, row'[j].attempts >= row[j].attempts, runs'[j] = runs[j]
    PROVE  IsFiniteSet(Recording(j)') /\ runs'[j] + Cardinality(Recording(j)') <= row'[j].attempts
<1>1. IsFiniteSet(Recording(j)) /\ runs[j] + Cardinality(Recording(j)) <= row[j].attempts
  BY DEF HistoryPaid
<1>2. runs[j] \in Nat /\ row[j].attempts \in Nat
  BY LimitPositive DEF IInv, NotesOK, RowsOK, RowType
<1>3. IsFiniteSet(Recording(j)') /\ Cardinality(Recording(j)') <= Cardinality(Recording(j))
  BY <1>1, FS_Subset
<1>4. Cardinality(Recording(j)) \in Nat /\ Cardinality(Recording(j)') \in Nat
  BY <1>1, <1>3, FS_CardinalityType
<1> QED
  BY <1>1, <1>2, <1>3, <1>4

LEMMA HistoryStep == IInv /\ HistoryPaid /\ [Next]_vars => HistoryPaid'
<1> SUFFICES ASSUME IInv, HistoryPaid, [Next]_vars, NEW j \in Jobs
             PROVE  /\ row'[j].status = "none" => row'[j].attempts = 0
                    /\ IsFiniteSet(Recording(j)')
                    /\ runs'[j] + Cardinality(Recording(j)') <= row'[j].attempts
  BY DEF HistoryPaid
<1>1. /\ row'[j].attempts >= row[j].attempts
      /\ row'[j].status = "none" => row'[j].attempts = 0
  BY AttemptsGrow DEF RowsPaid
<1>2. row[j].attempts \in Nat /\ row'[j].attempts \in Nat /\ runs[j] \in Nat
  <2>1. IInv'
    BY NextIInv
  <2> QED
    BY <2>1, LimitPositive DEF IInv, RowsOK, RowType, NotesOK
<1>3. /\ IsFiniteSet(Recording(j)) /\ Cardinality(Recording(j)) \in Nat
      /\ runs[j] + Cardinality(Recording(j)) <= row[j].attempts
  BY FS_CardinalityType DEF HistoryPaid
<1>4. actor \in [Actors -> ActorType] /\ Consumers \subseteq Actors
  BY DEF IInv, ActorsOK, Actors
<1>5. Recording(j)' \subseteq Recording(j) /\ UNCHANGED runs =>
          IsFiniteSet(Recording(j)') /\ runs'[j] + Cardinality(Recording(j)') <= row'[j].attempts
  BY <1>1, <1>2, FewerRecording
<1>6. UNCHANGED <<actor, runs>> => Recording(j)' \subseteq Recording(j) /\ UNCHANGED runs
  BY DEF Recording
<1>7. ASSUME NEW a \in Actors, Claim(a)
      PROVE  IsFiniteSet(Recording(j)') /\ runs'[j] + Cardinality(Recording(j)') <= row'[j].attempts
  <2>1. actor[a].pc = "claim" /\ UNCHANGED runs
    BY <1>7 DEF Claim
  <2>2. CASE Goto(a, "commit")
    BY <1>4, <1>5, <2>1, <2>2 DEF Goto, Recording, ActorType
  <2>3. CASE /\ CanClaim(row[actor[a].job]) /\ Set(actor[a].job, Claimed(row[actor[a].job]))
             /\ actor' = [actor EXCEPT ![a].pc = "run", ![a].att = Claimed(row[actor[a].job]).attempts]
    <3>1. \A b \in Actors : actor'[b].job = actor[b].job /\ (b # a => actor'[b].pc = actor[b].pc)
      BY <1>4, <2>3 DEF ActorType
    <3>2. CASE actor[a].job # j
      BY <1>4, <1>5, <2>1, <3>1, <3>2 DEF Recording
    <3>3. CASE actor[a].job = j
      <4>1. row'[j].attempts = row[j].attempts + 1
        BY <2>3, <3>3 DEF Set, Claimed, IInv, RowsOK, RowType
      <4>2. Recording(j)' \subseteq Recording(j) \cup {a}
        BY <1>4, <3>1 DEF Recording
      <4>3. /\ IsFiniteSet(Recording(j) \cup {a})
            /\ Cardinality(Recording(j) \cup {a}) <= Cardinality(Recording(j)) + 1
            /\ Cardinality(Recording(j) \cup {a}) \in Nat
        <5>1. /\ IsFiniteSet(Recording(j) \cup {a})
              /\ \/ Cardinality(Recording(j) \cup {a}) = Cardinality(Recording(j))
                 \/ Cardinality(Recording(j) \cup {a}) = Cardinality(Recording(j)) + 1
          BY <1>3, FS_AddElement
        <5> QED
          BY <1>3, <5>1
      <4>4. /\ IsFiniteSet(Recording(j)') /\ Cardinality(Recording(j)') \in Nat
            /\ Cardinality(Recording(j)') <= Cardinality(Recording(j) \cup {a})
        BY <4>2, <4>3, FS_Subset, FS_CardinalityType
      <4> QED
        BY <1>2, <1>3, <2>1, <4>1, <4>3, <4>4
    <3> QED
      BY <3>2, <3>3
  <2> QED
    BY <1>7, <2>2, <2>3 DEF Claim
<1>8. ASSUME NEW a \in Actors, RecordRuns(a)
      PROVE  IsFiniteSet(Recording(j)') /\ runs'[j] + Cardinality(Recording(j)') <= row'[j].attempts
  <2>1. /\ actor[a].pc = "record" /\ Goto(a, "complete") /\ UNCHANGED row
        /\ runs' = runs \/ runs' = [runs EXCEPT ![actor[a].job] = @ + 1]
    BY <1>8 DEF RecordRuns
  <2>2. a \in Consumers
    BY <2>1, WorkerHand
  <2>3. \A b \in Actors : /\ actor'[b].job = actor[b].job /\ (b # a => actor'[b].pc = actor[b].pc)
                          /\ actor'[a].pc = "complete"
    BY <1>4, <2>1 DEF Goto, ActorType
  <2>4. Recording(j)' \subseteq Recording(j) \ {a}
    BY <1>4, <2>3 DEF Recording
  <2>5. CASE runs'[j] = runs[j]
    BY <1>1, <1>2, <2>4, <2>5, FewerRecording
  <2>6. CASE actor[a].job = j /\ runs'[j] = runs[j] + 1
    <3>1. a \in Recording(j)
      BY <2>1, <2>2, <2>6 DEF Recording
    <3>2. /\ IsFiniteSet(Recording(j) \ {a})
          /\ Cardinality(Recording(j) \ {a}) = Cardinality(Recording(j)) - 1
      BY <1>3, <3>1, FS_RemoveElement
    <3>3. /\ IsFiniteSet(Recording(j)') /\ Cardinality(Recording(j)') \in Nat
          /\ Cardinality(Recording(j)') <= Cardinality(Recording(j)) - 1
      BY <2>4, <3>2, FS_Subset, FS_CardinalityType
    <3> QED
      BY <1>2, <1>3, <2>1, <2>6, <3>3
  <2> QED
    BY <2>1, <2>5, <2>6 DEF IInv, NotesOK
<1>9. ASSUME NEW a \in Actors,
             \/ Run(a) \/ Complete(a) \/ MarkFailure(a) \/ PublishRetry(a) \/ PublishDLQ(a)
             \/ Forward(a) \/ Commit(a) \/ \E k \in Partitions : Fetch(a, k)
      PROVE  Recording(j)' \subseteq Recording(j) /\ UNCHANGED runs
  <2>1. UNCHANGED runs
    BY <1>9 DEF Run, Complete, MarkFailure, PublishRetry, PublishDLQ, Forward, Commit, Fetch
  <2>2. CASE UNCHANGED actor
    BY <2>1, <2>2 DEF Recording
  <2>3. CASE \E h : actor' = [actor EXCEPT ![a] = h] /\ h.pc \in {"idle", "claim", "forward"}
    BY <1>4, <2>1, <2>3 DEF Recording
  <2>4. CASE \E x \in PCs : /\ Goto(a, x)
                            /\ x \in {"run", "record"} => actor[a].pc \in {"run", "record"}
    BY <1>4, <2>1, <2>4 DEF Goto, Recording, ActorType
  <2>5. CASE \E k \in Partitions : Fetch(a, k)
    BY <2>2, <2>3, <2>5 DEF Fetch
  <2>6. CASE ~ \E k \in Partitions : Fetch(a, k)
    <3>1. Idle.pc = "idle"
      BY DEF Idle
    <3> QED
      BY <1>9, <2>3, <2>4, <2>6, <3>1
         DEF Run, Complete, MarkFailure, PublishRetry, PublishDLQ, Forward, Commit, PCs
  <2> QED
    BY <2>1, <2>5, <2>6
<1>10. ASSUME NEW p \in Procs, Crash(p)
       PROVE  Recording(j)' \subseteq Recording(j) /\ UNCHANGED runs
  BY <1>4, <1>10 DEF Crash, Idle, Recording
<1>11. CASE \/ \E r \in Requests : Create(r) \/ PublishJob(r) \/ ApiCrash(r)
            \/ \E t \in Topics : Rebalance(t) \/ Reshuffle(t)
            \/ \E k \in Partitions : Garbage(k)
            \/ \E i \in Jobs : Elapse(i) \/ Stall(i)
            \/ ReclaimStale
            \/ \E p \in Procs : Shutdown(p) \/ Exit(p) \/ Restart(p)
            \/ UNCHANGED vars
  <2>1. UNCHANGED <<actor, runs>>
    BY <1>11 DEF Create, PublishJob, ApiCrash, Rebalance, Reshuffle, Assign, Garbage, Elapse,
                 Stall, ReclaimStale, Shutdown, Exit, Restart, kafka, vars
  <2> QED
    BY <1>1, <1>5, <1>6, <2>1
<1> QED
  BY <1>1, <1>5, <1>6, <1>7, <1>8, <1>9, <1>10, <1>11 DEF Next, Step

\* A job adds at most one baseline to the history per attempt it was charged for, however
\* many workers claimed it and however late they record (main.go, recordRuns).
THEOREM HistoryIsPaid == Spec => []HistoryBounded
<1>1. Init => HistoryPaid
  <2>1. SUFFICES ASSUME Init, NEW j \in Jobs
                 PROVE  /\ row[j].attempts = 0 /\ runs[j] = 0 /\ IsFiniteSet(Recording(j))
                        /\ Cardinality(Recording(j)) = 0
    BY DEF HistoryPaid
  <2>2. Recording(j) = {}
    BY <2>1 DEF Init, Idle, Recording, Actors
  <2> QED
    BY <2>1, <2>2, FS_EmptySet DEF Init, NoRow
<1>2. ASSUME IInv, HistoryPaid, NEW j \in Jobs
      PROVE  runs[j] <= row[j].attempts
  <2>1. /\ IsFiniteSet(Recording(j)) /\ Cardinality(Recording(j)) \in Nat
        /\ runs[j] + Cardinality(Recording(j)) <= row[j].attempts
    BY <1>2, FS_CardinalityType DEF HistoryPaid
  <2>2. runs[j] \in Nat /\ row[j].attempts \in Nat
    BY <1>2, LimitPositive DEF IInv, NotesOK, RowsOK, RowType
  <2> QED
    BY <2>1, <2>2
<1>3. IInv /\ HistoryPaid => HistoryBounded
  BY <1>2 DEF HistoryBounded
<1> QED
  BY <1>1, <1>3, HistoryStep, Invariance, PTL DEF Spec

--------------------------------------------------------------------------------
(* One worker at a time. *)

\* A lease does not expire while a worker holds the job: only a stall makes the
\* row of a held job older than one JobTimeout.
HeldIsFresh == \A j \in Jobs : Held(j) => row[j].age < LeaseUnits

EInv == ExclusiveRun /\ HeldIsFresh /\ ReportIffSucceeded

LEMMA InitEInv == Init => EInv
BY DEF Init, EInv, ExclusiveRun, HeldIsFresh, ReportIffSucceeded, Held, Holds,
       HoldingPCs, Idle, NoRow, LeaseUnits, Actors, Consumers

\* No worker holds a job whose row is not running.
LEMMA NotRunningNotHeld ==
    ASSUME EInv, NEW j \in Jobs, row[j].status # "running"
    PROVE  ~ Held(j)
BY DEF EInv, ExclusiveRun, Held

\* A step in which no row changes and no worker comes to hold another job.
LEMMA HandsOff ==
    ASSUME EInv, UNCHANGED row,
           \A a \in Consumers, j \in Jobs :
              (Holds(a, j))' => Holds(a, j) /\ actor'[a].att = actor[a].att
    PROVE  EInv'
BY DEF EInv, ExclusiveRun, HeldIsFresh, ReportIffSucceeded, Held

\* A step that changes the row of a job nobody holds after it, and lets nobody
\* hold another job.
LEMMA RowOfUnheld ==
    ASSUME EInv, NEW j \in Jobs, NEW r \in RowType,
           row \in [Jobs -> RowType],
           row' = row \/ row' = [row EXCEPT ![j] = r],
           r.report = "stored" <=> r.status = "succeeded",
           ~ (Held(j))',
           \A a \in Consumers, i \in Jobs :
              (Holds(a, i))' => Holds(a, i) /\ actor'[a].att = actor[a].att
    PROVE  EInv'
<1>1. \A i \in Jobs \ {j} : row'[i] = row[i]
  OBVIOUS
<1>2. ExclusiveRun'
  BY <1>1 DEF EInv, ExclusiveRun, Held
<1>3. HeldIsFresh'
  BY <1>1 DEF EInv, HeldIsFresh, Held
<1>4. ReportIffSucceeded'
  BY <1>1 DEF EInv, ReportIffSucceeded
<1> QED
  BY <1>2, <1>3, <1>4 DEF EInv

\* What a goroutine holds after it moved on to pc x.
LEMMA GotoHolds ==
    ASSUME ActorsOK, NEW a \in Actors, NEW x, Goto(a, x)
    PROVE  /\ actor'[a].pc = x /\ actor'[a].job = actor[a].job /\ actor'[a].att = actor[a].att
           /\ \A b \in Actors : b # a => actor'[b] = actor[b]
BY DEF Goto, ActorsOK, ActorType

--------------------------------------------------------------------------------
(* Every step keeps it. *)

NoStalls == "stall" \notin Faults

LEMMA CreateExclusive ==
    ASSUME IInv, EInv, NEW r \in Requests, Create(r)
    PROVE  EInv'
<1> DEFINE j == KeyOf[r]
<1>1. j \in Jobs /\ actor' = actor
  BY RequestsAssumption DEF Create
<1>2. \A a \in Consumers, i \in Jobs : (Holds(a, i))' <=> Holds(a, i)
  BY <1>1 DEF Holds
<1>3. CASE row[j].status = "none"
  <2>1. ~ (Held(j))'
    BY <1>1, <1>2, <1>3, NotRunningNotHeld DEF Held
  <2>2. row' = row \/ row' = [row EXCEPT ![j] = Queued]
    BY <1>3 DEF Create, Set, SetOrNot
  <2>3. Queued.report = "stored" <=> Queued.status = "succeeded"
    BY DEF Queued, NoRow
  <2> QED
    BY <1>1, <1>2, <2>1, <2>2, <2>3, RowOfUnheld, QueuedRow DEF IInv, RowsOK
<1>4. CASE row[j].status # "none"
  BY <1>1, <1>2, <1>4, HandsOff DEF Create
<1> QED
  BY <1>3, <1>4

LEMMA ClaimExclusive ==
    ASSUME IInv, EInv, NEW a \in Actors, Claim(a)
    PROVE  EInv'
<1>0. PICK j \in Jobs : j = actor[a].job
  BY WorkerHand DEF Claim
<1> DEFINE claimed == Claimed(row[j])
<1>1. a \in Consumers /\ row[j] \in RowType /\ Accounted(row[j])
  BY <1>0, WorkerHand DEF Claim
<1>2. \A i \in Jobs : ~ Holds(a, i)
  BY DEF Claim, Holds, HoldingPCs
<1>3. CASE Goto(a, "commit")
  <2>1. \A b \in Consumers, i \in Jobs :
           (Holds(b, i))' => Holds(b, i) /\ actor'[b].att = actor[b].att
    BY <1>3, GotoHolds DEF IInv, Holds, HoldingPCs, Actors
  <2>2. CASE row' = row
    BY <2>1, <2>2, HandsOff
  <2>3. CASE row' # row
    <3>1. CanClaim(row[j]) /\ row' = [row EXCEPT ![j] = claimed]
      BY <1>0, <1>3, <2>3 DEF Claim, Set, SetOrNot
    <3>2. ~ (Held(j))'
      <4>1. ~ Held(j)
        BY <1>1, <3>1, NotRunningNotHeld DEF CanClaim
      <4> QED
        BY <1>1, <2>1, <4>1 DEF Held
    <3>3. claimed.report = "stored" <=> claimed.status = "succeeded"
      BY <1>1, <3>1 DEF Claimed, CanClaim, RowType, EInv, ReportIffSucceeded
    <3>4. claimed \in RowType /\ row \in [Jobs -> RowType]
      BY <1>1, <3>1, ClaimedRow DEF IInv, RowsOK
    <3> HIDE DEF claimed
    <3> QED
      BY <1>1, <2>1, <3>1, <3>2, <3>3, <3>4, RowOfUnheld
  <2> QED
    BY <2>2, <2>3
<1>4. CASE /\ CanClaim(row[j])
           /\ row' = [row EXCEPT ![j] = claimed]
           /\ actor' = [actor EXCEPT ![a].pc = "run", ![a].att = claimed.attempts]
  <2>1. ~ Held(j)
    BY <1>1, <1>4, NotRunningNotHeld DEF CanClaim
  <2>2. /\ actor'[a].pc = "run" /\ actor'[a].job = j /\ actor'[a].att = claimed.attempts
        /\ \A b \in Consumers : b # a => actor'[b] = actor[b]
    BY <1>0, <1>1, <1>4 DEF IInv, ActorsOK, ActorType, Actors
  <2>3. \A b \in Consumers, i \in Jobs : (Holds(b, i))' <=> Holds(b, i) \/ (b = a /\ i = j)
    BY <1>2, <2>2 DEF Holds, HoldingPCs
  <2>4. claimed.status = "running" /\ claimed.age = 0 /\ claimed.report = row[j].report
    BY <1>1 DEF Claimed, RowType
  <2>5. row'[j] = claimed /\ \A i \in Jobs \ {j} : row'[i] = row[i]
    BY <1>1, <1>4 DEF IInv, RowsOK
  <2>6. ExclusiveRun'
    <3> SUFFICES ASSUME NEW b \in Consumers, NEW i \in Jobs, (Holds(b, i))'
                 PROVE  /\ row'[i].status = "running"
                        /\ row'[i].attempts = actor'[b].att
                        /\ \A c \in Consumers : (Holds(c, i))' => c = b
      BY DEF ExclusiveRun
    <3>1. CASE i = j
      BY <1>1, <2>1, <2>2, <2>3, <2>4, <2>5, <3>1 DEF Held
    <3>2. CASE i # j
      <4>1. Holds(b, i) /\ b # a
        BY <1>2, <2>3, <3>2
      <4> QED
        BY <2>2, <2>3, <2>5, <3>2, <4>1 DEF EInv, ExclusiveRun
    <3> QED
      BY <3>1, <3>2
  <2>7. HeldIsFresh'
    BY <2>3, <2>4, <2>5 DEF EInv, HeldIsFresh, Held, LeaseUnits
  <2>8. ReportIffSucceeded'
    BY <1>4, <2>4, <2>5 DEF EInv, ReportIffSucceeded, CanClaim
  <2> QED
    BY <2>6, <2>7, <2>8 DEF EInv
<1> QED
  BY <1>0, <1>3, <1>4 DEF Claim, Set

\* A worker writes the row of its job for the last time and lets go of it.
LEMMA LettingGo ==
    ASSUME IInv, EInv, NEW a \in Consumers, NEW j \in Jobs, Holds(a, j),
           NEW r \in RowType, r.report = "stored" <=> r.status = "succeeded",
           row' = row \/ row' = [row EXCEPT ![j] = r],
           NEW x, x \notin HoldingPCs, Goto(a, x)
    PROVE  EInv'
<1>1. /\ actor'[a].pc = x
      /\ \A b \in Consumers : b # a => actor'[b] = actor[b]
  BY GotoHolds DEF IInv, Actors
<1>2. \A b \in Consumers, i \in Jobs :
         (Holds(b, i))' => b # a /\ Holds(b, i) /\ actor'[b].att = actor[b].att
  BY <1>1 DEF Holds
<1>3. ~ (Held(j))'
  BY <1>2 DEF EInv, ExclusiveRun, Held
<1> QED
  BY <1>2, <1>3, RowOfUnheld DEF IInv, RowsOK

LEMMA CompleteExclusive ==
    ASSUME IInv, EInv, NEW a \in Actors, Complete(a)
    PROVE  EInv'
<1>1. PICK j \in Jobs : j = actor[a].job /\ a \in Consumers
  BY WorkerHand DEF Complete
<1> DEFINE r == Completed(row[j])
<1>2. Holds(a, j)
  BY <1>1 DEF Complete, Holds, HoldingPCs
<1>3. r \in RowType
  BY <1>1, CompletedRow DEF IInv, RowsOK
<1>4. r.report = "stored" <=> r.status = "succeeded"
  BY <1>1 DEF Completed, IInv, RowsOK, RowType
<1>5. row' = row \/ row' = [row EXCEPT ![j] = r]
  BY <1>1 DEF Complete, Set, SetOrNot
<1>6. Goto(a, "commit") /\ "commit" \notin HoldingPCs
  BY DEF Complete, HoldingPCs
<1> HIDE DEF r
<1> QED
  BY <1>1, <1>2, <1>3, <1>4, <1>5, <1>6, LettingGo

LEMMA MarkFailureExclusive ==
    ASSUME IInv, EInv, NEW a \in Actors, MarkFailure(a)
    PROVE  EInv'
<1>1. PICK j \in Jobs : j = actor[a].job /\ a \in Consumers
  BY WorkerHand DEF MarkFailure
<1> DEFINE r == GivenUp(row[j], "run")
<1>2. Holds(a, j)
  BY <1>1 DEF MarkFailure, Holds, HoldingPCs
<1>3. row[j].status = "running" /\ row[j].report # "stored" /\ row[j] \in RowType
  BY <1>1, <1>2 DEF EInv, ExclusiveRun, ReportIffSucceeded, IInv, RowsOK
<1>4. r \in RowType
  BY <1>3, GivenUpRow
<1>5. r.report = "stored" <=> r.status = "succeeded"
  BY <1>3 DEF GivenUp, RowType
<1>6. row' = row \/ row' = [row EXCEPT ![j] = r]
  BY <1>1 DEF MarkFailure, Set, SetOrNot
<1>7. PICK x \in {"retry", "dlq"} : Goto(a, x)
  BY DEF MarkFailure
<1>8. x \notin HoldingPCs
  BY DEF HoldingPCs
<1> HIDE DEF r
<1> QED
  BY <1>1, <1>2, <1>4, <1>5, <1>6, <1>7, <1>8, LettingGo

\* Running and recording keep hold of the job; everything else a goroutine does
\* happens while it holds none.
LEMMA HandExclusive ==
    ASSUME IInv, EInv, NEW a \in Actors,
           \/ \E k \in Partitions : Fetch(a, k)
           \/ Run(a) \/ RecordRuns(a) \/ PublishRetry(a) \/ PublishDLQ(a)
           \/ Forward(a) \/ Commit(a)
    PROVE  EInv'
<1>1. row' = row
  BY DEF Fetch, Run, RecordRuns, PublishRetry, PublishDLQ, Forward, Commit
<1>2. CASE Run(a) \/ RecordRuns(a)
  <2>1. PICK x \in {"record", "mark", "complete"} : Goto(a, x)
    BY <1>2 DEF Run, RecordRuns
  <2>2. actor[a].pc \in {"run", "record"}
    BY <1>2 DEF Run, RecordRuns
  <2> QED
    BY <1>1, <2>1, <2>2, GotoHolds, HandsOff DEF IInv, Holds, HoldingPCs, Actors
<1>3. CASE \/ \E k \in Partitions : Fetch(a, k)
           \/ PublishRetry(a) \/ PublishDLQ(a) \/ Forward(a) \/ Commit(a)
  <2>1. actor'[a].pc \notin HoldingPCs /\ \A b \in Actors : b # a => actor'[b] = actor[b]
    <3>1. CASE \E k \in Partitions : Fetch(a, k)
      BY <3>1 DEF Fetch, HoldingPCs, IInv, ActorsOK
    <3>2. CASE PublishRetry(a) \/ PublishDLQ(a)
      BY <3>2, GotoHolds DEF PublishRetry, PublishDLQ, HoldingPCs, IInv
    <3>3. CASE Forward(a)
      BY <3>3, GotoHolds DEF Forward, Idle, HoldingPCs, IInv, ActorsOK
    <3>4. CASE Commit(a)
      BY <3>4 DEF Commit, Idle, HoldingPCs, IInv, ActorsOK
    <3> QED
      BY <1>3, <3>1, <3>2, <3>3, <3>4
  <2> QED
    BY <1>1, <2>1, HandsOff DEF Holds, Actors
<1> QED
  BY <1>2, <1>3

LEMMA ElapseExclusive ==
    ASSUME IInv, EInv, NEW j \in Jobs, Elapse(j)
    PROVE  EInv'
<1> DEFINE r == [row[j] EXCEPT !.age = @ + 1]
<1>1. row' = [row EXCEPT ![j] = r] /\ actor' = actor /\ row[j] \in RowType
  BY DEF Elapse, Set, IInv, RowsOK
<1>2. r.status = row[j].status /\ r.attempts = row[j].attempts /\ r.report = row[j].report
  BY <1>1 DEF RowType
<1>3. Held(j) => r.age < LeaseUnits
  BY <1>1 DEF Elapse, RowType, LeaseUnits
<1>4. row'[j] = r /\ \A i \in Jobs \ {j} : row'[i] = row[i]
  BY <1>1 DEF IInv, RowsOK
<1>5. \A a \in Consumers, i \in Jobs : (Holds(a, i))' <=> Holds(a, i)
  BY <1>1 DEF Holds
<1> HIDE DEF r
<1>6. ExclusiveRun'
  BY <1>1, <1>2, <1>4, <1>5 DEF EInv, ExclusiveRun
<1>7. HeldIsFresh'
  BY <1>3, <1>4, <1>5 DEF EInv, HeldIsFresh, Held
<1>8. ReportIffSucceeded'
  BY <1>2, <1>4 DEF EInv, ReportIffSucceeded
<1> QED
  BY <1>6, <1>7, <1>8 DEF EInv

\* The reclaimer takes rows away from dead workers only.
LEMMA ReclaimExclusive ==
    ASSUME IInv, EInv, ReclaimStale
    PROVE  EInv'
<1>1. \A j \in Jobs : row'[j] = IF LeaseExpired(row[j]) THEN GivenUp(row[j], "lease") ELSE row[j]
  BY DEF ReclaimStale
<1>2. \A a \in Consumers, i \in Jobs : (Holds(a, i))' <=> Holds(a, i)
  BY DEF ReclaimStale, Holds
<1>3. actor' = actor
  BY DEF ReclaimStale
<1>4. \A j \in Jobs : Held(j) => row'[j] = row[j]
  <2> SUFFICES ASSUME NEW j \in Jobs, Held(j)
               PROVE  row'[j] = row[j]
    OBVIOUS
  <2>1. row[j].age < LeaseUnits /\ row[j].age \in Nat
    BY DEF EInv, HeldIsFresh, IInv, RowsOK, RowType
  <2> QED
    BY <1>1, <2>1 DEF LeaseExpired, LeaseUnits
<1>5. ExclusiveRun'
  BY <1>2, <1>3, <1>4 DEF EInv, ExclusiveRun, Held
<1>6. HeldIsFresh'
  BY <1>2, <1>4 DEF EInv, HeldIsFresh, Held
<1>7. ReportIffSucceeded'
  <2> SUFFICES ASSUME NEW j \in Jobs, LeaseExpired(row[j])
               PROVE  row'[j].report # "stored" /\ row'[j].status # "succeeded"
    BY <1>1 DEF EInv, ReportIffSucceeded
  <2>1. row[j].status = "running" /\ row[j] \in RowType
    BY DEF LeaseExpired, IInv, RowsOK
  <2>2. row[j].report # "stored"
    BY <2>1 DEF EInv, ReportIffSucceeded
  <2> QED
    BY <1>1, <2>1, <2>2 DEF GivenUp, RowType
<1> QED
  BY <1>5, <1>6, <1>7 DEF EInv

LEMMA ProcessExclusive ==
    ASSUME IInv, EInv, NEW p \in Procs, Crash(p) \/ Shutdown(p) \/ Exit(p) \/ Restart(p)
    PROVE  EInv'
<1>1. row' = row
  BY DEF Crash, Shutdown, Exit, Restart
<1>2. \A a \in Consumers : actor'[a] = actor[a] \/ actor'[a] = Idle
  BY DEF Crash, Shutdown, Exit, Restart, Actors
<1>3. Idle.pc \notin HoldingPCs
  BY DEF Idle, HoldingPCs
<1> QED
  BY <1>1, <1>2, <1>3, HandsOff DEF Holds

LEMMA NextEInv ==
    ASSUME NoStalls, IInv, EInv, [Next]_vars
    PROVE  EInv'
<1>1. CASE UNCHANGED vars
  BY <1>1, HandsOff DEF vars, Holds
<1>2. ASSUME NEW a \in Actors, Step(a)
      PROVE  EInv'
  BY <1>2, ClaimExclusive, CompleteExclusive, MarkFailureExclusive, HandExclusive DEF Step
<1>3. ASSUME NEW r \in Requests, PublishJob(r) \/ ApiCrash(r)
      PROVE  EInv'
  BY <1>3, HandsOff DEF PublishJob, ApiCrash, Holds
<1>4. ASSUME NEW t \in Topics, Rebalance(t) \/ Reshuffle(t)
      PROVE  EInv'
  BY <1>4, HandsOff DEF Rebalance, Reshuffle, Assign, Holds
<1>5. ASSUME NEW k \in Partitions, Garbage(k)
      PROVE  EInv'
  BY <1>5, HandsOff DEF Garbage, Holds
<1>6. ASSUME NEW j \in Jobs, Stall(j)
      PROVE  FALSE
  BY <1>6 DEF Stall, Fault, NoStalls
<1> QED
  BY <1>1, <1>2, <1>3, <1>4, <1>5, <1>6, CreateExclusive, ElapseExclusive, ReclaimExclusive,
     ProcessExclusive DEF Next

LEMMA Exclusion ==
    ASSUME NoStalls
    PROVE  Spec => [](IInv /\ EInv)
<1>1. Init => IInv /\ EInv
  BY InitIInv, InitEInv
<1>2. IInv /\ EInv /\ [Next]_vars => (IInv /\ EInv)'
  BY NextIInv, NextEInv
<1> QED
  BY <1>1, <1>2, PTL DEF Spec

\* ClaimJob, CompleteJob, MarkFailure and ReclaimStale jointly let one worker at
\* a time run a job, on the attempt its row is charged for, as long as no lease
\* expires under a live worker.
THEOREM ExclusiveRunCorrect ==
    ASSUME NoStalls
    PROVE  Spec => []ExclusiveRun
BY Exclusion, PTL DEF EInv

\* The report column of a row is set exactly when its status is succeeded: no
\* late MarkFailure or ReclaimStale reaches a row that CompleteJob wrote.
THEOREM ReportsCorrect ==
    ASSUME NoStalls
    PROVE  Spec => []ReportIffSucceeded
BY Exclusion, PTL DEF EInv

--------------------------------------------------------------------------------
(* The pipeline implements JobLifecycle. *)

status == [j \in Jobs |-> row[j].status]
attempts == [j \in Jobs |-> row[j].attempts]
LStep == Lifecycle!Next \/ UNCHANGED <<status, attempts>>

LEMMA StepMeaning == [Lifecycle!Next]_(Lifecycle!vars) <=> LStep
BY DEF LStep, Lifecycle!vars, status, attempts

\* What the lifecycle sees of a change of one row.
LEMMA OneRow ==
    ASSUME row \in [Jobs -> RowType], NEW j \in Jobs, NEW r \in RowType,
           row' = [row EXCEPT ![j] = r]
    PROVE  /\ status' = [status EXCEPT ![j] = r.status]
           /\ attempts' = [attempts EXCEPT ![j] = r.attempts]
           /\ status[j] = row[j].status /\ attempts[j] = row[j].attempts
BY DEF status, attempts

LEMMA NoRowChanges ==
    ASSUME UNCHANGED row
    PROVE  LStep
BY DEF LStep, status, attempts

\* createOptimization submits the job, or leaves the rows alone.
LEMMA CreateSubmits ==
    ASSUME IInv, NEW r \in Requests, Create(r)
    PROVE  LStep
<1> DEFINE j == KeyOf[r]
<1>0. j \in Jobs /\ row \in [Jobs -> RowType]
  BY RequestsAssumption DEF IInv, RowsOK
<1>1. CASE row' = row
  BY <1>1, NoRowChanges
<1>2. CASE row' # row
  <2>1. row[j].status = "none" /\ row' = [row EXCEPT ![j] = Queued]
    BY <1>2 DEF Create, Set, SetOrNot
  <2>2. Queued \in RowType /\ Queued.status = "queued" /\ Queued.attempts = 0
    BY QueuedRow DEF Queued, NoRow
  <2>3. Lifecycle!Submit(j)
    BY <1>0, <2>1, <2>2, OneRow DEF Lifecycle!Submit, status, attempts
<2> QED
    BY <1>0, <2>3 DEF LStep, Lifecycle!Next
<1> QED
  BY <1>1, <1>2

\* ClaimJob starts an attempt, or leaves the rows alone.
LEMMA ClaimStarts ==
    ASSUME IInv, NEW a \in Actors, Claim(a)
    PROVE  LStep
<1>0. PICK j \in Jobs : j = actor[a].job
  BY WorkerHand DEF Claim
<1> DEFINE claimed == Claimed(row[j])
<1>1. /\ row \in [Jobs -> RowType] /\ row[j] \in RowType /\ Accounted(row[j])
  BY <1>0, WorkerHand DEF Claim, IInv, RowsOK
<1>2. CASE row' = row
  BY <1>2, NoRowChanges
<1>3. CASE row' # row
  <2>1. CanClaim(row[j]) /\ row' = [row EXCEPT ![j] = claimed]
    BY <1>0, <1>3 DEF Claim, Set, SetOrNot
  <2>2. claimed \in RowType
    BY <1>1, <2>1, ClaimedRow
  <2>3. claimed.status = "running" /\ claimed.attempts = row[j].attempts + 1
    BY <1>1 DEF Claimed, RowType
  <2>4. row[j].status \in {"queued", "retrying"} /\ row[j].attempts < AttemptLimit
    BY <1>1, <2>1 DEF Accounted, CanClaim
  <2> HIDE DEF claimed
  <2>5. Lifecycle!Start(j)
    BY <1>1, <2>1, <2>2, <2>3, <2>4, OneRow DEF Lifecycle!Start, Lifecycle!Startable, status, attempts
  <2> QED
    BY <2>5 DEF LStep, Lifecycle!Next
<1> QED
  BY <1>2, <1>3

\* CompleteJob is called by the worker that holds the job, so the row is running.
LEMMA CompleteSucceeds ==
    ASSUME IInv, EInv, NEW a \in Actors, Complete(a)
    PROVE  LStep
<1>0. PICK j \in Jobs : j = actor[a].job
  BY WorkerHand DEF Complete
<1> DEFINE completed == Completed(row[j])
<1>1. /\ a \in Consumers /\ row \in [Jobs -> RowType] /\ row[j] \in RowType
      /\ row[j].status = "running"
  <2>1. a \in Consumers /\ Holds(a, j)
    BY <1>0, WorkerHand DEF Complete, Holds, HoldingPCs
  <2> QED
    BY <2>1 DEF EInv, ExclusiveRun, IInv, RowsOK
<1>2. CASE row' = row
  BY <1>2, NoRowChanges
<1>3. CASE row' # row
  <2>1. row' = [row EXCEPT ![j] = completed]
    BY <1>0, <1>3 DEF Complete, Set, SetOrNot
  <2>2. completed \in RowType /\ completed.status = "succeeded" /\ completed.attempts = row[j].attempts
    BY <1>1, CompletedRow DEF Completed, RowType
  <2> HIDE DEF completed
  <2>3. Lifecycle!Succeed(j)
    BY <1>1, <2>1, <2>2, OneRow DEF Lifecycle!Succeed, status, attempts
  <2> QED
    BY <2>3 DEF LStep, Lifecycle!Next
<1> QED
  BY <1>2, <1>3

\* A set of rows given up together is given up in the lifecycle.
LEMMA RowsGivenUp ==
    ASSUME row \in [Jobs -> RowType], NEW S \in SUBSET Jobs, S # {},
           NEW c \in {"run", "lease"},
           \A j \in S : row[j].status = "running",
           row' = [j \in Jobs |-> IF j \in S THEN GivenUp(row[j], c) ELSE row[j]]
    PROVE  LStep
<1>1. \A j \in Jobs : row[j] \in RowType
  OBVIOUS
<1>2. \A j \in S : /\ row'[j].attempts = row[j].attempts
                   /\ row'[j].status = IF row[j].attempts < AttemptLimit
                                       THEN "retrying" ELSE "failed"
  BY <1>1 DEF GivenUp, HasAttemptLeft, RowType
<1>3. \A j \in Jobs \ S : row'[j] = row[j]
  OBVIOUS
<1>4. attempts' = attempts
  BY <1>2, <1>3 DEF attempts
<1>5. status' = [j \in Jobs |->
                   IF j \notin S THEN status[j]
                   ELSE IF attempts[j] < AttemptLimit THEN "retrying" ELSE "failed"]
  BY <1>2, <1>3 DEF status, attempts
<1>6. Lifecycle!GiveUp(S)
  BY <1>4, <1>5 DEF Lifecycle!GiveUp, status, attempts
<1> QED
  BY <1>6 DEF LStep, Lifecycle!Next

\* MarkFailure is called by the worker that holds the job, so the row is running.
LEMMA MarkFailureGivesUp ==
    ASSUME IInv, EInv, NEW a \in Actors, MarkFailure(a)
    PROVE  LStep
<1>0. PICK j \in Jobs : j = actor[a].job
  BY WorkerHand DEF MarkFailure
<1>1. /\ row \in [Jobs -> RowType] /\ row[j].status = "running"
  <2>1. a \in Consumers /\ Holds(a, j)
    BY <1>0, WorkerHand DEF MarkFailure, Holds, HoldingPCs
  <2> QED
    BY <2>1 DEF EInv, ExclusiveRun, IInv, RowsOK
<1>2. CASE row' = row
  BY <1>2, NoRowChanges
<1>3. CASE row' # row
  <2>1. row' = [row EXCEPT ![j] = GivenUp(row[j], "run")]
    BY <1>0, <1>3 DEF MarkFailure, Set, SetOrNot
  <2>2. row' = [i \in Jobs |-> IF i \in {j} THEN GivenUp(row[i], "run") ELSE row[i]]
    BY <1>1, <2>1
  <2>3. \A i \in {j} : row[i].status = "running"
    BY <1>1
  <2>4. {j} \in SUBSET Jobs /\ {j} # {}
    BY <1>0
  <2> QED
    BY <1>1, <2>2, <2>3, <2>4, RowsGivenUp
<1> QED
  BY <1>2, <1>3

\* ReclaimStale gives up every job whose lease is over.
LEMMA ReclaimGivesUp ==
    ASSUME IInv, ReclaimStale
    PROVE  LStep
<1> DEFINE S == {j \in Jobs : LeaseExpired(row[j])}
<1>1. S \in SUBSET Jobs /\ S # {} /\ \A j \in S : row[j].status = "running"
  BY DEF ReclaimStale, LeaseExpired
<1>2. row' = [j \in Jobs |-> IF j \in S THEN GivenUp(row[j], "lease") ELSE row[j]]
  BY DEF ReclaimStale
<1>3. row \in [Jobs -> RowType]
  BY DEF IInv, RowsOK
<1> HIDE DEF S
<1> QED
  BY <1>1, <1>2, <1>3, RowsGivenUp

\* Time passing moves no row along its lifecycle.
LEMMA ElapseStutters ==
    ASSUME IInv, NEW j \in Jobs, Elapse(j) \/ Stall(j)
    PROVE  LStep
<1>1. /\ row \in [Jobs -> RowType]
      /\ row' = [row EXCEPT ![j] = [row[j] EXCEPT !.age = @ + 1]]
  BY DEF Elapse, Stall, Set, IInv, RowsOK
<1>2. /\ row'[j].status = row[j].status /\ row'[j].attempts = row[j].attempts
      /\ \A i \in Jobs \ {j} : row'[i] = row[i]
  BY <1>1 DEF RowType
<1> QED
  BY <1>2 DEF LStep, status, attempts

\* Every step of the pipeline is a step of the lifecycle, or none.
LEMMA LifecycleStep ==
    ASSUME IInv, EInv, [Next]_vars
    PROVE  LStep
<1>1. CASE UNCHANGED vars
  BY <1>1, NoRowChanges DEF vars
<1>2. ASSUME NEW a \in Actors, Step(a)
      PROVE  LStep
  BY <1>2, ClaimStarts, CompleteSucceeds, MarkFailureGivesUp, NoRowChanges
     DEF Step, Fetch, Run, RecordRuns, PublishRetry, PublishDLQ, Forward, Commit
<1>3. ASSUME NEW r \in Requests, PublishJob(r) \/ ApiCrash(r)
      PROVE  LStep
  BY <1>3, NoRowChanges DEF PublishJob, ApiCrash
<1>4. ASSUME NEW t \in Topics, Rebalance(t) \/ Reshuffle(t)
      PROVE  LStep
  BY <1>4, NoRowChanges DEF Rebalance, Reshuffle, Assign
<1>5. ASSUME NEW k \in Partitions, Garbage(k)
      PROVE  LStep
  BY <1>5, NoRowChanges DEF Garbage
<1>6. ASSUME NEW p \in Procs, Crash(p) \/ Shutdown(p) \/ Exit(p) \/ Restart(p)
      PROVE  LStep
  BY <1>6, NoRowChanges DEF Crash, Shutdown, Exit, Restart
<1> QED
  BY <1>1, <1>2, <1>3, <1>4, <1>5, <1>6, CreateSubmits, ReclaimGivesUp, ElapseStutters DEF Next

\* A job is charged for every start, started only with an attempt left, given up
\* only while it runs and never touched once finished, whatever happens to
\* messages and processes: the rows implement the lifecycle.
THEOREM PipelineImplementsLifecycle ==
    ASSUME NoStalls
    PROVE  Spec => RefinesLifecycle
<1>1. Init => Lifecycle!Init
  BY DEF Init, NoRow, Lifecycle!Init
<1>2. IInv /\ EInv /\ [Next]_vars => [Lifecycle!Next]_(Lifecycle!vars)
  BY LifecycleStep, StepMeaning
<1> QED
  BY <1>1, <1>2, Exclusion, PTL DEF Spec, RefinesLifecycle, Lifecycle!Spec

\* A lifecycle step leaves the status of a finished row alone.
LEMMA LifecycleKeepsFinished ==
    ASSUME LStep, NEW j \in Jobs, status[j] \in Finished
    PROVE  status'[j] = status[j]
BY DEF LStep, Lifecycle!Next, Lifecycle!Submit, Lifecycle!Start, Lifecycle!Startable,
       Lifecycle!Succeed, Lifecycle!GiveUp, Finished, status, attempts

\* No UPDATE ever moves a succeeded or failed row again, although CompleteJob and
\* MarkFailure select it by id alone.
THEOREM FinishedFinal ==
    ASSUME NoStalls
    PROVE  Spec => FinishedIsFinal
<1>1. IInv /\ EInv /\ [Next]_vars =>
        [\A j \in Jobs : row[j].status \in Finished => row'[j].status = row[j].status]_vars
  <2> SUFFICES ASSUME IInv, EInv, [Next]_vars, NEW j \in Jobs, row[j].status \in Finished
               PROVE  row'[j].status = row[j].status
    OBVIOUS
  <2>1. status[j] \in Finished /\ status[j] = row[j].status /\ status'[j] = row'[j].status
    BY DEF status
  <2> QED
    BY <2>1, LifecycleStep, LifecycleKeepsFinished
<1> QED
  BY <1>1, Exclusion, PTL DEF Spec, FinishedIsFinal

--------------------------------------------------------------------------------
(* What a step does to the logs. *)

\* n copies of x have been added at the end of log[t][k], and nothing elsewhere.
Added(t, k, x, n) ==
    /\ \A u \in Topics, l \in Partitions : u # t \/ l # k => log'[u][l] = log[u][l]
    /\ Len(log'[t][k]) = Len(log[t][k]) + n
    /\ \A i \in 1..Len(log[t][k]) : log'[t][k][i] = log[t][k][i]
    /\ \A i \in Len(log[t][k]) + 1 .. Len(log[t][k]) + n : log'[t][k][i] = x

LEMMA SendEffect ==
    ASSUME LogsOK, NEW t \in Topics, NEW j \in Jobs, NEW n \in Nat, log' = Sent(t, j, n)
    PROVE  Added(t, PartOf[j], j, n)
<1> DEFINE k == PartOf[j]
           new == log[t][k] \o [i \in 1..n |-> j]
<1>1. k \in Partitions
  BY PartitionsAssumption
<1>2. log[t][k] \in Seq(Jobs \cup {NoJob})
  BY <1>1 DEF LogsOK
<1>3. [i \in 1..n |-> j] \in Seq(Jobs \cup {NoJob}) /\ Len([i \in 1..n |-> j]) = n
  OBVIOUS
<1>4. /\ log'[t][k] = new
      /\ \A u \in Topics, l \in Partitions : u # t \/ l # k => log'[u][l] = log[u][l]
  BY <1>1 DEF LogsOK, Sent
<1>5. /\ Len(new) = Len(log[t][k]) + n
      /\ \A i \in 1..Len(log[t][k]) : new[i] = log[t][k][i]
      /\ \A i \in Len(log[t][k]) + 1 .. Len(log[t][k]) + n : new[i] = j
  BY <1>2, <1>3
<1> HIDE DEF k, new
<1>6. Added(t, k, j, n)
  BY <1>4, <1>5 DEF Added
<1> QED
  BY <1>6 DEF k

\* Every message written is of one job, in the partition of that job, and one for a
\* delay topic is about the job in the hand of a worker.
LEMMA LogEffect ==
    ASSUME IInv, [Next]_vars
    PROVE  \/ UNCHANGED log
           \/ \E t \in Topics, k \in Partitions, x \in Jobs \cup {NoJob}, n \in 1..2 :
                 /\ Added(t, k, x, n)
                 /\ x \in Jobs => k = PartOf[x]
                 /\ t # Main => \E a \in Consumers : PublishRetry(a) /\ actor[a].job = x
<1> DEFINE Grown == \E t \in Topics, k \in Partitions, x \in Jobs \cup {NoJob}, n \in 1..2 :
                       /\ Added(t, k, x, n)
                       /\ x \in Jobs => k = PartOf[x]
                       /\ t # Main => \E a \in Consumers : PublishRetry(a) /\ actor[a].job = x
<1>1. Main \in Topics /\ LogsOK
  BY DEF Main, Topics, IInv
<1>2. ASSUME NEW t \in Topics, NEW j \in Jobs, Published(t, j) \/ Unacked(t, j),
             t # Main => \E a \in Consumers : PublishRetry(a) /\ actor[a].job = j
      PROVE  UNCHANGED log \/ Grown
  <2>1. UNCHANGED log \/ \E n \in 1..2 : log' = Sent(t, j, n)
    BY <1>2 DEF Published, Unacked
  <2>2. ASSUME NEW n \in 1..2, log' = Sent(t, j, n)
        PROVE  Grown
    <3>1. PartOf[j] \in Partitions
      BY PartitionsAssumption
    <3>2. Added(t, PartOf[j], j, n)
      BY <1>1, <2>2, SendEffect
    <3> QED
      BY <1>2, <3>1, <3>2
  <2> QED
    BY <2>1, <2>2
<1>3. ASSUME NEW r \in Requests, PublishJob(r)
      PROVE  UNCHANGED log \/ Grown
  <2>1. KeyOf[r] \in Jobs
    BY RequestsAssumption
  <2> QED
    BY <1>1, <1>2, <1>3, <2>1 DEF PublishJob
<1>4. ASSUME NEW a \in Actors, PublishRetry(a)
      PROVE  UNCHANGED log \/ Grown
  <2>1. /\ a \in Consumers /\ actor[a].job \in Jobs /\ actor[a].att \in Topics
    BY <1>4 DEF PublishRetry, IInv, ActorsOK, HandsOK, Topics
  <2> QED
    BY <1>2, <1>4, <2>1 DEF PublishRetry
<1>5. ASSUME NEW a \in Actors, Forward(a)
      PROVE  UNCHANGED log \/ Grown
  <2>1. actor[a].job \in Jobs
    BY <1>5 DEF Forward, IInv, ActorsOK, HandsOK
  <2> QED
    BY <1>1, <1>2, <1>5, <2>1 DEF Forward
<1>6. ASSUME NEW k \in Partitions, Garbage(k)
      PROVE  Grown
  <2>1. /\ log'[Main][k] = Append(log[Main][k], NoJob)
        /\ \A u \in Topics, l \in Partitions : u # Main \/ l # k => log'[u][l] = log[u][l]
    BY <1>1, <1>6 DEF Garbage, LogsOK
  <2>2. log[Main][k] \in Seq(Jobs \cup {NoJob})
    BY <1>1 DEF LogsOK
  <2>3. Added(Main, k, NoJob, 1)
    BY <2>1, <2>2 DEF Added
  <2> QED
    BY <1>1, <2>3, JobsAssumption
<1>7. ASSUME \/ \E r \in Requests : Create(r) \/ ApiCrash(r)
             \/ \E a \in Actors : \/ \E k \in Partitions : Fetch(a, k)
                                  \/ Claim(a) \/ Run(a) \/ RecordRuns(a) \/ Complete(a)
                                  \/ MarkFailure(a) \/ PublishDLQ(a) \/ Commit(a)
             \/ \E t \in Topics : Rebalance(t) \/ Reshuffle(t)
             \/ \E j \in Jobs : Elapse(j) \/ Stall(j)
             \/ ReclaimStale
             \/ \E p \in Procs : Crash(p) \/ Shutdown(p) \/ Exit(p) \/ Restart(p)
             \/ UNCHANGED vars
      PROVE  UNCHANGED log
  BY <1>7 DEF Create, ApiCrash, Fetch, Claim, Run, RecordRuns, Complete, MarkFailure, PublishDLQ,
              Commit, Rebalance, Reshuffle, Assign, Elapse, Stall, ReclaimStale, Crash, Shutdown,
              Exit, Restart, kafka, vars
<1> HIDE DEF Grown
<1>8. UNCHANGED log \/ Grown
  BY <1>3, <1>4, <1>5, <1>6, <1>7 DEF Next, Step
<1> QED
  BY <1>8 DEF Grown

\* The logs only grow.
Grows(before, after) ==
    \A t \in Topics, k \in Partitions :
        /\ Len(before[t][k]) <= Len(after[t][k])
        /\ \A i \in 1..Len(before[t][k]) : after[t][k][i] = before[t][k][i]

LEMMA LogsGrow ==
    ASSUME IInv, [Next]_vars
    PROVE  Grows(log, log')
<1>1. \A t \in Topics, k \in Partitions : Len(log[t][k]) \in Nat
  BY DEF IInv, LogsOK
<1>2. CASE UNCHANGED log
  BY <1>1, <1>2 DEF Grows
<1>3. ASSUME NEW t \in Topics, NEW k \in Partitions, NEW x, NEW n \in 1..2, Added(t, k, x, n)
      PROVE  Grows(log, log')
  <2> SUFFICES ASSUME NEW u \in Topics, NEW l \in Partitions
               PROVE  /\ Len(log[u][l]) <= Len(log'[u][l])
                      /\ \A i \in 1..Len(log[u][l]) : log'[u][l][i] = log[u][l][i]
    BY DEF Grows
  <2>1. CASE u = t /\ l = k
    BY <1>1, <1>3, <2>1 DEF Added
  <2>2. CASE u # t \/ l # k
    BY <1>1, <1>3, <2>2 DEF Added
  <2> QED
    BY <2>1, <2>2
<1> QED
  BY <1>2, <1>3, LogEffect

\* A message that was not there is the one written in this step.
LEMMA NewMessage ==
    ASSUME IInv, [Next]_vars, NEW t \in Topics, NEW k \in Partitions,
           NEW i \in 1..Len(log'[t][k]), i \notin 1..Len(log[t][k])
    PROVE  /\ log'[t][k][i] \in Jobs => PartOf[log'[t][k][i]] = k
           /\ t # Main => \E a \in Consumers : PublishRetry(a) /\ actor[a].job = log'[t][k][i]
<1>1. log'[t][k] # log[t][k]
  OBVIOUS
<1>2. PICK x \in Jobs \cup {NoJob}, n \in 1..2 :
         /\ Added(t, k, x, n)
         /\ x \in Jobs => k = PartOf[x]
         /\ t # Main => \E a \in Consumers : PublishRetry(a) /\ actor[a].job = x
  <2>1. PICK u \in Topics, l \in Partitions, x \in Jobs \cup {NoJob}, n \in 1..2 :
           /\ Added(u, l, x, n)
           /\ x \in Jobs => l = PartOf[x]
           /\ u # Main => \E a \in Consumers : PublishRetry(a) /\ actor[a].job = x
    BY <1>1, LogEffect
  <2>2. u = t /\ l = k
    BY <1>1, <2>1 DEF Added
  <2> QED
    BY <2>1, <2>2
<1>3. Len(log[t][k]) \in Nat
  BY DEF IInv, LogsOK
<1>4. i \in Len(log[t][k]) + 1 .. Len(log[t][k]) + n
  BY <1>2, <1>3 DEF Added
<1> QED
  BY <1>2, <1>4 DEF Added

--------------------------------------------------------------------------------
(* What a step does to the hands. *)

\* Only a goroutine itself changes what it has in hand, or the death of its process.
LEMMA OwnStep ==
    ASSUME IInv, [Next]_vars, NEW b \in Actors
    PROVE  \/ actor'[b] = actor[b]
           \/ Step(b)
           \/ actor'[b] = Idle /\ \E p \in Procs : Crash(p)
<1>1. actor \in [Actors -> ActorType]
  BY DEF IInv, ActorsOK
<1>2. ASSUME NEW a \in Actors, Step(a), a # b
      PROVE  actor'[b] = actor[b]
  <2>1. UNCHANGED actor \/ (\E h : actor' = [actor EXCEPT ![a] = h])
        \/ (\E x : actor' = [actor EXCEPT ![a].pc = x])
        \/ \E x, n : actor' = [actor EXCEPT ![a].pc = x, ![a].att = n]
    BY <1>2 DEF Step, Fetch, Claim, Run, RecordRuns, Complete, MarkFailure, PublishRetry, PublishDLQ,
                Forward, Commit, Goto
  <2> QED
    BY <1>1, <1>2, <2>1
<1>3. ASSUME NEW p \in Procs, Crash(p)
      PROVE  actor'[b] = Idle \/ actor'[b] = actor[b]
  BY <1>3 DEF Crash
<1>4. ASSUME \/ \E r \in Requests : Create(r) \/ PublishJob(r) \/ ApiCrash(r)
             \/ \E t \in Topics : Rebalance(t) \/ Reshuffle(t)
             \/ \E k \in Partitions : Garbage(k)
             \/ \E j \in Jobs : Elapse(j) \/ Stall(j)
             \/ ReclaimStale
             \/ \E p \in Procs : Shutdown(p) \/ Exit(p) \/ Restart(p)
             \/ UNCHANGED vars
      PROVE  actor'[b] = actor[b]
  BY <1>4 DEF Create, PublishJob, ApiCrash, Rebalance, Reshuffle, Assign, Garbage, Elapse, Stall,
              ReclaimStale, Shutdown, Exit, Restart, vars
<1> QED
  BY <1>2, <1>3, <1>4 DEF Next

\* The message in the hand of a has not been looked at.
Fresh(a) == actor[a].pc \in {"claim", "forward"}

\* A hand is emptied, keeps its message, or takes the next of its partition; a message
\* is looked at by ClaimJob or by the publish of a forwarder.
LEMMA HandEffect ==
    ASSUME IInv, [Next]_vars, NEW b \in Actors
    PROVE  \/ actor'[b].pc = "idle"
           \/ /\ actor[b].pc # "idle"
              /\ actor'[b].job = actor[b].job /\ actor'[b].part = actor[b].part
              /\ actor'[b].off = actor[b].off
              /\ (Fresh(b))' => Fresh(b)
              /\ Fresh(b) /\ ~ (Fresh(b))' => Claim(b) \/ (Up(b) /\ Forward(b))
           \/ \E k \in Partitions :
                 /\ Fetch(b, k) /\ (Fresh(b))'
                 /\ actor'[b].part = k /\ actor'[b].off = pos[TopicOf(b)][k] + 1
                 /\ actor'[b].job = log[TopicOf(b)][k][pos[TopicOf(b)][k] + 1]
<1> DEFINE Kept == /\ actor[b].pc # "idle"
                   /\ actor'[b].job = actor[b].job /\ actor'[b].part = actor[b].part
                   /\ actor'[b].off = actor[b].off
                   /\ (Fresh(b))' => Fresh(b)
                   /\ Fresh(b) /\ ~ (Fresh(b))' => Claim(b) \/ (Up(b) /\ Forward(b))
           Taken == \E k \in Partitions :
                       /\ Fetch(b, k) /\ (Fresh(b))'
                       /\ actor'[b].part = k /\ actor'[b].off = pos[TopicOf(b)][k] + 1
                       /\ actor'[b].job = log[TopicOf(b)][k][pos[TopicOf(b)][k] + 1]
<1>1. actor \in [Actors -> ActorType]
  BY DEF IInv, ActorsOK
<1>2. CASE actor'[b] = actor[b]
  BY <1>2 DEF Fresh
<1>3. ASSUME NEW k \in Partitions, Fetch(b, k), actor'[b] # actor[b]
      PROVE  Taken
  <2> DEFINE t == TopicOf(b)
             h == [pc |-> IF t = Main THEN "claim" ELSE "forward", job |-> log[t][k][pos[t][k] + 1],
                   part |-> k, off |-> pos[t][k] + 1, att |-> 0]
  <2>1. actor'[b] = h
    BY <1>1, <1>3 DEF Fetch
  <2>2. (Fresh(b))'
    BY <2>1 DEF Fresh
  <2> QED
    BY <1>3, <2>1, <2>2
<1>4. ASSUME \/ Claim(b) \/ Run(b) \/ RecordRuns(b) \/ Complete(b) \/ MarkFailure(b)
             \/ PublishRetry(b) \/ PublishDLQ(b) \/ Forward(b) \/ Commit(b)
      PROVE  actor'[b].pc = "idle" \/ Kept
  <2>1. actor' = [actor EXCEPT ![b] = Idle] => actor'[b].pc = "idle"
    BY <1>1 DEF Idle
  <2>2. ASSUME NEW x \in PCs \ {"idle", "claim", "forward"}, Goto(b, x)
        PROVE  /\ actor'[b].pc = x /\ actor'[b].job = actor[b].job
               /\ actor'[b].part = actor[b].part /\ actor'[b].off = actor[b].off
    BY <1>1, <2>2 DEF Goto, ActorType
  <2>3. ASSUME NEW n, actor' = [actor EXCEPT ![b].pc = "run", ![b].att = n]
        PROVE  /\ actor'[b].pc = "run" /\ actor'[b].job = actor[b].job
               /\ actor'[b].part = actor[b].part /\ actor'[b].off = actor[b].off
    BY <1>1, <2>3 DEF ActorType
  <2>4. \/ actor' = [actor EXCEPT ![b] = Idle]
        \/ \E x \in PCs \ {"idle", "claim", "forward"} : Goto(b, x)
        \/ \E n : actor' = [actor EXCEPT ![b].pc = "run", ![b].att = n]
    BY <1>4 DEF Claim, Run, RecordRuns, Complete, MarkFailure, PublishRetry, PublishDLQ, Forward,
                Commit, PCs
  <2>5. actor[b].pc # "idle" /\ (Fresh(b) => Claim(b) \/ Forward(b))
    BY <1>4 DEF Claim, Run, RecordRuns, Complete, MarkFailure, PublishRetry, PublishDLQ, Forward,
                Commit, Fresh
  <2>6. Forward(b) => actor' = [actor EXCEPT ![b] = Idle] \/ Up(b)
    BY DEF Forward
  <2>7. actor'[b].pc = "idle" \/ (Fresh(b) => Claim(b) \/ (Up(b) /\ Forward(b)))
    BY <2>1, <2>5, <2>6
  <2>8. \/ actor'[b].pc = "idle"
        \/ /\ actor'[b].job = actor[b].job /\ actor'[b].part = actor[b].part
           /\ actor'[b].off = actor[b].off /\ ~ (Fresh(b))'
    BY <2>1, <2>2, <2>3, <2>4 DEF Fresh
  <2> QED
    BY <2>5, <2>7, <2>8
<1> HIDE DEF Kept, Taken
<1>5. actor'[b].pc = "idle" \/ Kept \/ Taken \/ actor'[b] = actor[b]
  <2>1. Idle.pc = "idle"
    BY DEF Idle
  <2> QED
    BY <1>3, <1>4, <2>1, OwnStep DEF Step
<1> QED
  BY <1>2, <1>5 DEF Kept, Taken
--------------------------------------------------------------------------------
(* Messages keep their place. *)

\* Offsets point into the logs, a partition is owned by a process that has not exited,
\* the messages of a job are in its partition, and what a goroutine has in hand is the
\* message at its offset.
InPlace ==
    /\ \A t \in Topics, k \in Partitions :
          /\ committed[t][k] <= Len(log[t][k]) /\ pos[t][k] <= Len(log[t][k])
          /\ owner[t][k] # NoOne => proc[ProcOf(owner[t][k])] # "down"
          /\ \A i \in 1..Len(log[t][k]) : log[t][k][i] \in Jobs => PartOf[log[t][k][i]] = k
    /\ \A a \in Actors : actor[a].pc # "idle" =>
          /\ actor[a].off \in 1..Len(log[TopicOf(a)][actor[a].part])
          /\ log[TopicOf(a)][actor[a].part][actor[a].off] = actor[a].job

\* Everything an offset may become is within the log.
LEMMA OffsetsInPlace ==
    ASSUME IInv, InPlace, [Next]_vars, NEW t \in Topics, NEW k \in Partitions
    PROVE  committed'[t][k] <= Len(log[t][k]) /\ pos'[t][k] <= Len(log[t][k])
<1>1. /\ committed \in [Topics -> [Partitions -> Nat]] /\ pos \in [Topics -> [Partitions -> Nat]]
      /\ committed[t][k] <= Len(log[t][k]) /\ pos[t][k] <= Len(log[t][k])
  BY DEF IInv, GroupOK, InPlace
<1>2. ASSUME NEW a \in Actors, NEW l \in Partitions, Fetch(a, l)
      PROVE  committed'[t][k] <= Len(log[t][k]) /\ pos'[t][k] <= Len(log[t][k])
  <2>1. /\ TopicOf(a) \in Topics /\ pos[TopicOf(a)][l] + 1 <= Len(log[TopicOf(a)][l])
        /\ pos' = [pos EXCEPT ![TopicOf(a)][l] = pos[TopicOf(a)][l] + 1]
        /\ \/ committed' = committed
           \/ committed' = [committed EXCEPT ![TopicOf(a)][l] = pos[TopicOf(a)][l] + 1]
    BY <1>2, ActorParts DEF Fetch, SkipUndecodable
  <2> QED
    BY <1>1, <2>1
<1>3. ASSUME NEW a \in Actors, Commit(a)
      PROVE  committed'[t][k] <= Len(log[t][k]) /\ pos'[t][k] <= Len(log[t][k])
  <2>1. /\ actor[a].off \in 1..Len(log[TopicOf(a)][actor[a].part])
        /\ actor[a].part \in Partitions /\ TopicOf(a) \in Topics
    BY <1>3, ActorParts DEF Commit, InPlace, IInv, ActorsOK, HandsOK
  <2>2. pos' = pos /\ committed' \in {committed, Marked(a)}
    BY <1>3 DEF Commit
  <2>3. committed'[t][k] = committed[t][k] \/
            (t = TopicOf(a) /\ k = actor[a].part /\ committed'[t][k] = actor[a].off)
    BY <1>1, <2>1, <2>2 DEF Marked
  <2>4. actor[a].off <= Len(log[TopicOf(a)][actor[a].part])
    BY <2>1
  <2> QED
    BY <1>1, <2>2, <2>3, <2>4
<1>4. ASSUME NEW u \in Topics, Assign(u)
      PROVE  committed'[t][k] <= Len(log[t][k]) /\ pos'[t][k] <= Len(log[t][k])
  BY <1>1, <1>4 DEF Assign
<1>5. ASSUME NEW p \in Procs, Leave(p), UNCHANGED committed
      PROVE  committed'[t][k] <= Len(log[t][k]) /\ pos'[t][k] <= Len(log[t][k])
  BY <1>1, <1>5 DEF Leave
<1>6. ASSUME \/ \E r \in Requests : Create(r) \/ PublishJob(r) \/ ApiCrash(r)
             \/ \E a \in Actors : \/ Claim(a) \/ Run(a) \/ RecordRuns(a) \/ Complete(a)
                                  \/ MarkFailure(a) \/ PublishRetry(a) \/ PublishDLQ(a) \/ Forward(a)
             \/ \E l \in Partitions : Garbage(l)
             \/ \E j \in Jobs : Elapse(j) \/ Stall(j)
             \/ ReclaimStale
             \/ \E p \in Procs : Shutdown(p)
             \/ UNCHANGED vars
      PROVE  UNCHANGED <<committed, pos>>
  BY <1>6 DEF Create, PublishJob, ApiCrash, Claim, Run, RecordRuns, Complete, MarkFailure,
              PublishRetry, PublishDLQ, Forward, Garbage, Elapse, Stall, ReclaimStale, Shutdown,
              kafka, offsets, vars
<1>7. \A u \in Topics : Rebalance(u) \/ Reshuffle(u) => Assign(u)
  BY DEF Rebalance, Reshuffle
<1>8. \A p \in Procs : Crash(p) \/ Exit(p) => Leave(p) /\ UNCHANGED committed
  BY DEF Crash, Exit
<1>9. ASSUME NEW p \in Procs, Restart(p)
      PROVE  committed'[t][k] <= Len(log[t][k]) /\ pos'[t][k] <= Len(log[t][k])
  BY <1>1, <1>9 DEF Restart
<1> QED
  BY <1>1, <1>2, <1>3, <1>4, <1>5, <1>6, <1>7, <1>8, <1>9 DEF Next, Step

\* Only SIGTERM, death and a restart change what a process is.
LEMMA ProcEffect ==
    ASSUME [Next]_vars
    PROVE  UNCHANGED proc \/ \E q \in Procs : Crash(q) \/ Shutdown(q) \/ Exit(q) \/ Restart(q)
<1>1. ASSUME NEW a \in Actors, Step(a)
      PROVE  UNCHANGED proc
  BY <1>1 DEF Step, Fetch, Claim, Run, RecordRuns, Complete, MarkFailure, PublishRetry, PublishDLQ,
              Forward, Commit
<1>2. ASSUME \/ \E r \in Requests : Create(r) \/ PublishJob(r) \/ ApiCrash(r)
             \/ \E t \in Topics : Rebalance(t) \/ Reshuffle(t)
             \/ \E k \in Partitions : Garbage(k)
             \/ \E j \in Jobs : Elapse(j) \/ Stall(j)
             \/ ReclaimStale
             \/ UNCHANGED vars
      PROVE  UNCHANGED proc
  BY <1>2 DEF Create, PublishJob, ApiCrash, Rebalance, Reshuffle, Assign, Garbage, Elapse, Stall,
              ReclaimStale, vars
<1> QED
  BY <1>1, <1>2 DEF Next

\* A process comes up only from having exited, and exits leaving its partitions.
LEMMA ComesUp ==
    ASSUME IInv, [Next]_vars, NEW p \in Procs, proc'[p] = "up", proc[p] # "down"
    PROVE  proc[p] = "up"
<1>1. proc \in [Procs -> {"up", "draining", "down"}]
  BY DEF IInv, NotesOK
<1> QED
  BY <1>1, ProcEffect DEF Crash, Shutdown, Exit, Restart

LEMMA OwnersRun ==
    ASSUME IInv, InPlace, [Next]_vars, NEW t \in Topics, NEW k \in Partitions,
           owner'[t][k] # NoOne
    PROVE  proc'[ProcOf(owner'[t][k])] # "down"
<1>1. /\ owner \in [Topics -> [Partitions -> Actors \cup {NoOne}]]
      /\ proc \in [Procs -> {"up", "draining", "down"}]
      /\ \A u \in Topics, l \in Partitions :
            owner[u][l] # NoOne => owner[u][l] \in Actors /\ proc[ProcOf(owner[u][l])] # "down"
  BY DEF IInv, GroupOK, NotesOK, InPlace
<1>2. ASSUME NEW u \in Topics, Assign(u)
      PROVE  proc'[ProcOf(owner'[t][k])] # "down"
  <2>1. PICK assignment \in [Partitions -> {a \in Actors : TopicOf(a) = u /\ Up(a)}] :
           owner' = [owner EXCEPT ![u] = assignment]
    BY <1>2 DEF Assign
  <2>2. proc' = proc
    BY <1>2 DEF Assign
  <2>3. CASE t = u
    BY <1>1, <2>1, <2>2, <2>3 DEF Up
  <2>4. CASE t # u
    BY <1>1, <2>1, <2>2, <2>4
  <2> QED
    BY <2>3, <2>4
<1>3. ASSUME NEW p \in Procs, Crash(p) \/ Exit(p)
      PROVE  proc'[ProcOf(owner'[t][k])] # "down"
  <2>1. proc' = [proc EXCEPT ![p] = "down"] /\ Leave(p)
    BY <1>3 DEF Crash, Exit
  <2>2. owner'[t][k] = owner[t][k] /\ ProcOf(owner[t][k]) # p
    BY <2>1 DEF Leave
  <2> QED
    BY <1>1, <2>1, <2>2, ActorParts
<1>4. ASSUME NEW p \in Procs, Shutdown(p) \/ Restart(p)
      PROVE  proc'[ProcOf(owner'[t][k])] # "down"
  <2>1. ~ Restart(p)   \* after which nothing has an owner
    BY DEF Restart
  <2>2. owner' = owner /\ proc' = [proc EXCEPT ![p] = "draining"]
    BY <1>4, <2>1 DEF Shutdown, kafka
  <2> QED
    BY <1>1, <2>2, ActorParts
<1>5. ASSUME NEW a \in Actors, Step(a)
      PROVE  UNCHANGED <<owner, proc>>
  BY <1>5 DEF Step, Fetch, Claim, Run, RecordRuns, Complete, MarkFailure, PublishRetry, PublishDLQ,
              Forward, Commit, kafka, offsets
<1>6. ASSUME \/ \E r \in Requests : Create(r) \/ PublishJob(r) \/ ApiCrash(r)
             \/ \E l \in Partitions : Garbage(l)
             \/ \E j \in Jobs : Elapse(j) \/ Stall(j)
             \/ ReclaimStale
             \/ UNCHANGED vars
      PROVE  UNCHANGED <<owner, proc>>
  BY <1>6 DEF Create, PublishJob, ApiCrash, Garbage, Elapse, Stall, ReclaimStale, kafka, offsets, vars
<1>7. CASE UNCHANGED <<owner, proc>>
  BY <1>1, <1>7
<1>8. \A u \in Topics : Rebalance(u) \/ Reshuffle(u) => Assign(u)
  BY DEF Rebalance, Reshuffle
<1> QED
  BY <1>2, <1>3, <1>4, <1>5, <1>6, <1>7, <1>8 DEF Next

LEMMA InPlaceStep == IInv /\ InPlace /\ [Next]_vars => InPlace'
<1> SUFFICES ASSUME IInv, InPlace, [Next]_vars
             PROVE  InPlace'
  OBVIOUS
<1>1. IInv'
  BY NextIInv
<1>2. /\ \A t \in Topics, k \in Partitions : Len(log[t][k]) \in Nat /\ Len(log'[t][k]) \in Nat
      /\ \A t \in Topics, k \in Partitions : committed'[t][k] \in Nat /\ pos'[t][k] \in Nat
  BY <1>1 DEF IInv, LogsOK, GroupOK
<1>3. Grows(log, log')
  BY LogsGrow
<1>4. ASSUME NEW t \in Topics, NEW k \in Partitions
      PROVE  committed'[t][k] <= Len(log'[t][k]) /\ pos'[t][k] <= Len(log'[t][k])
  <2>1. committed'[t][k] <= Len(log[t][k]) /\ pos'[t][k] <= Len(log[t][k])
    BY OffsetsInPlace
  <2>2. Len(log[t][k]) <= Len(log'[t][k])
    BY <1>3 DEF Grows
  <2>3. \A x, y, z \in Nat : x <= y /\ y <= z => x <= z
    OBVIOUS
  <2>4. Len(log[t][k]) \in Nat /\ Len(log'[t][k]) \in Nat
    BY <1>2
  <2>5. committed'[t][k] \in Nat /\ pos'[t][k] \in Nat
    BY <1>2
  <2>6. committed'[t][k] <= Len(log'[t][k])
    BY <2>1, <2>2, <2>3, <2>4, <2>5
  <2>7. pos'[t][k] <= Len(log'[t][k])
    BY <2>1, <2>2, <2>3, <2>4, <2>5
  <2> QED
    BY <2>6, <2>7
<1>5. ASSUME NEW t \in Topics, NEW k \in Partitions, NEW i \in 1..Len(log'[t][k]),
             log'[t][k][i] \in Jobs
      PROVE  PartOf[log'[t][k][i]] = k
  <2>1. CASE i \in 1..Len(log[t][k])
    <3>1. log'[t][k][i] = log[t][k][i]
      BY <1>3, <2>1 DEF Grows
    <3> QED
      BY <1>5, <2>1, <3>1 DEF InPlace
  <2>2. CASE i \notin 1..Len(log[t][k])
    BY <1>5, <2>2, NewMessage
  <2> QED
    BY <2>1, <2>2
<1>6. ASSUME NEW a \in Actors, actor'[a].pc # "idle"
      PROVE  /\ actor'[a].off \in 1..Len(log'[TopicOf(a)][actor'[a].part])
             /\ log'[TopicOf(a)][actor'[a].part][actor'[a].off] = actor'[a].job
  <2> DEFINE t == TopicOf(a)
  <2>1. t \in Topics
    BY ActorParts
  <2>2. ASSUME NEW k \in Partitions, actor'[a].part = k, actor'[a].off \in 1..Len(log[t][k]),
               actor'[a].job = log[t][k][actor'[a].off]
        PROVE  /\ actor'[a].off \in 1..Len(log'[t][k])
               /\ log'[t][k][actor'[a].off] = actor'[a].job
    BY <1>2, <1>3, <2>1, <2>2 DEF Grows
  <2>3. CASE /\ actor[a].pc # "idle" /\ actor'[a].job = actor[a].job
             /\ actor'[a].part = actor[a].part /\ actor'[a].off = actor[a].off
    <3>1. actor[a].part \in Partitions
      BY <2>3 DEF IInv, ActorsOK, HandsOK
    <3> QED
      BY <2>2, <2>3, <3>1 DEF InPlace
  <2>4. ASSUME NEW k \in Partitions, Fetch(a, k), actor'[a].part = k,
               actor'[a].off = pos[t][k] + 1, actor'[a].job = log[t][k][pos[t][k] + 1]
        PROVE  /\ actor'[a].off \in 1..Len(log'[t][k])
               /\ log'[t][k][actor'[a].off] = actor'[a].job
    <3>1. pos[t][k] \in Nat /\ pos[t][k] + 1 <= Len(log[t][k])
      BY <2>1, <2>4 DEF Fetch, IInv, GroupOK
    <3>2. pos[t][k] + 1 \in 1..Len(log[t][k])
      BY <1>2, <2>1, <3>1
    <3> QED
      BY <2>2, <2>4, <3>2
  <2> HIDE DEF t
  <2>5. \/ /\ actor[a].pc # "idle" /\ actor'[a].job = actor[a].job
           /\ actor'[a].part = actor[a].part /\ actor'[a].off = actor[a].off
        \/ \E k \in Partitions : /\ Fetch(a, k) /\ actor'[a].part = k /\ actor'[a].off = pos[t][k] + 1
                                 /\ actor'[a].job = log[t][k][pos[t][k] + 1]
    BY <1>6, HandEffect DEF t
  <2> QED
    BY <2>3, <2>4, <2>5 DEF t
<1> QED
  BY <1>4, <1>5, <1>6, OwnersRun DEF InPlace

LEMMA AlwaysInPlace == Spec => []InPlace
<1>1. Init => InPlace
  BY DEF Init, InPlace, Idle
<1> QED
  BY <1>1, InPlaceStep, Invariance, PTL DEF Spec

--------------------------------------------------------------------------------
(* What is settled. *)

\* The owner of a partition has not yet looked at the message it fetched last.
Pending(t, k) ==
    \E a \in Actors : /\ owner[t][k] = a /\ TopicOf(a) = t /\ Fresh(a)
                      /\ actor[a].part = k /\ actor[a].off = pos[t][k]

\* The offsets of a partition that are committed, or that a commit may still write:
\* that of a hand past its claim or its publish, the one before a hand that is not, and
\* the position of an owner that has nothing pending, whose next message may be one that
\* does not decode; not after SIGTERM, when an owner fetches no more.
Settled(t, k, n) ==
    \/ n = committed[t][k]
    \/ \E a \in Actors : /\ TopicOf(a) = t /\ actor[a].pc # "idle" /\ actor[a].part = k
                         /\ n = IF Fresh(a) THEN actor[a].off - 1 ELSE actor[a].off
    \/ n = pos[t][k] /\ ~ Pending(t, k) /\ (owner[t][k] # NoOne => Up(owner[t][k]))

\* Message n of the partition is looked at in this step, or is none.
LookedAt(t, k, n) ==
    /\ n \in 1..Len(log[t][k])
    /\ \/ log[t][k][n] = NoJob
       \/ \E a \in Actors : /\ TopicOf(a) = t /\ actor[a].part = k /\ actor[a].off = n
                            /\ Fresh(a) /\ (Claim(a) \/ (Up(a) /\ Forward(a)))

\* The committed offset moves to that of a message that does not decode, or of a hand
\* at its commit.
LEMMA CommittedEffect ==
    ASSUME IInv, [Next]_vars, NEW t \in Topics, NEW k \in Partitions
    PROVE  \/ committed'[t][k] = committed[t][k]
           \/ \E a \in Actors : /\ Fetch(a, k) /\ TopicOf(a) = t
                                /\ committed'[t][k] = pos[t][k] + 1
                                /\ log[t][k][pos[t][k] + 1] = NoJob
           \/ \E a \in Actors : /\ Commit(a) /\ TopicOf(a) = t /\ actor[a].part = k
                                /\ committed'[t][k] = actor[a].off
<1>1. committed \in [Topics -> [Partitions -> Nat]]
  BY DEF IInv, GroupOK
<1>2. ASSUME NEW a \in Actors, NEW l \in Partitions, Fetch(a, l)
      PROVE  \/ committed'[t][k] = committed[t][k]
             \/ /\ Fetch(a, k) /\ TopicOf(a) = t
                /\ committed'[t][k] = pos[t][k] + 1
                /\ log[t][k][pos[t][k] + 1] = NoJob
  <2>1. /\ TopicOf(a) \in Topics
        /\ \/ committed' = committed
           \/ /\ committed' = [committed EXCEPT ![TopicOf(a)][l] = pos[TopicOf(a)][l] + 1]
              /\ log[TopicOf(a)][l][pos[TopicOf(a)][l] + 1] = NoJob
    BY <1>2, ActorParts DEF Fetch, SkipUndecodable
  <2>2. CASE t = TopicOf(a) /\ k = l
    BY <1>1, <1>2, <2>1, <2>2
  <2>3. CASE t # TopicOf(a) \/ k # l
    BY <1>1, <2>1, <2>3
  <2> QED
    BY <2>2, <2>3
<1>3. ASSUME NEW a \in Actors, Commit(a)
      PROVE  \/ committed'[t][k] = committed[t][k]
             \/ TopicOf(a) = t /\ actor[a].part = k /\ committed'[t][k] = actor[a].off
  <2>1. committed' = committed \/ committed' = Marked(a)
    BY <1>3 DEF Commit
  <2>2. actor[a].part \in Partitions /\ TopicOf(a) \in Topics
    BY <1>3, ActorParts DEF Commit, IInv, ActorsOK, HandsOK
  <2> QED
    BY <1>1, <2>1, <2>2 DEF Marked
<1>4. ASSUME \/ \E r \in Requests : Create(r) \/ PublishJob(r) \/ ApiCrash(r)
             \/ \E a \in Actors : \/ Claim(a) \/ Run(a) \/ RecordRuns(a) \/ Complete(a)
                                  \/ MarkFailure(a) \/ PublishRetry(a) \/ PublishDLQ(a) \/ Forward(a)
             \/ \E u \in Topics : Rebalance(u) \/ Reshuffle(u)
             \/ \E l \in Partitions : Garbage(l)
             \/ \E j \in Jobs : Elapse(j) \/ Stall(j)
             \/ ReclaimStale
             \/ \E p \in Procs : Crash(p) \/ Shutdown(p) \/ Exit(p) \/ Restart(p)
             \/ UNCHANGED vars
      PROVE  UNCHANGED committed
  BY <1>4 DEF Create, PublishJob, ApiCrash, Claim, Run, RecordRuns, Complete, MarkFailure,
              PublishRetry, PublishDLQ, Forward, Rebalance, Reshuffle, Assign, Garbage, Elapse,
              Stall, ReclaimStale, Crash, Shutdown, Exit, Restart, kafka, offsets, vars
<1> QED
  BY <1>2, <1>3, <1>4 DEF Next, Step

\* The position of a partition moves to the next message, or back to the committed
\* offset; otherwise its owner stays, and lets go of a message it has not looked at only
\* by the publish of a forwarder.
LEMMA PositionEffect ==
    ASSUME IInv, [Next]_vars, NEW t \in Topics, NEW k \in Partitions
    PROVE  \/ pos'[t][k] = committed[t][k]
           \/ \E a \in Actors : /\ Fetch(a, k) /\ TopicOf(a) = t
                                /\ pos'[t][k] = pos[t][k] + 1 /\ owner'[t][k] = owner[t][k]
           \/ /\ pos'[t][k] = pos[t][k] /\ owner'[t][k] = owner[t][k]
              /\ \A a \in Actors : owner[t][k] = a /\ Fresh(a) /\ actor'[a].pc = "idle" => Forward(a)
<1> DEFINE Same == /\ pos'[t][k] = pos[t][k] /\ owner'[t][k] = owner[t][k]
                   /\ \A a \in Actors : owner[t][k] = a /\ Fresh(a) /\ actor'[a].pc = "idle"
                                           => Forward(a)
<1>1. /\ actor \in [Actors -> ActorType]
      /\ owner \in [Topics -> [Partitions -> Actors \cup {NoOne}]]
      /\ pos \in [Topics -> [Partitions -> Nat]]
  BY DEF IInv, ActorsOK, GroupOK
<1>2. ASSUME actor' = actor, pos' = pos, owner' = owner
      PROVE  Same
  BY <1>2 DEF Fresh
<1>3. ASSUME NEW a \in Actors, NEW l \in Partitions, Fetch(a, l)
      PROVE  \/ Same
             \/ /\ Fetch(a, k) /\ TopicOf(a) = t
                /\ pos'[t][k] = pos[t][k] + 1 /\ owner'[t][k] = owner[t][k]
  <2>1. /\ TopicOf(a) \in Topics /\ actor[a].pc = "idle"
        /\ pos' = [pos EXCEPT ![TopicOf(a)][l] = pos[TopicOf(a)][l] + 1] /\ owner' = owner
        /\ \A b \in Actors : b # a => actor'[b] = actor[b]
    BY <1>1, <1>3, ActorParts DEF Fetch
  <2>2. CASE t = TopicOf(a) /\ k = l
    BY <1>1, <1>3, <2>1, <2>2
  <2>3. CASE t # TopicOf(a) \/ k # l
    BY <1>1, <2>1, <2>3 DEF Fresh
  <2> QED
    BY <2>2, <2>3
<1>4. ASSUME NEW a \in Actors,
             \/ Claim(a) \/ Run(a) \/ RecordRuns(a) \/ Complete(a) \/ MarkFailure(a)
             \/ PublishRetry(a) \/ PublishDLQ(a) \/ Commit(a)
      PROVE  Same
  <2>1. pos' = pos /\ owner' = owner
    BY <1>4 DEF Claim, Run, RecordRuns, Complete, MarkFailure, PublishRetry, PublishDLQ, Commit,
                kafka, offsets
  <2>2. \A b \in Actors : Fresh(b) => actor'[b].pc # "idle"
    BY <1>1, <1>4 DEF Claim, Run, RecordRuns, Complete, MarkFailure, PublishRetry, PublishDLQ,
                      Commit, Goto, Fresh, ActorType
  <2> QED
    BY <2>1, <2>2
<1>5. ASSUME NEW a \in Actors, Forward(a)
      PROVE  Same
  <2>1. pos' = pos /\ owner' = owner
    BY <1>5 DEF Forward, offsets
  <2>2. \A b \in Actors : b # a => actor'[b] = actor[b]
    BY <1>1, <1>5 DEF Forward, Goto
  <2> QED
    BY <1>5, <2>1, <2>2 DEF Fresh
<1>6. ASSUME NEW u \in Topics, Assign(u)
      PROVE  Same \/ pos'[t][k] = committed[t][k]
  BY <1>1, <1>6 DEF Assign, Fresh
<1>7. ASSUME NEW p \in Procs, Crash(p) \/ Exit(p)
      PROVE  Same \/ pos'[t][k] = committed[t][k]
  <2>1. Leave(p)
    BY <1>7 DEF Crash, Exit
  <2>2. CASE owner[t][k] # NoOne /\ ProcOf(owner[t][k]) = p
    BY <2>1, <2>2 DEF Leave
  <2>3. CASE ~ (owner[t][k] # NoOne /\ ProcOf(owner[t][k]) = p)
    <3>1. pos'[t][k] = pos[t][k] /\ owner'[t][k] = owner[t][k]
      BY <2>1, <2>3 DEF Leave
    <3>2. \A a \in Actors : owner[t][k] = a => actor'[a] = actor[a]
      BY <1>7, <2>3, ActorParts DEF Crash, Exit
    <3> QED
      BY <3>1, <3>2 DEF Fresh
  <2> QED
    BY <2>2, <2>3
<1>8. ASSUME \/ \E r \in Requests : Create(r) \/ PublishJob(r) \/ ApiCrash(r)
             \/ \E l \in Partitions : Garbage(l)
             \/ \E j \in Jobs : Elapse(j) \/ Stall(j)
             \/ ReclaimStale
             \/ \E p \in Procs : Shutdown(p)
             \/ UNCHANGED vars
      PROVE  actor' = actor /\ pos' = pos /\ owner' = owner
  BY <1>8 DEF Create, PublishJob, ApiCrash, Garbage, Elapse, Stall, ReclaimStale, Shutdown,
              kafka, offsets, vars
<1>9. \A u \in Topics : Rebalance(u) \/ Reshuffle(u) => Assign(u)
  BY DEF Rebalance, Reshuffle
<1>10. ASSUME NEW p \in Procs, Restart(p)
       PROVE  pos'[t][k] = committed[t][k]
  BY <1>10 DEF Restart
<1> HIDE DEF Same
<1>11. \/ Same \/ pos'[t][k] = committed[t][k]
       \/ \E a \in Actors : /\ Fetch(a, k) /\ TopicOf(a) = t
                            /\ pos'[t][k] = pos[t][k] + 1 /\ owner'[t][k] = owner[t][k]
  BY <1>2, <1>3, <1>4, <1>5, <1>6, <1>7, <1>8, <1>9, <1>10 DEF Next, Step
<1> QED
  BY <1>11 DEF Same

\* What a hand settles: the offset before its message until it is looked at, then its own.
LEMMA HandSettles ==
    ASSUME NEW a \in Actors, actor[a].pc # "idle"
    PROVE  /\ Fresh(a) => Settled(TopicOf(a), actor[a].part, actor[a].off - 1)
           /\ ~ Fresh(a) => Settled(TopicOf(a), actor[a].part, actor[a].off)
BY DEF Settled

\* An offset is settled one message at a time, and only by looking at the message.
LEMMA SettledStep ==
    ASSUME IInv, InPlace, [Next]_vars, NEW t \in Topics, NEW k \in Partitions, NEW n,
           (Settled(t, k, n))'
    PROVE  \/ Settled(t, k, n)
           \/ n \in Nat \ {0} /\ Settled(t, k, n - 1) /\ LookedAt(t, k, n)
<1> DEFINE Next1(m) == m \in Nat \ {0} /\ Settled(t, k, m - 1) /\ LookedAt(t, k, m)
<1>1. pos[t][k] \in Nat /\ Len(log[t][k]) \in Nat
  BY DEF IInv, GroupOK, LogsOK
<1>2. \A a \in Actors : actor[a].pc # "idle" => actor[a].off \in Nat \ {0}
  <2> SUFFICES ASSUME NEW a \in Actors, actor[a].pc # "idle"
               PROVE  actor[a].off \in Nat \ {0}
    OBVIOUS
  <2>1. actor[a].part \in Partitions /\ TopicOf(a) \in Topics
    BY ActorParts DEF IInv, ActorsOK, HandsOK
  <2>2. Len(log[TopicOf(a)][actor[a].part]) \in Nat
    BY <2>1 DEF IInv, LogsOK
  <2> QED
    BY <2>2 DEF InPlace
<1>3. \* the next message of an owner with nothing in hand
      ASSUME NEW a \in Actors, Fetch(a, k), TopicOf(a) = t
      PROVE  Settled(t, k, pos[t][k])
  <2>1. ~ Pending(t, k) /\ owner[t][k] # NoOne /\ Up(owner[t][k])
    BY <1>3, ActorParts DEF Fetch, Pending, Fresh
  <2> QED
    BY <2>1 DEF Settled
<1>4. \* a hand that has been looked at
      ASSUME NEW a \in Actors, Fresh(a), Claim(a) \/ (Up(a) /\ Forward(a)), TopicOf(a) = t,
             actor[a].part = k
      PROVE  Next1(actor[a].off)
  BY <1>2, <1>4, HandSettles DEF LookedAt, Fresh, InPlace
<1>5. CASE n = committed'[t][k]
  <2>1. CASE committed'[t][k] = committed[t][k]
    BY <1>5, <2>1 DEF Settled
  <2>2. ASSUME NEW a \in Actors, Fetch(a, k), TopicOf(a) = t,
               committed'[t][k] = pos[t][k] + 1, log[t][k][pos[t][k] + 1] = NoJob
        PROVE  Next1(n)
    <3>1. pos[t][k] + 1 \in 1..Len(log[t][k])
      BY <1>1, <2>2 DEF Fetch
    <3> QED
      <4>1. n = pos[t][k] + 1 /\ n - 1 = pos[t][k]
        BY <1>1, <1>5, <2>2
      <4>2. Settled(t, k, n - 1)
        BY <1>3, <2>2, <4>1
      <4> QED
        BY <1>1, <2>2, <3>1, <4>1, <4>2 DEF LookedAt
  <2>3. ASSUME NEW a \in Actors, Commit(a), TopicOf(a) = t, actor[a].part = k,
               committed'[t][k] = actor[a].off
        PROVE  Settled(t, k, n)
    BY <1>5, <2>3, HandSettles DEF Commit, Fresh
  <2> QED
    BY <2>1, <2>2, <2>3, CommittedEffect
<1>6. ASSUME NEW a \in Actors, TopicOf(a) = t, actor'[a].pc # "idle", actor'[a].part = k,
             n = IF (Fresh(a))' THEN actor'[a].off - 1 ELSE actor'[a].off
      PROVE  Settled(t, k, n) \/ Next1(n)
  <2>1. CASE /\ actor[a].pc # "idle"
             /\ actor'[a].job = actor[a].job /\ actor'[a].part = actor[a].part
             /\ actor'[a].off = actor[a].off
             /\ (Fresh(a))' => Fresh(a)
             /\ Fresh(a) /\ ~ (Fresh(a))' => Claim(a) \/ (Up(a) /\ Forward(a))
    <3>1. CASE Fresh(a) /\ ~ (Fresh(a))'
      BY <1>4, <1>6, <2>1, <3>1
    <3>2. CASE Fresh(a) <=> (Fresh(a))'
      BY <1>6, <2>1, <3>2, HandSettles
    <3> QED
      BY <2>1, <3>1, <3>2
  <2>2. ASSUME NEW l \in Partitions, Fetch(a, l), (Fresh(a))',
               actor'[a].part = l, actor'[a].off = pos[t][l] + 1
        PROVE  Settled(t, k, n)
    BY <1>1, <1>3, <1>6, <2>2
  <2> QED
    BY <1>6, <2>1, <2>2, HandEffect
<1>7. CASE /\ n = pos'[t][k] /\ ~ (Pending(t, k))'
           /\ owner'[t][k] # NoOne => (Up(owner[t][k]))'
  <2>1. CASE pos'[t][k] = committed[t][k]
    BY <1>7, <2>1 DEF Settled
  <2>2. ASSUME NEW a \in Actors, Fetch(a, k), TopicOf(a) = t, pos'[t][k] = pos[t][k] + 1,
               owner'[t][k] = owner[t][k]
        PROVE  Next1(n)
    <3>1. owner[t][k] = a
      BY <2>2 DEF Fetch
    <3>2. log[t][k][pos[t][k] + 1] = NoJob
      <4> SUFFICES ASSUME log[t][k][pos[t][k] + 1] # NoJob
                   PROVE  FALSE
        OBVIOUS
      <4> DEFINE h == [pc |-> IF t = Main THEN "claim" ELSE "forward",
                       job |-> log[t][k][pos[t][k] + 1],
                       part |-> k, off |-> pos[t][k] + 1, att |-> 0]
      <4>1. actor'[a] = h
        BY <2>2 DEF Fetch, IInv, ActorsOK
      <4>2. (Fresh(a))' /\ actor'[a].part = k /\ actor'[a].off = pos'[t][k]
        BY <2>2, <4>1 DEF Fresh
      <4> QED
        BY <1>7, <2>2, <3>1, <4>2 DEF Pending
    <3>3. pos[t][k] + 1 \in 1..Len(log[t][k])
      BY <1>1, <2>2 DEF Fetch
    <3> QED
      <4>1. n = pos[t][k] + 1 /\ n - 1 = pos[t][k]
        BY <1>1, <1>7, <2>2
      <4>2. Settled(t, k, n - 1)
        BY <1>3, <2>2, <4>1
      <4> QED
        BY <1>1, <3>2, <3>3, <4>1, <4>2 DEF LookedAt
  <2>3. CASE /\ pos'[t][k] = pos[t][k] /\ owner'[t][k] = owner[t][k]
             /\ \A a \in Actors : owner[t][k] = a /\ Fresh(a) /\ actor'[a].pc = "idle" => Forward(a)
    <3>0. owner[t][k] # NoOne => Up(owner[t][k])
      <4> SUFFICES ASSUME owner[t][k] # NoOne
                   PROVE  Up(owner[t][k])
        OBVIOUS
      <4>1. owner[t][k] \in Actors /\ proc[ProcOf(owner[t][k])] # "down"
        BY <1>7, <2>3 DEF InPlace, IInv, GroupOK
      <4>2. proc'[ProcOf(owner[t][k])] = "up"
        BY <1>7, <2>3 DEF Up
      <4> QED
        BY <1>7, <2>3, <4>1, <4>2, ActorParts, ComesUp DEF Up
    <3>1. CASE ~ Pending(t, k)
      BY <1>7, <2>3, <3>0, <3>1 DEF Settled
    <3>2. CASE Pending(t, k)
      <4>1. PICK a \in Actors : /\ owner[t][k] = a /\ TopicOf(a) = t /\ Fresh(a)
                                /\ actor[a].part = k /\ actor[a].off = pos[t][k]
        BY <3>2 DEF Pending
      <4>2. Claim(a) \/ (Up(a) /\ Forward(a))
        <5>1. CASE actor'[a].pc = "idle"
          BY <2>3, <3>0, <4>1, <5>1, ActorParts
        <5>2. CASE actor'[a].pc # "idle"
          <6>1. /\ actor'[a].part = actor[a].part /\ actor'[a].off = actor[a].off
                /\ Fresh(a) /\ ~ (Fresh(a))' => Claim(a) \/ (Up(a) /\ Forward(a))
            BY <4>1, <5>2, HandEffect DEF Fetch, Fresh
          <6>2. ~ (Fresh(a))'
            BY <1>7, <2>3, <4>1, <6>1 DEF Pending
          <6> QED
            BY <4>1, <6>1, <6>2
        <5> QED
          BY <5>1, <5>2
      <4> QED
        BY <1>4, <1>7, <2>3, <4>1, <4>2
    <3> QED
      BY <3>1, <3>2
  <2> QED
    BY <2>1, <2>2, <2>3, PositionEffect
<1> QED
  BY <1>5, <1>6, <1>7 DEF Settled

\* What is settled is in the log.
LEMMA SettledInLog ==
    ASSUME IInv, InPlace, NEW t \in Topics, NEW k \in Partitions, NEW n, Settled(t, k, n)
    PROVE  n \in 0..Len(log[t][k])
<1>1. /\ committed[t][k] \in Nat /\ pos[t][k] \in Nat /\ Len(log[t][k]) \in Nat
      /\ committed[t][k] <= Len(log[t][k]) /\ pos[t][k] <= Len(log[t][k])
  BY DEF IInv, GroupOK, LogsOK, InPlace
<1>2. ASSUME NEW a \in Actors, TopicOf(a) = t, actor[a].pc # "idle", actor[a].part = k
      PROVE  actor[a].off \in 0..Len(log[t][k]) /\ actor[a].off - 1 \in 0..Len(log[t][k])
  <2>1. actor[a].off \in 1..Len(log[t][k])
    BY <1>2 DEF InPlace
  <2> QED
    BY <1>1, <2>1
<1>3. committed[t][k] \in 0..Len(log[t][k]) /\ pos[t][k] \in 0..Len(log[t][k])
  BY <1>1
<1> QED
  BY <1>2, <1>3 DEF Settled

--------------------------------------------------------------------------------
(* Delay topics: what is committed was forwarded. *)

\* Every message was delivered on the main topic before it was retried.
FirstDelivery ==
    \A t \in Topics, k \in Partitions : \A i \in 1..Len(log[t][k]) : log[t][k][i] \in Jobs =>
        \E m \in 1..Len(log[Main][k]) : log[Main][k][m] = log[t][k][i]

LEMMA FirstDeliveryStep ==
    ASSUME IInv, InPlace, FirstDelivery, [Next]_vars
    PROVE  FirstDelivery'
<1> SUFFICES ASSUME NEW t \in Topics, NEW k \in Partitions, NEW i \in 1..Len(log'[t][k]),
                    log'[t][k][i] \in Jobs
             PROVE  \E m \in 1..Len(log'[Main][k]) : log'[Main][k][m] = log'[t][k][i]
  BY DEF FirstDelivery
<1>1. /\ Main \in Topics /\ Len(log[Main][k]) \in Nat /\ Len(log'[Main][k]) \in Nat
      /\ Len(log[Main][k]) <= Len(log'[Main][k])
      /\ \A m \in 1..Len(log[Main][k]) : log'[Main][k][m] = log[Main][k][m]
  <2>1. Main \in Topics
    BY DEF Main, Topics
  <2>2. IInv'
    BY NextIInv
  <2> QED
    BY <2>1, <2>2, LogsGrow DEF Grows, IInv, LogsOK
<1>2. ASSUME NEW m \in 1..Len(log[Main][k]), log[Main][k][m] = log'[t][k][i]
      PROVE  \E l \in 1..Len(log'[Main][k]) : log'[Main][k][l] = log'[t][k][i]
  <2>1. m \in 1..Len(log'[Main][k])
    BY <1>1
  <2> QED
    BY <1>1, <1>2, <2>1
<1>3. CASE i \in 1..Len(log[t][k])
  <2>1. log'[t][k][i] = log[t][k][i]
    BY <1>3, LogsGrow DEF Grows
  <2> QED
    BY <1>2, <1>3, <2>1 DEF FirstDelivery
<1>4. CASE i \notin 1..Len(log[t][k])
  <2>1. CASE t = Main
    BY <2>1
  <2>2. CASE t # Main
    <3>1. PICK a \in Consumers : PublishRetry(a) /\ actor[a].job = log'[t][k][i]
      BY <1>4, <2>2, NewMessage
    <3>2. PartOf[log'[t][k][i]] = k
      BY <1>4, NewMessage
    <3>3. a \in Actors /\ actor[a].pc # "idle" /\ TopicOf(a) = Main
      BY <3>1 DEF PublishRetry, Actors, Consumers, TopicOf
    <3>4. /\ actor[a].part \in Partitions
          /\ actor[a].off \in 1..Len(log[Main][actor[a].part])
          /\ log[Main][actor[a].part][actor[a].off] = actor[a].job
      BY <3>3 DEF InPlace, IInv, ActorsOK, HandsOK
    <3>5. PartOf[actor[a].job] = actor[a].part
      <4>1. log[Main][actor[a].part][actor[a].off] \in Jobs
        BY <3>1, <3>4
      <4>2. PartOf[log[Main][actor[a].part][actor[a].off]] = actor[a].part
        BY <1>1, <3>4, <4>1 DEF InPlace
      <4> QED
        BY <3>4, <4>2
    <3> QED
      BY <1>2, <3>1, <3>2, <3>4, <3>5
  <2> QED
    BY <2>1, <2>2
<1> QED
  BY <1>3, <1>4

\* The retries of j up to the offsets n of its delay partitions, and its deliveries.
Retries(j, n) == UNION {{t} \X Copies(t, j, n[t]) : t \in Tiers}
Deliveries(j) == Copies(Main, j, Len(log[Main][PartOf[j]]))
Behind(j, n) == Retries(j, n) # {} => Cardinality(Retries(j, n)) < Cardinality(Deliveries(j))

\* Wherever the offsets of the delay topics may be committed to, the retries up to
\* there have been put back.
FInv ==
    /\ FirstDelivery
    /\ \A j \in Jobs : \A n \in [Tiers -> Nat] :
          (\A t \in Tiers : Settled(t, PartOf[j], n[t])) => Behind(j, n)

LEMMA CopiesFinite ==
    ASSUME NEW t, NEW j, NEW n \in Nat
    PROVE  IsFiniteSet(Copies(t, j, n))
<1>1. IsFiniteSet(1..n)
  BY FS_Interval
<1>2. Copies(t, j, n) \in SUBSET (1..n)
  BY DEF Copies
<1> QED
  BY <1>1, <1>2, FS_Subset

LEMMA RetriesFinite ==
    ASSUME NEW j, NEW n \in [Tiers -> Nat]
    PROVE  IsFiniteSet(Retries(j, n))
<1> DEFINE Of(t) == {t} \X Copies(t, j, n[t])
           R == {Of(t) : t \in Tiers}
           of == [t \in Tiers |-> Of(t)]
<1>1. Retries(j, n) = UNION R
  BY DEF Retries
<1>2. \A t \in Tiers : IsFiniteSet(Of(t))
  BY FS_Singleton, CopiesFinite, FS_Product
<1>3. IsFiniteSet(Tiers)
  BY TiersAssumption, FS_Interval DEF Tiers
<1>4. of \in Surjection(Tiers, R)
  BY DEF Surjection
<1> HIDE DEF Of, of
<1>5. IsFiniteSet(R) /\ \A x \in R : IsFiniteSet(x)
  BY <1>2, <1>3, <1>4, FS_Surjection
<1> HIDE DEF R
<1> QED
  BY <1>1, <1>5, FS_UNION

LEMMA DeliveriesFinite ==
    ASSUME IInv, NEW j \in Jobs
    PROVE  IsFiniteSet(Deliveries(j)) /\ Cardinality(Deliveries(j)) \in Nat
<1>1. Len(log[Main][PartOf[j]]) \in Nat
  BY PartitionsAssumption DEF Main, Topics, IInv, LogsOK
<1> QED
  BY <1>1, CopiesFinite, FS_CardinalityType DEF Deliveries

LEMMA DeliveriesGrow ==
    ASSUME IInv, [Next]_vars, NEW j \in Jobs
    PROVE  Deliveries(j) \subseteq (Deliveries(j))'
<1>1. Main \in Topics /\ PartOf[j] \in Partitions
  BY PartitionsAssumption DEF Main, Topics
<1>2. IInv'
  BY NextIInv
<1>3. /\ Len(log[Main][PartOf[j]]) \in Nat /\ Len(log'[Main][PartOf[j]]) \in Nat
      /\ Len(log[Main][PartOf[j]]) <= Len(log'[Main][PartOf[j]])
      /\ \A i \in 1..Len(log[Main][PartOf[j]]) : log'[Main][PartOf[j]][i] = log[Main][PartOf[j]][i]
  BY <1>1, <1>2, LogsGrow DEF Grows, IInv, LogsOK
<1> QED
  BY <1>3 DEF Deliveries, Copies

\* What is in hand at a forwarder: a retry of a delay topic, in the partition of its job.
LEMMA ForwarderHand ==
    ASSUME IInv, InPlace, NEW a \in Actors, Forward(a)
    PROVE  /\ TopicOf(a) \in Tiers /\ actor[a].job \in Jobs
           /\ actor[a].part = PartOf[actor[a].job]
           /\ actor[a].off \in 1..Len(log[TopicOf(a)][actor[a].part])
           /\ log[TopicOf(a)][actor[a].part][actor[a].off] = actor[a].job
<1> DEFINE l == log[TopicOf(a)][actor[a].part]
<1>1. a \in Forwarders /\ actor[a].job \in Jobs /\ actor[a].part \in Partitions
  BY DEF Forward, IInv, ActorsOK, HandsOK
<1>2. TopicOf(a) \in Tiers /\ TopicOf(a) \in Topics
  BY <1>1 DEF Forwarders, TopicOf, Topics
<1>3. actor[a].off \in 1..Len(l) /\ l[actor[a].off] = actor[a].job
  BY DEF Forward, InPlace
<1>4. l[actor[a].off] \in Jobs => PartOf[l[actor[a].off]] = actor[a].part
  BY <1>1, <1>2, <1>3 DEF InPlace
<1> QED
  BY <1>1, <1>2, <1>3, <1>4

\* A forwarder that publishes adds a delivery.
LEMMA ForwardDelivers ==
    ASSUME "forward" \notin Faults, IInv, InPlace, NEW a \in Actors, Up(a), Forward(a),
           NEW j \in Jobs, actor[a].job = j
    PROVE  \E x : x \notin Deliveries(j) /\ Deliveries(j) \cup {x} \subseteq (Deliveries(j))'
<1> DEFINE k == PartOf[j]
           x == Len(log[Main][k]) + 1
<1>1. Main \in Topics /\ k \in Partitions
  BY PartitionsAssumption DEF Main, Topics
<1>2. Len(log[Main][k]) \in Nat
  BY <1>1 DEF IInv, LogsOK
<1>3. Published(Main, j)
  BY DEF Forward, Fails, Fault, Up
<1>4. PICK n \in 1..2 : log' = Sent(Main, j, n)
  BY <1>3 DEF Published
<1>5. Added(Main, k, j, n)
  BY <1>1, <1>4, SendEffect DEF IInv
<1>6. x \notin Deliveries(j)
  BY <1>2 DEF Deliveries, Copies
<1>7. Deliveries(j) \cup {x} \subseteq (Deliveries(j))'
  <2>1. /\ Len(log'[Main][k]) = Len(log[Main][k]) + n
        /\ \A i \in 1..Len(log[Main][k]) : log'[Main][k][i] = log[Main][k][i]
    BY <1>5 DEF Added
  <2>2. x \in Len(log[Main][k]) + 1 .. Len(log[Main][k]) + n
    BY <1>2
  <2>3. log'[Main][k][x] = j
    BY <1>5, <2>2 DEF Added
  <2>4. x \in 1..Len(log'[Main][k]) /\ 1..Len(log[Main][k]) \subseteq 1..Len(log'[Main][k])
    BY <1>2, <2>1
  <2> HIDE DEF x
  <2> QED
    BY <2>1, <2>3, <2>4 DEF Deliveries, Copies
<1> QED
  BY <1>6, <1>7

\* Messages below an offset of the log stay what they are.
LEMMA CopiesStay ==
    ASSUME IInv, [Next]_vars, NEW t \in Topics, NEW j \in Jobs,
           NEW n \in 0..Len(log[t][PartOf[j]])
    PROVE  (Copies(t, j, n))' = Copies(t, j, n)
<1>1. PartOf[j] \in Partitions
  BY PartitionsAssumption
<1>2. Len(log[t][PartOf[j]]) \in Nat
  BY <1>1 DEF IInv, LogsOK
<1>3. \A i \in 1..Len(log[t][PartOf[j]]) : log'[t][PartOf[j]][i] = log[t][PartOf[j]][i]
  BY <1>1, LogsGrow DEF Grows
<1>4. \A i \in 1..n : i \in 1..Len(log[t][PartOf[j]])
  BY <1>2
<1> QED
  BY <1>3, <1>4 DEF Copies

LEMMA FInvStep ==
    ASSUME "forward" \notin Faults, IInv, InPlace, FInv, [Next]_vars
    PROVE  FInv'
<1>1. FirstDelivery'
  BY FirstDeliveryStep DEF FInv
<1>2. ASSUME NEW j \in Jobs, NEW n \in [Tiers -> Nat],
             \A t \in Tiers : (Settled(t, PartOf[j], n[t]))'
      PROVE  (Behind(j, n))'
  <2> DEFINE k == PartOf[j]
             m == [t \in Tiers |-> IF Settled(t, k, n[t]) THEN n[t] ELSE n[t] - 1]
             Forwards(a) == Up(a) /\ Forward(a) /\ actor[a].job = j
  <2>1. k \in Partitions /\ Tiers \subseteq Topics
    BY PartitionsAssumption DEF Topics
  <2>2. \A t \in Tiers : \/ Settled(t, k, n[t])
                         \/ n[t] \in Nat \ {0} /\ Settled(t, k, n[t] - 1) /\ LookedAt(t, k, n[t])
    BY <1>2, <2>1, SettledStep
  <2>3. m \in [Tiers -> Nat] /\ \A t \in Tiers : Settled(t, k, m[t])
    BY <2>2
  <2>4. Behind(j, m)
    BY <2>3 DEF FInv
  <2>5. \A t \in Tiers : n[t] \in 0..Len(log[t][k])
    BY <2>1, <2>2, SettledInLog DEF LookedAt
  <2>6. (Retries(j, n))' = Retries(j, n)
    <3>1. \A t \in Tiers : (Copies(t, j, n[t]))' = Copies(t, j, n[t])
      BY <2>1, <2>5, CopiesStay
    <3> QED
      BY <3>1 DEF Retries
  <2>7. \* what n has and m has not is being forwarded
        ASSUME NEW t \in Tiers, NEW i \in Copies(t, j, n[t]), i \notin Copies(t, j, m[t])
        PROVE  \E a \in Actors : Forwards(a) /\ TopicOf(a) = t /\ actor[a].off = i
    <3>1. ~ Settled(t, k, n[t]) /\ m[t] = n[t] - 1 /\ n[t] \in Nat \ {0} /\ LookedAt(t, k, n[t])
      BY <2>2, <2>7
    <3>2. i = n[t] /\ log[t][k][n[t]] = j
      BY <2>7, <3>1 DEF Copies
    <3>3. PICK a \in Actors : /\ TopicOf(a) = t /\ actor[a].part = k /\ actor[a].off = n[t]
                              /\ Fresh(a) /\ (Claim(a) \/ (Up(a) /\ Forward(a)))
      BY <3>1, <3>2, JobsAssumption DEF LookedAt
    <3>4. ~ Claim(a)
      <4> SUFFICES ASSUME Claim(a) PROVE FALSE
        OBVIOUS
      <4>1. a \in Consumers
        BY WorkerHand DEF Claim
      <4>2. TopicOf(a) = Main
        BY <4>1 DEF Consumers, TopicOf
      <4> QED
        BY <3>3, <4>2 DEF Main, Tiers
    <3>5. actor[a].job = j
      BY <3>2, <3>3 DEF Fresh, InPlace
    <3> QED
      BY <3>2, <3>3, <3>4, <3>5
  <2>8. /\ IsFiniteSet(Retries(j, n)) /\ Cardinality(Retries(j, n)) \in Nat
        /\ IsFiniteSet(Retries(j, m)) /\ Cardinality(Retries(j, m)) \in Nat
    BY <2>3, RetriesFinite, FS_CardinalityType
  <2>9. /\ IsFiniteSet(Deliveries(j)) /\ Cardinality(Deliveries(j)) \in Nat
        /\ (IsFiniteSet(Deliveries(j)) /\ Cardinality(Deliveries(j)) \in Nat)'
    <3>1. IInv'
      BY NextIInv
    <3>2. (IsFiniteSet(Deliveries(j)) /\ Cardinality(Deliveries(j)) \in Nat)'
      BY <3>1, DeliveriesFinite, PTL
    <3> QED
      BY <3>2, DeliveriesFinite
  <2> HIDE DEF m
  <2>10. CASE ~ \E a \in Actors : Forwards(a)
    <3>1. Retries(j, n) \in SUBSET Retries(j, m)
      BY <2>7, <2>10 DEF Retries
    <3>2. Cardinality(Retries(j, n)) <= Cardinality(Retries(j, m))
      BY <2>8, <3>1, FS_Subset
    <3>3. Cardinality(Deliveries(j)) <= (Cardinality(Deliveries(j)))'
      BY <2>9, DeliveriesGrow, FS_Subset
    <3>4. Retries(j, n) # {} => Cardinality(Retries(j, m)) < Cardinality(Deliveries(j))
      BY <2>4, <3>1 DEF Behind
    <3> HIDE DEF Forwards
    <3>5. Retries(j, n) # {} => Cardinality(Retries(j, n)) < (Cardinality(Deliveries(j)))'
      BY <2>8, <2>9, <3>2, <3>3, <3>4
    <3> QED
      BY <2>6, <3>5 DEF Behind
  <2>11. ASSUME NEW a \in Actors, Forwards(a)
         PROVE  (Behind(j, n))'
    <3>1. \A b \in Actors : Forwards(b) => b = a
      BY <2>11 DEF Forward, Goto, Idle, IInv, ActorsOK, ActorType
    <3>2. Retries(j, n) \in SUBSET (Retries(j, m) \cup {<<TopicOf(a), actor[a].off>>})
      BY <2>7, <3>1 DEF Retries
    <3>3. Cardinality(Retries(j, n)) <= Cardinality(Retries(j, m)) + 1
      <4> DEFINE R == Retries(j, m)
                 more == R \cup {<<TopicOf(a), actor[a].off>>}
      <4> HIDE DEF R
      <4>1. IsFiniteSet(more) /\ Cardinality(more) <= Cardinality(R) + 1
        <5>1. IsFiniteSet(R) /\ Cardinality(R) \in Nat
          BY <2>8 DEF R
        <5>2. /\ IsFiniteSet(more)
              /\ Cardinality(more) = IF <<TopicOf(a), actor[a].off>> \in R THEN Cardinality(R)
                                     ELSE Cardinality(R) + 1
          BY <5>1, FS_AddElement
        <5> QED
          BY <5>1, <5>2
      <4>2. Cardinality(Retries(j, n)) <= Cardinality(more)
        BY <3>2, <4>1, FS_Subset DEF R
      <4>3. Cardinality(more) \in Nat
        BY <4>1, FS_CardinalityType
      <4> HIDE DEF more
      <4>4. Cardinality(R) \in Nat
        BY <2>8 DEF R
      <4>5. Cardinality(Retries(j, n)) <= Cardinality(R) + 1
        BY <2>8, <4>1, <4>2, <4>3, <4>4
      <4> QED
        BY <4>5 DEF R
    <3>4. Cardinality(Deliveries(j)) + 1 <= (Cardinality(Deliveries(j)))'
      <4>1. PICK x : x \notin Deliveries(j) /\ Deliveries(j) \cup {x} \subseteq (Deliveries(j))'
        BY <2>11, ForwardDelivers
      <4>2. /\ IsFiniteSet(Deliveries(j) \cup {x})
            /\ Cardinality(Deliveries(j) \cup {x}) = Cardinality(Deliveries(j)) + 1
        BY <2>9, <4>1, FS_AddElement
      <4>3. Cardinality(Deliveries(j) \cup {x}) <= (Cardinality(Deliveries(j)))'
        BY <2>9, <4>1, FS_Subset
      <4> QED
        BY <4>2, <4>3
    <3>5. Cardinality(Deliveries(j)) > 0
      <4>1. \E i \in 1..Len(log[Main][k]) : log[Main][k][i] = j
        <5>1. /\ TopicOf(a) \in Topics /\ actor[a].off \in 1..Len(log[TopicOf(a)][k])
              /\ log[TopicOf(a)][k][actor[a].off] = j
          BY <2>1, <2>11, ForwarderHand
        <5>2. \A i \in 1..Len(log[TopicOf(a)][k]) : log[TopicOf(a)][k][i] \in Jobs =>
                 \E l \in 1..Len(log[Main][k]) : log[Main][k][l] = log[TopicOf(a)][k][i]
          BY <2>1, <5>1 DEF FInv, FirstDelivery
        <5> QED
          BY <5>1, <5>2
      <4>2. Deliveries(j) # {}
        BY <4>1 DEF Deliveries, Copies
      <4> QED
        BY <2>9, <4>2, FS_EmptySet
    <3>6. Retries(j, m) = {} => Cardinality(Retries(j, m)) = 0
      BY FS_EmptySet
    <3> HIDE DEF Forwards
    <3>7. Cardinality(Retries(j, m)) < Cardinality(Deliveries(j))
      BY <2>4, <2>8, <2>9, <3>5, <3>6 DEF Behind
    <3>8. Cardinality(Retries(j, n)) < (Cardinality(Deliveries(j)))'
      BY <2>8, <2>9, <3>3, <3>4, <3>7
    <3> QED
      BY <2>6, <3>8 DEF Behind
  <2> QED
    BY <2>10, <2>11
<1> QED
  BY <1>1, <1>2 DEF FInv

LEMMA ForwardedInvariant ==
    ASSUME "forward" \notin Faults
    PROVE  Spec => [](IInv /\ InPlace /\ FInv)
<1>1. Init => FInv
  <2> SUFFICES ASSUME Init
               PROVE  FInv
    OBVIOUS
  <2>1. FirstDelivery
    BY DEF Init, FirstDelivery
  <2>2. ASSUME NEW j \in Jobs, NEW n \in [Tiers -> Nat],
               \A t \in Tiers : Settled(t, PartOf[j], n[t])
        PROVE  Retries(j, n) = {}
    <3>1. PartOf[j] \in Partitions /\ \A t \in Tiers : t \in Topics
      BY PartitionsAssumption DEF Topics
    <3>2. \A t \in Tiers : n[t] = 0
      BY <2>2, <3>1 DEF Init, Settled, Idle
    <3> QED
      BY <3>2 DEF Retries, Copies
  <2> QED
    BY <2>1, <2>2 DEF FInv, Behind
<1>2. FInv /\ IInv /\ InPlace /\ [Next]_vars => FInv'
  BY FInvStep
<1> QED
  BY <1>1, <1>2, AlwaysInPlace, Invariance, PTL DEF Spec

\* A delay-topic message whose offset is committed was put back on the main topic
\* (consumeRetry commits after the publish), for every number of crashes, rebalances,
\* duplicates, shutdowns and failed commits, as long as no forwarder's publish fails.
THEOREM RetriesForwarded ==
    ASSUME "forward" \notin Faults
    PROVE  Spec => []CommittedRetryWasForwarded
<1>1. IInv /\ InPlace /\ FInv => CommittedRetryWasForwarded
  <2> SUFFICES ASSUME IInv, FInv, NEW j \in Jobs
               PROVE  LET n == [t \in Tiers |-> committed[t][PartOf[j]]] IN Behind(j, n)
    BY DEF CommittedRetryWasForwarded, Behind, Retries, Deliveries
  <2> DEFINE n == [t \in Tiers |-> committed[t][PartOf[j]]]
  <2>1. n \in [Tiers -> Nat]
    BY PartitionsAssumption DEF Topics, IInv, GroupOK
  <2>2. \A t \in Tiers : Settled(t, PartOf[j], n[t])
    BY DEF Settled
  <2> QED
    BY <2>1, <2>2 DEF FInv
<1> QED
  BY <1>1, ForwardedInvariant, PTL

--------------------------------------------------------------------------------
(* Waiting rows: a message is on its way. *)

\* What a step makes of the row of j.
LEMMA RowEffect ==
    ASSUME IInv, [Next]_vars, NEW j \in Jobs
    PROVE  \/ row'[j] = row[j]
           \/ \E r \in Requests : Create(r) /\ KeyOf[r] = j /\ row[j].status = "none"
                                    /\ row'[j] = Queued
           \/ \E a \in Consumers :
                 /\ actor[a].job = j
                 /\ \/ Claim(a) /\ CanClaim(row[j]) /\ row'[j] = Claimed(row[j])
                    \/ Complete(a) /\ row'[j] = Completed(row[j])
                    \/ MarkFailure(a) /\ row'[j] = GivenUp(row[j], "run")
           \/ /\ row[j].status = "running"
              /\ \/ /\ row'[j].status = "running" /\ row'[j].attempts = row[j].attempts
                    /\ row'[j].lastError = row[j].lastError
                    /\ (\E i \in Jobs : Elapse(i) \/ Stall(i))
                 \/ ReclaimStale /\ LeaseExpired(row[j]) /\ row'[j] = GivenUp(row[j], "lease")
<1>1. row \in [Jobs -> RowType]
  BY DEF IInv, RowsOK
<1>2. ASSUME NEW r \in Requests, Create(r)
      PROVE  row'[j] = row[j] \/ (KeyOf[r] = j /\ row[j].status = "none" /\ row'[j] = Queued)
  BY <1>1, <1>2, RequestsAssumption DEF Create, Set, SetOrNot
<1>3. ASSUME NEW a \in Actors, Claim(a)
      PROVE  \/ row'[j] = row[j]
             \/ /\ a \in Consumers /\ actor[a].job = j
                /\ CanClaim(row[j]) /\ row'[j] = Claimed(row[j])
  <2>1. a \in Consumers /\ actor[a].job \in Jobs
    BY <1>3, WorkerHand DEF Claim
  <2>2. row' = row \/ (CanClaim(row[actor[a].job])
                        /\ row' = [row EXCEPT ![actor[a].job] = Claimed(row[actor[a].job])])
    BY <1>3 DEF Claim, Set, SetOrNot
  <2> QED
    BY <1>1, <2>1, <2>2
<1>4. ASSUME NEW a \in Actors, Complete(a)
      PROVE  \/ row'[j] = row[j]
             \/ a \in Consumers /\ actor[a].job = j /\ row'[j] = Completed(row[j])
  <2>1. a \in Consumers /\ actor[a].job \in Jobs
    BY <1>4, WorkerHand DEF Complete
  <2>2. row' = row \/ row' = [row EXCEPT ![actor[a].job] = Completed(row[actor[a].job])]
    BY <1>4 DEF Complete, Set, SetOrNot
  <2> QED
    BY <1>1, <2>1, <2>2
<1>5. ASSUME NEW a \in Actors, MarkFailure(a)
      PROVE  \/ row'[j] = row[j]
             \/ a \in Consumers /\ actor[a].job = j /\ row'[j] = GivenUp(row[j], "run")
  <2>1. a \in Consumers /\ actor[a].job \in Jobs
    BY <1>5, WorkerHand DEF MarkFailure
  <2>2. row' = row \/ row' = [row EXCEPT ![actor[a].job] = GivenUp(row[actor[a].job], "run")]
    BY <1>5 DEF MarkFailure, Set, SetOrNot
  <2> QED
    BY <1>1, <2>1, <2>2
<1>6. ASSUME NEW i \in Jobs, Elapse(i) \/ Stall(i)
      PROVE  \/ row'[j] = row[j]
             \/ /\ row[j].status = "running" /\ row'[j].status = "running"
                /\ row'[j].attempts = row[j].attempts /\ row'[j].lastError = row[j].lastError
  <2>1. row[i].status = "running" /\ row' = [row EXCEPT ![i] = [row[i] EXCEPT !.age = @ + 1]]
    BY <1>6 DEF Elapse, Stall, Set
  <2>2. row[i] \in RowType
    BY <1>1
  <2> QED
    BY <1>1, <2>1, <2>2 DEF RowType
<1>7. CASE ReclaimStale
  BY <1>7 DEF ReclaimStale, LeaseExpired
<1>8. ASSUME \/ \E r \in Requests : PublishJob(r) \/ ApiCrash(r)
             \/ \E a \in Actors : \/ \E k \in Partitions : Fetch(a, k)
                                  \/ Run(a) \/ RecordRuns(a) \/ PublishRetry(a) \/ PublishDLQ(a)
                                  \/ Forward(a) \/ Commit(a)
             \/ \E t \in Topics : Rebalance(t) \/ Reshuffle(t)
             \/ \E k \in Partitions : Garbage(k)
             \/ \E p \in Procs : Crash(p) \/ Shutdown(p) \/ Exit(p) \/ Restart(p)
             \/ UNCHANGED vars
      PROVE  row' = row
  BY <1>8 DEF PublishJob, ApiCrash, Fetch, Run, RecordRuns, PublishRetry, PublishDLQ, Forward, Commit,
              Rebalance, Reshuffle, Assign, Garbage, Crash, Shutdown, Exit, Restart, vars
<1> QED
  BY <1>2, <1>3, <1>4, <1>5, <1>6, <1>7, <1>8 DEF Next, Step

\* Every step counts a fault or none.
LEMMA FaultsCounted ==
    ASSUME [Next]_vars
    PROVE  NoFault \/ (\E f : Fault(f)) \/ UNCHANGED vars
<1>1. ASSUME NEW a \in Actors, Step(a)
      PROVE  NoFault \/ \E f : Fault(f)
  <2>1. ASSUME NEW f, Succeeds(a) \/ Fails(a, f)
        PROVE  NoFault \/ \E g : Fault(g)
    BY <2>1 DEF Succeeds, Fails
  <2>2. ASSUME NEW t, NEW j, Published(t, j)
        PROVE  NoFault \/ \E g : Fault(g)
    BY <2>2 DEF Published
  <2> QED
    BY <1>1, <2>1, <2>2 DEF Step, Fetch, SkipUndecodable, Claim, Run, RecordRuns, Complete,
           MarkFailure, PublishRetry, PublishDLQ, Forward, Commit
<1>2. ASSUME NEW r \in Requests, Create(r) \/ PublishJob(r) \/ ApiCrash(r)
      PROVE  NoFault \/ \E f : Fault(f)
  BY <1>2 DEF Create, PublishJob, ApiCrash, Published
<1>3. ASSUME \/ \E t \in Topics : Rebalance(t) \/ Reshuffle(t)
             \/ \E k \in Partitions : Garbage(k)
             \/ \E i \in Jobs : Elapse(i) \/ Stall(i)
             \/ ReclaimStale
             \/ \E p \in Procs : Crash(p) \/ Shutdown(p) \/ Exit(p) \/ Restart(p)
      PROVE  NoFault \/ \E f : Fault(f)
  BY <1>3 DEF Rebalance, Reshuffle, Garbage, Elapse, Stall, ReclaimStale, Crash, Shutdown, Exit, Restart
<1> QED
  BY <1>1, <1>2, <1>3 DEF Next

\* No process has had its SIGTERM, and those that are down have been killed.
NoDraining ==
    \A p \in Procs : proc[p] # "draining" /\ (proc[p] = "down" => faults > 0)

LEMMA NoDrainingStep ==
    ASSUME "shutdown" \notin Faults, IInv, NoDraining, [Next]_vars
    PROVE  NoDraining'
<1>1. proc \in [Procs -> {"up", "draining", "down"}]
  BY DEF IInv, NotesOK
<1>2. \A p \in Procs : ~ Shutdown(p)
  BY DEF Shutdown, Fault
<1>3. ASSUME NEW p \in Procs, Crash(p) \/ Exit(p) \/ Restart(p)
      PROVE  NoDraining'
  BY <1>1, <1>3 DEF Crash, Exit, Restart, NoDraining, Fault, NoFault, IInv, FaultsOK
<1>4. faults' = faults \/ faults' = faults + 1
  BY FaultsCounted DEF NoFault, Fault, vars
<1>5. UNCHANGED proc => NoDraining'
  BY <1>4 DEF NoDraining, IInv, FaultsOK
<1> QED
  BY <1>2, <1>3, <1>5, ProcEffect

\* A call of a live process that cannot be made to fail.
LEMMA NoFailure ==
    ASSUME NoDraining, NEW a \in Actors, NEW f, f \notin Faults
    PROVE  ~ Fails(a, f)
BY ActorParts DEF NoDraining, Fails, Fault

\* A message of j that no offset, committed or about to be, has passed.
Unsettled(t, j) ==
    \E i \in 1..Len(log[t][PartOf[j]]) :
        /\ log[t][PartOf[j]][i] = j
        /\ \A n \in 0..Len(log[t][PartOf[j]]) : Settled(t, PartOf[j], n) => n < i

\* It stays so until a goroutine looks at it.
LEMMA UnsettledStep ==
    ASSUME IInv, InPlace, [Next]_vars, NEW t \in Topics, NEW j \in Jobs, Unsettled(t, j)
    PROVE  \/ (Unsettled(t, j))'
           \/ \E a \in Actors : /\ TopicOf(a) = t /\ actor[a].job = j
                                /\ Claim(a) \/ (Up(a) /\ Forward(a))
<1> DEFINE k == PartOf[j]
           Looking == \E a \in Actors : /\ TopicOf(a) = t /\ actor[a].job = j
                                        /\ Claim(a) \/ (Up(a) /\ Forward(a))
<1>1. k \in Partitions
  BY PartitionsAssumption
<1>2. PICK i \in 1..Len(log[t][k]) :
         log[t][k][i] = j /\ \A n \in 0..Len(log[t][k]) : Settled(t, k, n) => n < i
  BY DEF Unsettled
<1>3. Len(log[t][k]) \in Nat /\ Len(log[t][k]) <= Len(log'[t][k]) /\ log'[t][k][i] = log[t][k][i]
  <2>1. log[t][k] \in Seq(Jobs \cup {NoJob})
    BY <1>1 DEF IInv, LogsOK
  <2>2. Len(log[t][k]) \in Nat
    BY <2>1
  <2>3. Grows(log, log')
    BY LogsGrow
  <2> QED
    BY <1>1, <2>2, <2>3 DEF Grows
<1>4. i \in 1..Len(log'[t][k])
  <2>1. IInv'
    BY NextIInv
  <2>2. Len(log'[t][k]) \in Nat
    BY <1>1, <2>1 DEF IInv, LogsOK
  <2> QED
    BY <1>3, <2>2
<1>5. ASSUME NEW n \in 0..Len(log'[t][k]), (Settled(t, k, n))', ~ (n < i)
      PROVE  Looking
  <2>1. ~ Settled(t, k, n)
    BY <1>1, <1>2, <1>5, SettledInLog
  <2>2. n \in Nat \ {0} /\ Settled(t, k, n - 1) /\ LookedAt(t, k, n)
    BY <1>1, <1>5, <2>1, SettledStep
  <2>3. n - 1 < i
    BY <1>1, <1>2, <2>2, SettledInLog
  <2>4. n = i
    BY <1>2, <1>5, <2>2, <2>3
  <2>5. PICK a \in Actors : /\ TopicOf(a) = t /\ actor[a].part = k /\ actor[a].off = n
                            /\ Fresh(a) /\ (Claim(a) \/ (Up(a) /\ Forward(a)))
    BY <1>2, <2>2, <2>4, JobsAssumption DEF LookedAt
  <2>6. actor[a].job = j
    BY <1>2, <2>4, <2>5 DEF InPlace, Fresh
  <2> QED
    BY <2>5, <2>6
<1> HIDE DEF Looking
<1>6. Looking \/ (Unsettled(t, j))'
  BY <1>2, <1>3, <1>4, <1>5 DEF Unsettled
<1> QED
  BY <1>6 DEF Looking

\* A message that was just acknowledged is one of those.
LEMMA PublishedUnsettled ==
    ASSUME IInv, InPlace, [Next]_vars, NEW t \in Topics, NEW j \in Jobs, Published(t, j)
    PROVE  (Unsettled(t, j))'
<1> DEFINE k == PartOf[j]
           i == Len(log[t][k]) + 1
<1>1. k \in Partitions
  BY PartitionsAssumption
<1>2. PICK n \in 1..2 : Added(t, k, j, n)
  <2>1. PICK n \in 1..2 : log' = Sent(t, j, n)
    BY DEF Published
  <2> QED
    BY <2>1, SendEffect DEF IInv
<1>3. Len(log[t][k]) \in Nat /\ Len(log'[t][k]) = Len(log[t][k]) + n
  BY <1>1, <1>2 DEF IInv, LogsOK, Added
<1>4. i \in Len(log[t][k]) + 1 .. Len(log[t][k]) + n /\ i \in 1..Len(log'[t][k])
  BY <1>3
<1>5. log'[t][k][i] = j
  BY <1>2, <1>4 DEF Added
<1>6. ASSUME NEW m \in 0..Len(log'[t][k]), (Settled(t, k, m))'
      PROVE  m < i
  <2>1. m \in 0..Len(log[t][k])
    BY <1>1, <1>3, <1>6, SettledStep, SettledInLog DEF LookedAt
  <2> QED
    BY <1>3, <2>1
<1> QED
  BY <1>4, <1>5, <1>6 DEF Unsettled

\* A claim that cannot fail takes a row that waits.
LEMMA ClaimTakes ==
    ASSUME "claim" \notin Faults, IInv, NoDraining, NEW a \in Actors, Claim(a),
           CanClaim(row[actor[a].job])
    PROVE  row'[actor[a].job].status = "running"
<1>1. actor[a].job \in Jobs /\ row[actor[a].job] \in RowType
  BY WorkerHand DEF Claim
<1>2. ~ Fails(a, "claim")
  BY NoFailure
<1>3. row' = [row EXCEPT ![actor[a].job] = Claimed(row[actor[a].job])]
  BY <1>2 DEF Claim, Set
<1>4. row \in [Jobs -> RowType]
  BY DEF IInv, RowsOK
<1> QED
  BY <1>1, <1>3, <1>4 DEF Claimed, RowType

\* Main-topic messages are looked at by consumers.
LEMMA MainIsClaimed ==
    ASSUME IInv, InPlace, NEW a \in Actors, Claim(a) \/ (Up(a) /\ Forward(a)), TopicOf(a) = Main
    PROVE  Claim(a)
BY ForwarderHand DEF Main, Tiers

\* A row nobody has claimed yet has a message that no offset has passed, or a request
\* about to publish it.
FirstFaults == {"create", "publishJob", "apiCrash", "claim", "shutdown"}
QInv == \A j \in Jobs : row[j].status = "queued" => Asked(j) \/ Unsettled(Main, j)

LEMMA QInvStep ==
    ASSUME FirstFaults \cap Faults = {}, IInv, InPlace, NoDraining, QInv, [Next]_vars
    PROVE  QInv'
<1> SUFFICES ASSUME NEW j \in Jobs, row'[j].status = "queued"
             PROVE  (Asked(j) \/ Unsettled(Main, j))'
  BY DEF QInv
<1>1. /\ "create" \notin Faults /\ "publishJob" \notin Faults /\ "apiCrash" \notin Faults
      /\ "claim" \notin Faults
  BY DEF FirstFaults
<1>2. Main \in Topics /\ req \in [Requests -> Answers] /\ row[j] \in RowType
  BY DEF Main, Topics, IInv, NotesOK, RowsOK
<1>3. ASSUME NEW r \in Requests, Create(r), KeyOf[r] = j, row[j].status = "none"
      PROVE  (Asked(j))'
  BY <1>1, <1>2, <1>3 DEF Create, Fault, Asked
<1>4. row[j].status = "queued" \/ (Asked(j))'
  <2>1. /\ Claimed(row[j]).status = "running" /\ Completed(row[j]).status = "succeeded"
        /\ \A c : GivenUp(row[j], c).status \in {"retrying", "failed"}
    BY <1>2 DEF Claimed, Completed, GivenUp, RowType
  <2>2. \/ row'[j] = row[j]
        \/ \E r \in Requests : Create(r) /\ KeyOf[r] = j /\ row[j].status = "none"
        \/ row'[j] = Claimed(row[j]) \/ row'[j] = Completed(row[j])
        \/ row'[j] = GivenUp(row[j], "run") \/ row'[j] = GivenUp(row[j], "lease")
        \/ row'[j].status = "running"
    BY RowEffect
  <2> QED
    BY <1>3, <2>1, <2>2
<1>5. ASSUME row[j].status = "queued", NEW r \in Requests, KeyOf[r] = j, req[r] = "publish",
             ~ (Asked(j))'
      PROVE  (Unsettled(Main, j))'
  <2>1. req'[r] # req[r]
    BY <1>5 DEF Asked
  <2>2. \E q \in Requests : Create(q) \/ PublishJob(q) \/ ApiCrash(q)
    <3>1. ASSUME NEW a \in Actors, Step(a)
          PROVE  UNCHANGED req
      BY <3>1 DEF Step, Fetch, Claim, Run, RecordRuns, Complete, MarkFailure, PublishRetry,
                  PublishDLQ, Forward, Commit
    <3>2. ASSUME \/ \E t \in Topics : Rebalance(t) \/ Reshuffle(t)
                 \/ \E k \in Partitions : Garbage(k)
                 \/ \E i \in Jobs : Elapse(i) \/ Stall(i)
                 \/ ReclaimStale
                 \/ \E p \in Procs : Crash(p) \/ Shutdown(p) \/ Exit(p) \/ Restart(p)
                 \/ UNCHANGED vars
          PROVE  UNCHANGED req
      BY <3>2 DEF Rebalance, Reshuffle, Assign, Garbage, Elapse, Stall, ReclaimStale, Crash,
                  Shutdown, Exit, Restart, vars
    <3> QED
      BY <2>1, <3>1, <3>2 DEF Next
  <2>3. PublishJob(r)
    BY <1>1, <1>2, <1>5, <2>1, <2>2 DEF Create, PublishJob, ApiCrash, Fault
  <2>4. Published(Main, j)
    BY <1>1, <1>5, <2>3 DEF PublishJob, Fault
  <2> QED
    BY <1>2, <2>4, PublishedUnsettled
<1>6. ASSUME row[j].status = "queued", Unsettled(Main, j)
      PROVE  (Unsettled(Main, j))'
  <2>1. ASSUME NEW a \in Actors, TopicOf(a) = Main, actor[a].job = j,
               Claim(a) \/ (Up(a) /\ Forward(a))
        PROVE  FALSE
    <3>1. Claim(a)
      BY <2>1, MainIsClaimed
    <3> QED
      BY <1>1, <1>6, <2>1, <3>1, ClaimTakes DEF CanClaim
  <2> QED
    BY <1>2, <1>6, <2>1, UnsettledStep
<1> QED
  BY <1>4, <1>5, <1>6 DEF QInv, Asked

LEMMA QueuedInvariant ==
    ASSUME FirstFaults \cap Faults = {}
    PROVE  Spec => [](IInv /\ InPlace /\ NoDraining /\ QInv)
<1>1. Init => NoDraining /\ QInv
  BY DEF Init, NoDraining, QInv, NoRow
<1>2. IInv /\ InPlace /\ NoDraining /\ QInv /\ [Next]_vars => NoDraining' /\ QInv'
  <2>1. "shutdown" \notin Faults
    BY DEF FirstFaults
  <2> QED
    BY <2>1, NoDrainingStep, QInvStep
<1> QED
  BY <1>1, <1>2, AlwaysInPlace, Invariance, PTL DEF Spec

\* A queued row's message is about to be published or beyond the committed offset, so
\* that whoever owns the partition next will read it: handle claims before consumeMain
\* commits.  Worker crashes, rebalances, stalls and duplicates included; not the death
\* or a failed call of the API process, a claim that fails, or a shutdown.
THEOREM QueuedUncommitted ==
    ASSUME FirstFaults \cap Faults = {}
    PROVE  Spec => []QueuedIsUncommitted
<1>1. IInv /\ InPlace /\ QInv => QueuedIsUncommitted
  <2> SUFFICES ASSUME IInv, InPlace, NEW j \in Jobs, Unsettled(Main, j)
               PROVE  \E i \in 1..Len(log[Main][PartOf[j]]) :
                         i > committed[Main][PartOf[j]] /\ log[Main][PartOf[j]][i] = j
    BY DEF QInv, QueuedIsUncommitted
  <2>1. Main \in Topics /\ PartOf[j] \in Partitions
    BY PartitionsAssumption DEF Main, Topics
  <2>2. committed[Main][PartOf[j]] \in 0..Len(log[Main][PartOf[j]])
    BY <2>1, SettledInLog DEF Settled
  <2> QED
    BY <2>1, <2>2 DEF Unsettled, Settled, IInv, LogsOK
<1> QED
  BY <1>1, QueuedInvariant, PTL

\* A worker that has claimed a job is on an attempt the row was charged for.
OnAttempt ==
    \A a \in Consumers : actor[a].pc \in HoldingPCs =>
        actor[a].att >= 1 /\ actor[a].att <= row[actor[a].job].attempts

\* Attempts are never taken back.
LEMMA AttemptsKept ==
    ASSUME IInv, [Next]_vars, NEW j \in Jobs, row[j].status # "none"
    PROVE  row'[j].attempts >= row[j].attempts
<1>1. row[j] \in RowType /\ row[j].attempts \in Nat
  BY LimitPositive DEF IInv, RowsOK, RowType
<1>2. /\ Claimed(row[j]).attempts = row[j].attempts + 1
      /\ Completed(row[j]).attempts = row[j].attempts
      /\ \A c : GivenUp(row[j], c).attempts = row[j].attempts
  BY <1>1 DEF Claimed, Completed, GivenUp, RowType
<1>3. \/ row'[j] = row[j] \/ row'[j] = Claimed(row[j]) \/ row'[j] = Completed(row[j])
      \/ row'[j] = GivenUp(row[j], "run") \/ row'[j] = GivenUp(row[j], "lease")
      \/ row'[j].attempts = row[j].attempts
  BY RowEffect
<1> QED
  BY <1>1, <1>2, <1>3

\* How a worker comes to hold a job.
LEMMA HoldingEffect ==
    ASSUME IInv, [Next]_vars, NEW b \in Consumers, actor'[b].pc \in HoldingPCs
    PROVE  \/ /\ actor[b].pc \in HoldingPCs
              /\ actor'[b].job = actor[b].job /\ actor'[b].att = actor[b].att
           \/ /\ Claim(b) /\ CanClaim(row[actor[b].job]) /\ actor'[b].job = actor[b].job
              /\ row' = [row EXCEPT ![actor[b].job] = Claimed(row[actor[b].job])]
              /\ actor'[b].att = Claimed(row[actor[b].job]).attempts
<1>1. actor \in [Actors -> ActorType] /\ b \in Actors
  BY DEF IInv, ActorsOK, Actors
<1>2. CASE actor'[b] = actor[b]
  BY <1>2
<1>3. ASSUME Run(b) \/ RecordRuns(b)
      PROVE  /\ actor[b].pc \in HoldingPCs
             /\ actor'[b].job = actor[b].job /\ actor'[b].att = actor[b].att
  BY <1>1, <1>3 DEF Run, RecordRuns, HoldingPCs, Goto, ActorType
<1>4. ASSUME Complete(b) \/ MarkFailure(b) \/ PublishRetry(b) \/ PublishDLQ(b) \/ Forward(b)
             \/ Commit(b) \/ \E k \in Partitions : Fetch(b, k)
      PROVE  actor'[b] = actor[b]
  BY <1>1, <1>4 DEF Complete, MarkFailure, PublishRetry, PublishDLQ, Forward, Commit, Fetch, Goto,
                    Idle, HoldingPCs, ActorType
<1>5. ASSUME Claim(b)
      PROVE  /\ CanClaim(row[actor[b].job]) /\ actor'[b].job = actor[b].job
             /\ row' = [row EXCEPT ![actor[b].job] = Claimed(row[actor[b].job])]
             /\ actor'[b].att = Claimed(row[actor[b].job]).attempts
  <2>1. ~ Goto(b, "commit")
    BY <1>1 DEF Goto, HoldingPCs, ActorType
  <2>2. /\ CanClaim(row[actor[b].job]) /\ Set(actor[b].job, Claimed(row[actor[b].job]))
        /\ actor' = [actor EXCEPT ![b].pc = "run",
                                  ![b].att = Claimed(row[actor[b].job]).attempts]
    BY <1>5, <2>1 DEF Claim
  <2> QED
    BY <1>1, <2>2 DEF Set, ActorType
<1>6. \/ actor'[b] = actor[b] \/ Run(b) \/ RecordRuns(b) \/ Claim(b)
      \/ Complete(b) \/ MarkFailure(b) \/ PublishRetry(b) \/ PublishDLQ(b) \/ Forward(b)
      \/ Commit(b) \/ \E k \in Partitions : Fetch(b, k)
  <2>1. Idle.pc \notin HoldingPCs
    BY DEF Idle, HoldingPCs
  <2> QED
    BY <1>1, <2>1, OwnStep DEF Step
<1> QED
  BY <1>2, <1>3, <1>4, <1>5, <1>6

LEMMA OnAttemptStep ==
    ASSUME IInv, OnAttempt, [Next]_vars,
           \A a \in Consumers : actor[a].job \in Jobs => row[actor[a].job].status # "none"
    PROVE  OnAttempt'
<1> SUFFICES ASSUME NEW b \in Consumers, actor'[b].pc \in HoldingPCs
             PROVE  actor'[b].att >= 1 /\ actor'[b].att <= row'[actor'[b].job].attempts
  BY DEF OnAttempt
<1>1. CASE /\ actor[b].pc \in HoldingPCs
           /\ actor'[b].job = actor[b].job /\ actor'[b].att = actor[b].att
  <2>1. b \in Actors /\ actor[b].job \in Jobs /\ actor[b] \in ActorType
    BY <1>1 DEF Actors, IInv, ActorsOK, HandsOK, HoldingPCs
  <2>2. row'[actor[b].job].attempts >= row[actor[b].job].attempts
    BY <2>1, AttemptsKept
  <2>3. IInv'
    BY NextIInv
  <2>4. row[actor[b].job].attempts \in Nat /\ row'[actor[b].job].attempts \in Nat
    BY <2>1, <2>3, LimitPositive DEF IInv, RowsOK, RowType
  <2>5. actor[b].att \in Nat /\ actor[b].att >= 1 /\ actor[b].att <= row[actor[b].job].attempts
    BY <1>1, <2>1, LimitPositive DEF OnAttempt, ActorType
  <2> QED
    BY <1>1, <2>2, <2>4, <2>5
<1>2. CASE /\ Claim(b) /\ CanClaim(row[actor[b].job]) /\ actor'[b].job = actor[b].job
           /\ row' = [row EXCEPT ![actor[b].job] = Claimed(row[actor[b].job])]
           /\ actor'[b].att = Claimed(row[actor[b].job]).attempts
  <2>1. actor[b].job \in Jobs /\ row \in [Jobs -> RowType]
    BY <1>2, WorkerHand DEF Claim, Actors, IInv, RowsOK
  <2>2. Claimed(row[actor[b].job]).attempts \in Nat \ {0}
    BY <2>1, LimitPositive DEF Claimed, RowType
  <2> QED
    BY <1>2, <2>1, <2>2
<1> QED
  BY <1>1, <1>2, HoldingEffect

\* No goroutine has lost the partition of what it has in hand: it owns it, nothing from
\* its message on is committed, and partitions are without an owner only all at once.
InStep ==
    /\ \A a \in Actors : actor[a].pc # "idle" =>
          /\ owner[TopicOf(a)][actor[a].part] = a
          /\ pos[TopicOf(a)][actor[a].part] = actor[a].off
          /\ committed[TopicOf(a)][actor[a].part] < actor[a].off
    /\ \A t \in Topics, k \in Partitions : committed[t][k] <= pos[t][k]
    /\ \A t \in Topics, k, l \in Partitions : owner[t][k] = NoOne => owner[t][l] = NoOne

\* A crash can only be the first fault, or it takes all workers along and nothing else
\* makes them share the partitions out again.
CrashIsAlone ==
    "crash" \in Faults => \/ MaxFaults <= 1
                          \/ "rebalance" \notin Faults /\ \A p, q \in Procs : p = q
MayCrash == "crash" \in Faults /\ faults < MaxFaults

LEMMA InStepStep ==
    ASSUME "shutdown" \notin Faults, CrashIsAlone, IInv, InPlace, NoDraining,
           MayCrash => InStep, [Next]_vars, MayCrash'
    PROVE  InStep'
<1>1. /\ actor \in [Actors -> ActorType]
      /\ owner \in [Topics -> [Partitions -> Actors \cup {NoOne}]]
      /\ pos \in [Topics -> [Partitions -> Nat]] /\ committed \in [Topics -> [Partitions -> Nat]]
      /\ faults \in Nat /\ MaxFaults \in Nat
  BY FaultsAssumption DEF IInv, ActorsOK, GroupOK, FaultsOK
<1>2. \A a \in Actors : /\ TopicOf(a) \in Topics /\ ProcOf(a) \in Procs /\ a # NoOne
                        /\ actor[a].pc # "idle" => actor[a].part \in Partitions
  BY ActorParts DEF IInv, ActorsOK, HandsOK
<1>3. \A a \in Actors : actor[a].off \in Nat
  BY <1>1 DEF ActorType
<1>4. \* a fault leaves room for a crash only if all workers are in one process
      ASSUME NEW f, Fault(f)
      PROVE  "rebalance" \notin Faults /\ \A p, q \in Procs : p = q
  BY <1>1, <1>4 DEF Fault, MayCrash, CrashIsAlone
<1>5. InStep
  <2>1. faults' = faults \/ faults' = faults + 1
    BY FaultsCounted DEF NoFault, Fault, vars
  <2> QED
    BY <1>1, <2>1 DEF MayCrash
<1>6. ASSUME UNCHANGED <<committed, pos, owner>>,
             \A b \in Actors : \/ actor'[b].pc = "idle"
                               \/ /\ actor[b].pc # "idle" /\ actor'[b].part = actor[b].part
                                  /\ actor'[b].off = actor[b].off
      PROVE  InStep'
  BY <1>5, <1>6 DEF InStep
<1>7. ASSUME NEW a \in Actors, NEW k \in Partitions, Fetch(a, k)
      PROVE  InStep'
  <2> DEFINE t == TopicOf(a)
             off == pos[t][k] + 1
             h == [pc |-> IF t = Main THEN "claim" ELSE "forward", job |-> log[t][k][off],
                   part |-> k, off |-> off, att |-> 0]
  <2>1. /\ actor[a].pc = "idle" /\ owner[t][k] = a /\ owner' = owner
        /\ pos' = [pos EXCEPT ![t][k] = off]
        /\ \/ actor' = actor /\ committed' \in {committed, [committed EXCEPT ![t][k] = off]}
           \/ actor' = [actor EXCEPT ![a] = h] /\ committed' = committed
    BY <1>7 DEF Fetch, SkipUndecodable
  <2>2. t \in Topics /\ off \in Nat /\ committed[t][k] < off
    BY <1>1, <1>2, <1>5 DEF InStep
  <2>3. pos'[t][k] = off /\ committed'[t][k] <= off
    BY <1>1, <2>1, <2>2
  <2>4. \A u \in Topics, l \in Partitions :
           u # t \/ l # k => pos'[u][l] = pos[u][l] /\ committed'[u][l] = committed[u][l]
    BY <1>1, <2>1, <2>2
  <2>5. ASSUME NEW b \in Actors, actor'[b].pc # "idle"
        PROVE  /\ owner'[TopicOf(b)][actor'[b].part] = b
               /\ pos'[TopicOf(b)][actor'[b].part] = actor'[b].off
               /\ committed'[TopicOf(b)][actor'[b].part] < actor'[b].off
    <3>1. CASE b = a
      <4>1. actor' = [actor EXCEPT ![a] = h] /\ committed' = committed
        BY <2>1, <2>5, <3>1
      <4>2. actor'[b].part = k /\ actor'[b].off = off
        BY <1>1, <3>1, <4>1
      <4> QED
        BY <2>1, <2>2, <2>3, <3>1, <4>1, <4>2
    <3>2. CASE b # a
      <4>1. actor'[b] = actor[b]
        BY <1>1, <2>1, <3>2
      <4>2. /\ owner[TopicOf(b)][actor[b].part] = b /\ actor[b].part \in Partitions
            /\ TopicOf(b) \in Topics
        BY <1>2, <1>5, <2>5, <4>1 DEF InStep
      <4>3. TopicOf(b) # t \/ actor[b].part # k
        BY <2>1, <3>2, <4>2
      <4> QED
        BY <1>5, <2>1, <2>4, <2>5, <4>1, <4>2, <4>3 DEF InStep
    <3> QED
      BY <3>1, <3>2
  <2>6. ASSUME NEW u \in Topics, NEW l \in Partitions
        PROVE  committed'[u][l] <= pos'[u][l]
    BY <1>5, <2>3, <2>4 DEF InStep
  <2> QED
    BY <1>5, <2>1, <2>5, <2>6 DEF InStep
<1>8. ASSUME NEW a \in Actors, Commit(a)
      PROVE  InStep'
  <2> DEFINE t == TopicOf(a)
             k == actor[a].part
  <2>1. /\ actor[a].pc # "idle" /\ actor' = [actor EXCEPT ![a] = Idle]
        /\ pos' = pos /\ owner' = owner
        /\ committed' \in {committed, [committed EXCEPT ![t][k] = actor[a].off]}
    BY <1>8 DEF Commit, Marked
  <2>2. t \in Topics /\ k \in Partitions /\ owner[t][k] = a /\ pos[t][k] = actor[a].off
    BY <1>2, <1>5, <2>1 DEF InStep
  <2>3. \A u \in Topics, l \in Partitions :
           \/ committed'[u][l] = committed[u][l]
           \/ u = t /\ l = k /\ committed'[u][l] = pos[u][l]
    BY <1>1, <2>1, <2>2
  <2>4. ASSUME NEW b \in Actors, actor'[b].pc # "idle"
        PROVE  b # a /\ actor'[b] = actor[b]
    BY <1>1, <2>1, <2>4 DEF Idle
  <2>5. ASSUME NEW b \in Actors, actor'[b].pc # "idle"
        PROVE  /\ owner'[TopicOf(b)][actor'[b].part] = b
               /\ pos'[TopicOf(b)][actor'[b].part] = actor'[b].off
               /\ committed'[TopicOf(b)][actor'[b].part] < actor'[b].off
    <3>1. /\ owner[TopicOf(b)][actor[b].part] = b /\ actor[b].part \in Partitions
          /\ TopicOf(b) \in Topics /\ b # a /\ actor'[b] = actor[b]
          /\ pos[TopicOf(b)][actor[b].part] = actor[b].off
          /\ committed[TopicOf(b)][actor[b].part] < actor[b].off
      BY <1>2, <1>5, <2>4, <2>5 DEF InStep
    <3> QED
      BY <2>1, <2>2, <2>3, <3>1
  <2>6. ASSUME NEW u \in Topics, NEW l \in Partitions
        PROVE  committed'[u][l] <= pos'[u][l]
    BY <1>1, <1>5, <2>1, <2>3 DEF InStep
  <2> QED
    BY <1>5, <2>1, <2>5, <2>6 DEF InStep
<1>9. ASSUME NEW a \in Actors,
             \/ Claim(a) \/ Run(a) \/ RecordRuns(a) \/ Complete(a) \/ MarkFailure(a)
             \/ PublishRetry(a) \/ PublishDLQ(a) \/ Forward(a)
      PROVE  InStep'
  <2>1. UNCHANGED <<committed, pos, owner>>
    BY <1>9 DEF Claim, Run, RecordRuns, Complete, MarkFailure, PublishRetry, PublishDLQ, Forward,
                kafka, offsets
  <2>2. actor[a].pc # "idle"
    BY <1>9 DEF Claim, Run, RecordRuns, Complete, MarkFailure, PublishRetry, PublishDLQ, Forward
  <2>3. \/ actor' = [actor EXCEPT ![a] = Idle]
        \/ \E x : Goto(a, x)
        \/ \E n : actor' = [actor EXCEPT ![a].pc = "run", ![a].att = n]
    BY <1>9 DEF Claim, Run, RecordRuns, Complete, MarkFailure, PublishRetry, PublishDLQ, Forward
  <2>4. ASSUME NEW b \in Actors
        PROVE  \/ actor'[b].pc = "idle"
               \/ /\ actor[b].pc # "idle" \/ actor'[b] = actor[b]
                  /\ actor'[b].part = actor[b].part /\ actor'[b].off = actor[b].off
    BY <1>1, <2>2, <2>3 DEF Goto, Idle, ActorType
  <2> QED
    BY <1>6, <2>1, <2>4
<1>10. ASSUME NEW t \in Topics, Rebalance(t)
       PROVE  InStep'
  <2>1. /\ \A k \in Partitions : owner[t][k] = NoOne
        /\ actor' = actor /\ committed' = committed /\ pos' = [pos EXCEPT ![t] = committed[t]]
    BY <1>5, <1>10 DEF Rebalance, Assign, InStep
  <2>2. PICK assignment \in [Partitions -> {a \in Actors : TopicOf(a) = t /\ Up(a)}] :
           owner' = [owner EXCEPT ![t] = assignment]
    BY <1>10 DEF Rebalance, Assign
  <2>3. \A k \in Partitions : owner'[t][k] \in Actors /\ pos'[t][k] = committed[t][k]
    BY <1>1, <2>1, <2>2
  <2>4. \A u \in Topics : u # t => owner'[u] = owner[u] /\ pos'[u] = pos[u]
    BY <1>1, <2>1, <2>2
  <2>5. \A a \in Actors : actor[a].pc # "idle" => TopicOf(a) # t
    BY <1>2, <1>5, <2>1 DEF InStep
  <2>6. ASSUME NEW u \in Topics, NEW k \in Partitions
        PROVE  committed'[u][k] <= pos'[u][k]
    BY <1>1, <1>5, <2>1, <2>3, <2>4 DEF InStep
  <2>7. ASSUME NEW u \in Topics, NEW k \in Partitions, NEW l \in Partitions, owner'[u][k] = NoOne
        PROVE  owner'[u][l] = NoOne
    BY <1>2, <1>5, <2>3, <2>4, <2>7 DEF InStep
  <2>8. ASSUME NEW b \in Actors, actor'[b].pc # "idle"
        PROVE  /\ owner'[TopicOf(b)][actor'[b].part] = b
               /\ pos'[TopicOf(b)][actor'[b].part] = actor'[b].off
               /\ committed'[TopicOf(b)][actor'[b].part] < actor'[b].off
    BY <1>2, <1>5, <2>1, <2>4, <2>5, <2>8 DEF InStep
  <2> QED
    BY <2>6, <2>7, <2>8 DEF InStep
<1>11. ASSUME NEW t \in Topics
       PROVE  ~ Reshuffle(t)
  BY <1>4 DEF Reshuffle, Fault
<1>12. ASSUME NEW p \in Procs, Crash(p)
       PROVE  InStep'
  <2>1. \A q \in Procs : q = p
    BY <1>4, <1>12 DEF Crash
  <2>2. \A a \in Actors : actor'[a].pc = "idle"
    BY <1>2, <1>12, <2>1 DEF Crash, Idle
  <2>3. committed' = committed /\ Leave(p)
    BY <1>12 DEF Crash
  <2>4. ASSUME NEW t \in Topics, NEW k \in Partitions
        PROVE  owner'[t][k] = NoOne /\ committed'[t][k] <= pos'[t][k]
    <3>1. owner[t][k] # NoOne => ProcOf(owner[t][k]) = p
      BY <1>1, <1>2, <2>1
    <3> QED
      BY <1>1, <1>5, <2>3, <3>1 DEF Leave, InStep
  <2> QED
    BY <2>2, <2>4 DEF InStep
<1>13. \A p \in Procs : ~ Shutdown(p) /\ ~ Exit(p)
  BY DEF Shutdown, Fault, Exit, NoDraining
<1>14. ASSUME \/ \E r \in Requests : Create(r) \/ PublishJob(r) \/ ApiCrash(r)
              \/ \E k \in Partitions : Garbage(k)
              \/ \E j \in Jobs : Elapse(j) \/ Stall(j)
              \/ ReclaimStale
              \/ UNCHANGED vars
       PROVE  InStep'
  <2>1. UNCHANGED <<committed, pos, owner, actor>>
    BY <1>14 DEF Create, PublishJob, ApiCrash, Garbage, Elapse, Stall, ReclaimStale,
                 kafka, offsets, vars
  <2> QED
    BY <1>6, <2>1
<1>15. \* who comes back was killed, and so all that were at work
       ASSUME NEW p \in Procs, Restart(p)
       PROVE  InStep'
  <2>1. proc[p] = "down" /\ faults > 0 /\ faults < MaxFaults /\ "crash" \in Faults
    BY <1>15 DEF Restart, NoFault, NoDraining, MayCrash
  <2>2. \A q \in Procs : q = p
    BY <1>1, <2>1 DEF CrashIsAlone
  <2>3. \A a \in Actors : actor[a].pc = "idle"
    BY <1>2, <1>5, <2>1, <2>2 DEF InStep, InPlace
  <2>4. /\ actor' = actor /\ committed' = committed /\ pos' = committed
        /\ \A t \in Topics, k \in Partitions : owner'[t][k] = NoOne
    BY <1>15 DEF Restart
  <2>5. \A t \in Topics, k \in Partitions : committed'[t][k] <= pos'[t][k]
    BY <1>1, <2>4
  <2> QED
    BY <2>3, <2>4, <2>5 DEF InStep
<1> QED
  BY <1>7, <1>8, <1>9, <1>10, <1>11, <1>12, <1>13, <1>14, <1>15 DEF Next, Step

\* A message in the hand of a worker whose process is killed will be read again.
LEMMA CrashUnsettles ==
    ASSUME IInv, InPlace, InStep, NEW p \in Procs, Crash(p),
           NEW a \in Consumers, ProcOf(a) = p, actor[a].pc # "idle",
           NEW j, actor[a].job = j
    PROVE  (Unsettled(Main, j))'
<1>1. /\ a \in Actors /\ TopicOf(a) = Main /\ Main \in Topics /\ j \in Jobs
      /\ actor[a].part \in Partitions
  BY DEF Consumers, Actors, TopicOf, Main, Topics, IInv, ActorsOK, HandsOK
<1>2. PICK k \in Partitions, i \in 1..Len(log[Main][PartOf[j]]) :
         /\ actor[a].part = k /\ actor[a].off = i
         /\ log[Main][k][i] = j /\ PartOf[j] = k
  BY <1>1 DEF InPlace
<1>3. owner[Main][k] = a /\ committed[Main][k] < i
  BY <1>1, <1>2 DEF InStep
<1>4. /\ log' = log /\ committed' = committed /\ Leave(p)
      /\ actor' = [b \in Actors |-> IF ProcOf(b) = p THEN Idle ELSE actor[b]]
  BY DEF Crash
<1>5. owner'[Main][k] = NoOne /\ pos'[Main][k] = committed[Main][k]
  BY <1>1, <1>3, <1>4, ActorParts DEF Leave
<1>6. ASSUME NEW b \in Actors, TopicOf(b) = Main, actor'[b].pc # "idle"
      PROVE  actor'[b].part # k
  <2>1. actor'[b] = actor[b] /\ ProcOf(b) # p
    BY <1>4, <1>6 DEF Idle
  <2> QED
    BY <1>1, <1>3, <1>6, <2>1 DEF InStep
<1>7. ASSUME NEW n, (Settled(Main, k, n))'
      PROVE  n < i
  BY <1>3, <1>4, <1>5, <1>6, <1>7 DEF Settled
<1> QED
  BY <1>1, <1>2, <1>4, <1>7 DEF Unsettled

\* A row that was set to retry has a message that no offset has passed, on the main or a
\* delay topic, or a worker about to publish it.
RetryFaults == FirstFaults \cup {"mark", "publishRetry", "forward"}
Retrying(j) == \E a \in Consumers : actor[a].job = j /\ actor[a].pc = "retry"
RInv ==
    \A j \in Jobs : row[j].status = "retrying" /\ row[j].lastError # "lease" =>
        Retrying(j) \/ \E t \in Topics : Unsettled(t, j)

\* A worker about to publish stays so until it does, or its process is killed.
LEMMA RetryingStep ==
    ASSUME IInv, [Next]_vars, NEW a \in Consumers, actor[a].pc = "retry"
    PROVE  actor'[a] = actor[a] \/ PublishRetry(a) \/ Crash(ProcOf(a))
<1>1. a \in Actors
  BY DEF Actors
<1>2. Step(a) => PublishRetry(a)
  BY DEF Step, Fetch, Claim, Run, RecordRuns, Complete, MarkFailure, PublishDLQ, Forward, Commit
<1>3. ASSUME NEW p \in Procs, Crash(p)
      PROVE  actor'[a] = actor[a] \/ p = ProcOf(a)
  BY <1>1, <1>3 DEF Crash
<1> QED
  BY <1>1, <1>2, <1>3, OwnStep

\* scheduleRetry: a row that MarkFailure sets to retry has a worker at the publish, as
\* long as there is a delay topic for every attempt but the last.
LEMMA MarkedRetries ==
    ASSUME "mark" \notin Faults, AttemptLimit <= NumTiers + 1, IInv, NoDraining, OnAttempt,
           NEW a \in Consumers, NEW j \in Jobs, actor[a].job = j, MarkFailure(a),
           row'[j].status = "retrying"
    PROVE  actor'[a].pc = "retry" /\ actor'[a].job = j
<1> DEFINE marked == GivenUp(row[j], "run")
<1>1. /\ a \in Actors /\ actor \in [Actors -> ActorType] /\ row \in [Jobs -> RowType]
      /\ row[j].attempts \in Nat /\ actor[a].att \in Nat
  <2>1. a \in Actors /\ actor \in [Actors -> ActorType] /\ row \in [Jobs -> RowType]
    BY DEF IInv, ActorsOK, Actors, RowsOK
  <2> QED
    BY <2>1, LimitPositive DEF RowType, ActorType
<1>2. /\ Set(j, marked)
      /\ Goto(a, IF marked.status = "retrying" /\ HasTier(actor[a].att) THEN "retry" ELSE "dlq")
  BY <1>1, NoFailure DEF MarkFailure
<1>3. marked.status = "retrying" /\ row[j].attempts < AttemptLimit
  <2>1. row'[j] = marked
    BY <1>1, <1>2 DEF Set
  <2> QED
    BY <1>1, <2>1 DEF GivenUp, HasAttemptLeft, RowType
<1>4. HasTier(actor[a].att)
  <2>1. actor[a].att >= 1 /\ actor[a].att <= row[j].attempts
    BY DEF OnAttempt, MarkFailure, HoldingPCs
  <2>2. AttemptLimit \in Nat /\ NumTiers \in Nat
    BY LimitPositive, TiersAssumption
  <2> QED
    BY <1>1, <1>3, <2>1, <2>2 DEF HasTier, Tiers
<1>5. Goto(a, "retry")
  BY <1>2, <1>3, <1>4
<1> QED
  BY <1>1, <1>5 DEF Goto, ActorType

LEMMA RInvStep ==
    ASSUME RetryFaults \cap Faults = {}, AttemptLimit <= NumTiers + 1,
           IInv, InPlace, NoDraining, OnAttempt, RInv, MayCrash => InStep, [Next]_vars
    PROVE  RInv'
<1> SUFFICES ASSUME NEW j \in Jobs, row'[j].status = "retrying", row'[j].lastError # "lease"
             PROVE  (Retrying(j))' \/ \E t \in Topics : (Unsettled(t, j))'
  BY DEF RInv
<1> DEFINE Safe == (Retrying(j))' \/ \E t \in Topics : (Unsettled(t, j))'
<1>1. /\ "mark" \notin Faults /\ "publishRetry" \notin Faults /\ "forward" \notin Faults
      /\ "claim" \notin Faults
  BY DEF RetryFaults, FirstFaults
<1>2. Main \in Topics /\ row[j] \in RowType
  BY DEF Main, Topics, IInv, RowsOK
<1>3. \/ row'[j] = row[j]
      \/ \E a \in Consumers : MarkFailure(a) /\ actor[a].job = j
  <2>1. /\ Queued.status = "queued" /\ Claimed(row[j]).status = "running"
        /\ Completed(row[j]).status = "succeeded" /\ GivenUp(row[j], "lease").lastError = "lease"
    BY <1>2 DEF Queued, NoRow, Claimed, Completed, GivenUp, RowType
  <2>2. \/ row'[j] = row[j]
        \/ \E a \in Consumers : MarkFailure(a) /\ actor[a].job = j
        \/ row'[j] = Queued \/ row'[j] = Claimed(row[j]) \/ row'[j] = Completed(row[j])
        \/ row'[j] = GivenUp(row[j], "lease")
        \/ row'[j].status = "running"
    BY RowEffect
  <2> QED
    BY <2>1, <2>2
<1>4. ASSUME NEW a \in Consumers, MarkFailure(a), actor[a].job = j
      PROVE  Safe
  BY <1>1, <1>4, MarkedRetries DEF Retrying
<1>5. ASSUME NEW a \in Consumers, actor[a].job = j, actor[a].pc = "retry"
      PROVE  Safe
  <2>1. CASE actor'[a] = actor[a]
    BY <1>5, <2>1 DEF Retrying
  <2>2. CASE PublishRetry(a)
    <3>1. a \in Actors /\ actor[a].att \in Topics
      BY <1>5 DEF Actors, Topics, IInv, ActorsOK, HandsOK
    <3>2. Published(actor[a].att, j)
      BY <1>1, <1>5, <2>2, <3>1, NoFailure DEF PublishRetry
    <3> QED
      BY <3>1, <3>2, PublishedUnsettled
  <2>3. CASE Crash(ProcOf(a))
    <3>1. ProcOf(a) \in Procs
      BY ActorParts DEF Actors
    <3>2. InStep
      BY <2>3 DEF Crash, Fault, MayCrash
    <3>3. (Unsettled(Main, j))'
      BY <1>5, <2>3, <3>1, <3>2, CrashUnsettles
    <3> QED
      BY <1>2, <1>5, <3>3
  <2> QED
    BY <1>1, <1>5, <2>1, <2>2, <2>3, RetryingStep
<1>6. ASSUME NEW t \in Topics, Unsettled(t, j), row'[j] = row[j]
      PROVE  Safe
  <2>1. ASSUME NEW a \in Actors, actor[a].job = j, Claim(a)
        PROVE  FALSE
    BY <1>1, <1>6, <2>1, ClaimTakes DEF CanClaim
  <2>2. ASSUME NEW a \in Actors, actor[a].job = j, Up(a), Forward(a)
        PROVE  Safe
    <3>1. Published(Main, j)
      BY <1>1, <2>2, NoFailure DEF Forward
    <3> QED
      BY <1>2, <3>1, PublishedUnsettled
  <2> QED
    BY <1>6, <2>1, <2>2, UnsettledStep
<1> QED
  BY <1>3, <1>4, <1>5, <1>6 DEF RInv, Retrying

\* An unsettled message is still to be fetched, or just was.
LEMMA UnsettledIsCarried ==
    ASSUME IInv, InPlace, NoDraining, NEW t \in Topics, NEW j \in Jobs, Unsettled(t, j)
    PROVE  Carried(j)
<1> DEFINE k == PartOf[j]
<1>1. k \in Partitions
  BY PartitionsAssumption
<1>2. PICK i \in 1..Len(log[t][k]) :
         log[t][k][i] = j /\ \A n \in 0..Len(log[t][k]) : Settled(t, k, n) => n < i
  BY DEF Unsettled
<1>3. pos[t][k] \in Nat /\ pos[t][k] <= Len(log[t][k]) /\ Len(log[t][k]) \in Nat
  BY <1>1 DEF IInv, GroupOK, LogsOK, InPlace
<1>4. CASE i > pos[t][k]
  BY <1>1, <1>2, <1>4 DEF Carried
<1>5. CASE ~ (i > pos[t][k])
  <2>1. ~ Settled(t, k, pos[t][k])
    BY <1>2, <1>3, <1>5
  <2>2. owner[t][k] # NoOne => Up(owner[t][k])
    <3>1. owner[t][k] \in Actors \cup {NoOne} /\ proc \in [Procs -> {"up", "draining", "down"}]
      BY <1>1 DEF IInv, GroupOK, NotesOK
    <3> QED
      BY <1>1, <3>1, ActorParts DEF InPlace, NoDraining, Up
  <2>3. Pending(t, k)
    BY <2>1, <2>2 DEF Settled
  <2>4. PICK a \in Actors : /\ TopicOf(a) = t /\ Fresh(a)
                            /\ actor[a].part = k /\ actor[a].off = pos[t][k]
    BY <2>3 DEF Pending
  <2>5. actor[a].off \in 1..Len(log[t][k]) /\ log[t][k][actor[a].off] = actor[a].job
    BY <2>4 DEF InPlace, Fresh
  <2>6. Settled(t, k, actor[a].off - 1)
    BY <2>4, HandSettles DEF Fresh
  <2>7. actor[a].off - 1 < i
    BY <1>1, <1>2, <2>6, SettledInLog
  <2>8. actor[a].off = i
    BY <1>2, <1>3, <1>5, <2>4, <2>7
  <2> QED
    BY <1>2, <2>4, <2>5, <2>8 DEF Carried, Fresh
<1> QED
  BY <1>4, <1>5

LEMMA RetryInvariant ==
    ASSUME RetryFaults \cap Faults = {}, CrashIsAlone, AttemptLimit <= NumTiers + 1
    PROVE  Spec => [](IInv /\ InPlace /\ NoDraining /\ QInv /\ RInv)
<1> DEFINE CInv == MayCrash => InStep
<1>1. Init => OnAttempt /\ RInv /\ CInv
  BY DEF Init, OnAttempt, RInv, NoRow, Idle, HoldingPCs, Actors, InStep
<1>2. /\ IInv /\ InPlace /\ NoDraining /\ OnAttempt /\ RInv /\ CInv
      /\ MessageHasRow
      /\ [Next]_vars
      => OnAttempt' /\ RInv' /\ CInv'
  <2> SUFFICES ASSUME IInv, InPlace, NoDraining, OnAttempt, RInv, CInv, MessageHasRow, [Next]_vars
               PROVE  OnAttempt' /\ RInv' /\ CInv'
    OBVIOUS
  <2>1. \A a \in Consumers : actor[a].job \in Jobs => row[actor[a].job].status # "none"
    BY JobsAssumption DEF MessageHasRow, Actors
  <2>2. "shutdown" \notin Faults
    BY DEF RetryFaults, FirstFaults
  <2>3. CInv'
    BY <2>2, InStepStep
  <2> QED
    BY <2>1, <2>3, OnAttemptStep, RInvStep
<1>3. FirstFaults \cap Faults = {}
  BY DEF RetryFaults
<1> HIDE DEF CInv
<1> QED
  BY <1>1, <1>2, <1>3, QueuedInvariant, MessagesHaveRows, PTL DEF Spec

\* Without the faults that lose a message, a row that waits, but for one the reclaimer
\* released, has its message on its way: every step of createOptimization, handle,
\* scheduleRetry and consumeRetry hands it on before it lets go of it, whatever is
\* rebalanced, duplicated, stalled or left uncommitted. A worker that is killed has let go
\* of nothing: its message is read again, if it still owned the partition.
THEOREM WaitingCarried ==
    ASSUME RetryFaults \cap Faults = {}, CrashIsAlone, AttemptLimit <= NumTiers + 1
    PROVE  Spec => []WaitingIsCarried
<1>1. IInv /\ InPlace /\ NoDraining /\ QInv /\ RInv /\ QueuedIsUncommitted => WaitingIsCarried
  <2> SUFFICES ASSUME IInv, InPlace, NoDraining, QInv, RInv,
                      NEW j \in Jobs, CanClaim(row[j]), row[j].lastError # "lease"
               PROVE  Carried(j)
    BY DEF WaitingIsCarried
  <2>1. CASE row[j].status = "queued"
    <3>1. Main \in Topics
      BY DEF Main, Topics
    <3> QED
      BY <2>1, <3>1, UnsettledIsCarried DEF QInv, Carried
  <2>2. CASE row[j].status = "retrying"
    <3>1. Retrying(j) => Carried(j)
      BY DEF Retrying, Carried, Actors
    <3> QED
      BY <2>2, <3>1, UnsettledIsCarried DEF RInv
  <2> QED
    BY <2>1, <2>2 DEF CanClaim
<1>2. FirstFaults \cap Faults = {}
  BY DEF RetryFaults
<1> QED
  BY <1>1, <1>2, RetryInvariant, QueuedUncommitted, PTL

\* The row waits for what its worker makes of it: nothing else will change it.
Owed(r) == r.status = "running" \/ (r.status = "retrying" /\ r.lastError = "lease")

\* A worker stays at such a row if no process is killed and the statements on the row do
\* not fail.
LEMMA HolderStays ==
    ASSUME IInv, [Next]_vars, \A p \in Procs : ~ Crash(p),
           \A a \in Actors : ~ Fails(a, "complete") /\ ~ Fails(a, "mark"),
           NEW j \in Jobs, Held(j), Owed(row'[j])
    PROVE  (Held(j))'
<1>1. /\ actor \in [Actors -> ActorType] /\ row \in [Jobs -> RowType]
      /\ \A a \in Consumers : a \in Actors
  BY DEF IInv, ActorsOK, RowsOK, Actors
<1>2. PICK a \in Consumers : Holds(a, j)
  BY DEF Held
<1>3. ~ Complete(a) /\ ~ MarkFailure(a)
  <2>1. Complete(a) => row'[j] = Completed(row[j])
    BY <1>1, <1>2 DEF Complete, Set, Holds
  <2>2. MarkFailure(a) => row'[j] = GivenUp(row[j], "run")
    BY <1>1, <1>2 DEF MarkFailure, Set, Holds
  <2> QED
    BY <1>1, <2>1, <2>2 DEF Owed, Completed, GivenUp, RowType
<1>4. actor'[a] = actor[a] \/ Run(a) \/ RecordRuns(a)
  <2>1. Step(a) => Run(a) \/ RecordRuns(a) \/ Complete(a) \/ MarkFailure(a)
    BY <1>2 DEF Step, Fetch, Claim, PublishRetry, PublishDLQ, Forward, Commit, Holds, HoldingPCs
  <2> QED
    BY <1>1, <1>3, <2>1, OwnStep
<1>5. (Holds(a, j))'
  <2>1. Run(a) => (Holds(a, j))'
    BY <1>1, <1>2 DEF Run, Goto, Holds, HoldingPCs, ActorType
  <2>2. RecordRuns(a) => (Holds(a, j))'
    BY <1>1, <1>2 DEF RecordRuns, Goto, Holds, HoldingPCs, ActorType
  <2> QED
    BY <1>2, <1>4, <2>1, <2>2 DEF Holds
<1> QED
  BY <1>5 DEF Held

\* A row comes to run by a claim that succeeds, whose worker then holds the job.
LEMMA ClaimHolds ==
    ASSUME IInv, [Next]_vars, \A a \in Actors : ~ Fails(a, "claim"),
           NEW j \in Jobs, row[j].status # "running", row'[j].status = "running"
    PROVE  (Held(j))'
<1>1. /\ actor \in [Actors -> ActorType] /\ row \in [Jobs -> RowType]
      /\ \A a \in Consumers : a \in Actors
  BY DEF IInv, ActorsOK, RowsOK, Actors
<1>2. PICK a \in Consumers : Claim(a) /\ actor[a].job = j /\ CanClaim(row[j])
  <2>1. /\ Queued.status # "running" /\ Completed(row[j]).status # "running"
        /\ GivenUp(row[j], "run").status # "running"
    BY <1>1 DEF Queued, NoRow, Completed, GivenUp, RowType
  <2> QED
    BY <2>1, RowEffect
<1>3. actor' = [actor EXCEPT ![a].pc = "run", ![a].att = Claimed(row[j]).attempts]
  BY <1>1, <1>2 DEF Claim
<1>4. (Holds(a, j))'
  BY <1>1, <1>2, <1>3 DEF Holds, HoldingPCs, ActorType
<1> QED
  BY <1>4 DEF Held

--------------------------------------------------------------------------------
(* No job is left behind. *)

\* The faults after which a job may be left for ever: those that lose its message, those
\* that lose what became of it, and the one that leaves it to the reclaimer.
LosingFaults == RetryFaults \cup {"crash", "complete"}

\* A running row has its worker; so has one the reclaimer released, under a worker that
\* is slower than its lease.
OwedAreHeld == \A j \in Jobs : Owed(row[j]) => Held(j)

LEMMA OwedAreHeldStep ==
    ASSUME LosingFaults \cap Faults = {}, IInv, NoDraining, OwedAreHeld, [Next]_vars
    PROVE  OwedAreHeld'
<1> SUFFICES ASSUME NEW j \in Jobs, Owed(row'[j])
             PROVE  (Held(j))'
  BY DEF OwedAreHeld, Owed
<1>1. /\ "crash" \notin Faults /\ "claim" \notin Faults /\ "complete" \notin Faults
      /\ "mark" \notin Faults
  BY DEF LosingFaults, RetryFaults, FirstFaults
<1>2. row[j] \in RowType
  BY DEF IInv, RowsOK
<1>3. \A p \in Procs : ~ Crash(p)
  BY <1>1 DEF Crash, Fault
<1>4. \A a \in Actors : ~ Fails(a, "claim") /\ ~ Fails(a, "complete") /\ ~ Fails(a, "mark")
  BY <1>1, NoFailure
<1>5. CASE Owed(row[j])
  BY <1>3, <1>4, <1>5, HolderStays DEF OwedAreHeld
<1>6. CASE ~ Owed(row[j])
  <2>1. /\ Queued.status = "queued" /\ Completed(row[j]).status = "succeeded"
        /\ GivenUp(row[j], "run").status # "running" /\ GivenUp(row[j], "run").lastError = "run"
        /\ Claimed(row[j]).status = "running"
    BY <1>2 DEF Queued, NoRow, Completed, GivenUp, Claimed, RowType
  <2>2. row[j].status # "running" /\ row'[j].status = "running"
    BY <1>6, <2>1, RowEffect DEF Owed
  <2> QED
    BY <1>4, <2>2, ClaimHolds
<1> QED
  BY <1>5, <1>6

\* A job that is neither new nor finished has a worker at it, or a message on its way.
NoJobAbandoned ==
    \A j \in Jobs : row[j].status \notin {"none"} \cup Finished => Held(j) \/ Carried(j)

\* Nobody has anything left to do: no request is about to publish, every message was
\* fetched, and no goroutine has one in hand.
AtRest ==
    /\ \A r \in Requests : req[r] # "publish"
    /\ \A t \in Topics, k \in Partitions : pos[t][k] = Len(log[t][k])
    /\ \A a \in Actors : actor[a].pc = "idle"
AcceptedAreFinished ==
    \A r \in Requests : req[r] \in {"200", "202"} => row[KeyOf[r]].status \in Finished

\* Between POST and a finished row there is always someone who has the job: the handler
\* of the request, a topic, a worker or a forwarder (server.go, worker main.go), whatever
\* is rebalanced, delivered twice, stalled, left uncommitted or not recorded. So the
\* pipeline cannot come to rest with a request accepted and its job undone; that it does
\* come to rest is AcceptedFinishes.
THEOREM NothingLeftBehind ==
    ASSUME LosingFaults \cap Faults = {}, AttemptLimit <= NumTiers + 1
    PROVE  Spec => [](NoJobAbandoned /\ (AtRest => AcceptedAreFinished))
<1>1. RetryFaults \cap Faults = {} /\ CrashIsAlone
  BY DEF LosingFaults, CrashIsAlone
<1>2. Init => OwedAreHeld
  BY DEF Init, OwedAreHeld, Owed, NoRow
<1>3. IInv /\ NoDraining /\ OwedAreHeld /\ [Next]_vars => OwedAreHeld'
  BY OwedAreHeldStep
<1>4. IInv /\ InPlace /\ NoDraining /\ QInv /\ WaitingIsCarried /\ OwedAreHeld => NoJobAbandoned
  <2> SUFFICES ASSUME IInv, InPlace, NoDraining, QInv, WaitingIsCarried, OwedAreHeld,
                      NEW j \in Jobs, row[j].status \notin {"none"} \cup Finished
               PROVE  Held(j) \/ Carried(j)
    BY DEF NoJobAbandoned
  <2>1. row[j].status \in {"queued", "running", "retrying"}
    BY DEF IInv, RowsOK, RowType, Statuses, Finished
  <2>2. \/ CanClaim(row[j]) /\ row[j].lastError # "lease"
        \/ row[j].status = "queued"
        \/ Owed(row[j])
    BY <2>1 DEF CanClaim, Owed
  <2>3. CASE row[j].status = "queued"
    <3>1. Main \in Topics
      BY DEF Main, Topics
    <3> QED
      BY <2>3, <3>1, UnsettledIsCarried DEF QInv, Carried
  <2> QED
    BY <2>2, <2>3 DEF WaitingIsCarried, OwedAreHeld
<1>5. IInv /\ InPlace /\ MessageHasRow /\ NoJobAbandoned /\ AtRest => AcceptedAreFinished
  <2> SUFFICES ASSUME IInv, MessageHasRow, NoJobAbandoned, AtRest,
                      NEW r \in Requests, req[r] \in {"200", "202"}
               PROVE  row[KeyOf[r]].status \in Finished
    BY DEF AcceptedAreFinished
  <2> DEFINE j == KeyOf[r]
  <2>1. j \in Jobs /\ row[j].status # "none"
    BY RequestsAssumption DEF MessageHasRow
  <2>2. ~ Held(j)
    BY DEF AtRest, Held, Holds, HoldingPCs, Actors
  <2>3. ~ Carried(j)
    <3>1. ~ Asked(j)
      BY DEF AtRest, Asked
    <3>2. ASSUME NEW t \in Topics, NEW k \in Partitions, NEW i \in 1..Len(log[t][k])
          PROVE  ~ (i > pos[t][k])
      <4>1. pos[t][k] = Len(log[t][k]) /\ Len(log[t][k]) \in Nat
        BY DEF AtRest, IInv, LogsOK
      <4> QED
        BY <4>1
    <3> QED
      BY <3>1, <3>2 DEF AtRest, Carried
  <2> QED
    BY <2>1, <2>2, <2>3 DEF NoJobAbandoned
<1> QED
  BY <1>1, <1>2, <1>3, <1>4, <1>5, RetryInvariant, WaitingCarried, MessagesHaveRows, PTL DEF Spec

--------------------------------------------------------------------------------
(* A success is in the history. *)

\* A worker about to complete a job has recorded its baseline.
Recorded(a) == actor[a].pc = "complete" => runs[actor[a].job] > 0
HInv == SucceededHasHistory /\ \A a \in Consumers : Recorded(a)

\* Only recordRuns writes the history, and only recordRuns leads to CompleteJob.
LEMMA HistoryEffect ==
    ASSUME "record" \notin Faults, IInv, NoDraining, [Next]_vars
    PROVE  /\ \A j \in Jobs : runs'[j] >= runs[j]
           /\ \A b \in Consumers : actor'[b].pc = "complete" =>
                 \/ actor'[b] = actor[b]
                 \/ actor'[b].job \in Jobs /\ runs'[actor'[b].job] > 0
<1> DEFINE Good == /\ \A j \in Jobs : runs'[j] >= runs[j]
                   /\ \A b \in Consumers : actor'[b].pc = "complete" =>
                         \/ actor'[b] = actor[b]
                         \/ actor'[b].job \in Jobs /\ runs'[actor'[b].job] > 0
<1>1. /\ actor \in [Actors -> ActorType] /\ runs \in [Jobs -> Nat]
      /\ \A b \in Consumers : b \in Actors
  BY DEF IInv, ActorsOK, NotesOK, Actors
<1>2. ASSUME runs' = runs,
             \A b \in Actors : actor'[b] = actor[b] \/ actor'[b].pc # "complete"
      PROVE  Good
  BY <1>1, <1>2
<1>3. ASSUME NEW a \in Actors, RecordRuns(a)
      PROVE  Good
  <2>1. actor[a].job \in Jobs
    BY <1>3, WorkerHand DEF RecordRuns
  <2>2. runs' = [runs EXCEPT ![actor[a].job] = @ + 1] /\ Goto(a, "complete")
    BY <1>3, NoFailure DEF RecordRuns
  <2>3. /\ actor'[a].job = actor[a].job /\ runs'[actor[a].job] > 0
        /\ \A b \in Actors : b # a => actor'[b] = actor[b]
    BY <1>1, <2>1, <2>2 DEF Goto, ActorType
  <2>4. \A j \in Jobs : runs'[j] >= runs[j]
    BY <1>1, <2>1, <2>2
  <2> QED
    BY <1>1, <2>1, <2>3, <2>4
<1>4. ASSUME NEW a \in Actors,
             \/ \E k \in Partitions : Fetch(a, k)
             \/ Claim(a) \/ Run(a) \/ Complete(a) \/ MarkFailure(a)
             \/ PublishRetry(a) \/ PublishDLQ(a) \/ Forward(a) \/ Commit(a)
      PROVE  Good
  <2>1. runs' = runs
    BY <1>4 DEF Fetch, Claim, Run, Complete, MarkFailure, PublishRetry, PublishDLQ, Forward, Commit,
                kafka, offsets
  <2>2. \/ UNCHANGED actor
        \/ \E h : h.pc # "complete" /\ actor' = [actor EXCEPT ![a] = h]
        \/ \E x : x # "complete" /\ actor' = [actor EXCEPT ![a].pc = x]
        \/ \E n : actor' = [actor EXCEPT ![a].pc = "run", ![a].att = n]
    <3>1. ASSUME NEW k \in Partitions, Fetch(a, k)
          PROVE  UNCHANGED actor \/ \E h : h.pc # "complete" /\ actor' = [actor EXCEPT ![a] = h]
      <4> DEFINE t == TopicOf(a)
                 h == [pc |-> IF t = Main THEN "claim" ELSE "forward",
                       job |-> log[t][k][pos[t][k] + 1],
                       part |-> k, off |-> pos[t][k] + 1, att |-> 0]
      <4>1. UNCHANGED actor \/ actor' = [actor EXCEPT ![a] = h]
        BY <3>1 DEF Fetch
      <4>2. h.pc # "complete"
        OBVIOUS
      <4> HIDE DEF h
      <4> QED
        BY <4>1, <4>2
    <3>2. Idle.pc # "complete"
      BY DEF Idle
    <3>3. ASSUME \/ Claim(a) \/ Run(a) \/ Complete(a) \/ MarkFailure(a)
                 \/ PublishRetry(a) \/ PublishDLQ(a) \/ Forward(a) \/ Commit(a)
          PROVE  \/ actor' = [actor EXCEPT ![a] = Idle]
                 \/ \E x : x # "complete" /\ actor' = [actor EXCEPT ![a].pc = x]
                 \/ \E n : actor' = [actor EXCEPT ![a].pc = "run", ![a].att = n]
      BY <3>3 DEF Claim, Run, Complete, MarkFailure, PublishRetry, PublishDLQ, Forward, Commit, Goto
    <3> QED
      BY <1>4, <3>1, <3>2, <3>3
  <2>3. \A b \in Actors : actor'[b] = actor[b] \/ actor'[b].pc # "complete"
    BY <1>1, <2>2 DEF ActorType
  <2> QED
    BY <1>2, <2>1, <2>3
<1>5. ASSUME NEW p \in Procs, Crash(p)
      PROVE  Good
  <2>1. runs' = runs /\ \A b \in Actors : actor'[b] = actor[b] \/ actor'[b] = Idle
    BY <1>5 DEF Crash
  <2> QED
    BY <1>2, <2>1 DEF Idle
<1>6. ASSUME \/ \E r \in Requests : Create(r) \/ PublishJob(r) \/ ApiCrash(r)
             \/ \E t \in Topics : Rebalance(t) \/ Reshuffle(t)
             \/ \E k \in Partitions : Garbage(k)
             \/ \E j \in Jobs : Elapse(j) \/ Stall(j)
             \/ ReclaimStale
             \/ \E p \in Procs : Shutdown(p) \/ Exit(p) \/ Restart(p)
             \/ UNCHANGED vars
      PROVE  Good
  <2>1. runs' = runs /\ actor' = actor
    BY <1>6 DEF Create, PublishJob, ApiCrash, Rebalance, Reshuffle, Assign, Garbage, Elapse, Stall,
                ReclaimStale, Shutdown, Exit, Restart, vars
  <2> QED
    BY <1>2, <2>1
<1> HIDE DEF Good
<1>7. Good
  BY <1>3, <1>4, <1>5, <1>6 DEF Next, Step
<1> QED
  BY <1>7 DEF Good

LEMMA HInvStep ==
    ASSUME "record" \notin Faults, IInv, NoDraining, HInv, [Next]_vars
    PROVE  HInv'
<1>1. runs \in [Jobs -> Nat] /\ \A j \in Jobs : runs'[j] >= runs[j]
  BY HistoryEffect DEF IInv, NotesOK
<1>2. \A j \in Jobs : runs'[j] \in Nat
  <2>1. IInv'
    BY NextIInv
  <2> QED
    BY <2>1 DEF IInv, NotesOK
<1>3. \A j \in Jobs : runs[j] > 0 => runs'[j] > 0
  BY <1>1, <1>2
<1>4. ASSUME NEW j \in Jobs, row'[j].status = "succeeded"
      PROVE  runs'[j] > 0
  <2>1. row[j] \in RowType
    BY DEF IInv, RowsOK
  <2>2. /\ Queued.status = "queued" /\ Claimed(row[j]).status = "running"
        /\ \A c : GivenUp(row[j], c).status \in {"retrying", "failed"}
    BY <2>1 DEF Queued, NoRow, Claimed, GivenUp, RowType
  <2>3. \/ row'[j] = row[j]
        \/ \E a \in Consumers : Complete(a) /\ actor[a].job = j
        \/ row'[j] = Queued \/ row'[j] = Claimed(row[j])
        \/ row'[j] = GivenUp(row[j], "run") \/ row'[j] = GivenUp(row[j], "lease")
        \/ row'[j].status = "running"
    BY RowEffect
  <2>4. row[j].status = "succeeded" \/ \E a \in Consumers : Complete(a) /\ actor[a].job = j
    BY <1>4, <2>2, <2>3
  <2> QED
    BY <1>3, <2>4 DEF HInv, SucceededHasHistory, Recorded, Complete
<1>5. ASSUME NEW b \in Consumers, actor'[b].pc = "complete"
      PROVE  runs'[actor'[b].job] > 0
  <2>1. CASE actor'[b] = actor[b]
    <3>1. actor[b].job \in Jobs
      BY <1>5, <2>1, WorkerHand DEF Actors
    <3> QED
      BY <1>3, <1>5, <2>1, <3>1 DEF HInv, Recorded
  <2> QED
    BY <1>5, <2>1, HistoryEffect
<1> QED
  BY <1>4, <1>5 DEF HInv, SucceededHasHistory, Recorded

\* A succeeded job has a baseline measurement in the history (recordRuns comes before
\* CompleteJob and nothing else leads there), whatever else fails, if no insert of it
\* does.
THEOREM HistoryCorrect ==
    ASSUME {"record", "shutdown"} \cap Faults = {}
    PROVE  Spec => []SucceededHasHistory
<1>1. Init => NoDraining /\ HInv
  BY DEF Init, NoDraining, HInv, SucceededHasHistory, Recorded, NoRow, Idle, Actors
<1>2. IInv /\ NoDraining /\ HInv /\ [Next]_vars => NoDraining' /\ HInv'
  BY NoDrainingStep, HInvStep
<1>3. HInv => SucceededHasHistory
  BY DEF HInv
<1> QED
  BY <1>1, <1>2, <1>3, Invariance, PTL DEF Spec

--------------------------------------------------------------------------------
(* Dead letters. *)

\* Without these, a worker comes to the dead-letter publish only with a failed row.
DeadFaults == {"stall", "mark", "publishRetry", "shutdown"}

AtDlq(a, j) == actor[a].job = j /\ actor[a].pc = "dlq"

\* One worker at most is about to dead-letter a job, which failed and was not yet.
OneLetter ==
    \A j \in Jobs : \A a \in Consumers : AtDlq(a, j) =>
        /\ row[j].status = "failed" /\ dlq[j] = 0
        /\ \A b \in Consumers : AtDlq(b, j) => b = a

\* What is dead-lettered has failed, once but for faults.
LettersCounted ==
    \A j \in Jobs : dlq[j] <= 1 + faults /\ (dlq[j] > 0 => row[j].status = "failed")

\* Before the first fault no process is down, every running job has its worker, and
\* every failed one was dead-lettered or is about to be.
FaultFree ==
    faults = 0 =>
        /\ \A p \in Procs : proc[p] = "up"
        /\ \A j \in Jobs :
              /\ row[j].status = "running" => Held(j)
              /\ row[j].status = "failed" /\ dlq[j] = 0 => \E a \in Consumers : AtDlq(a, j)

DInv == OneLetter /\ LettersCounted /\ FaultFree

\* The row of a failed job is final.
LEMMA FailedStays ==
    ASSUME IInv, EInv, [Next]_vars, NEW j \in Jobs, row[j].status = "failed"
    PROVE  row'[j] = row[j]
<1>1. ASSUME NEW a \in Consumers, actor[a].job = j, Complete(a) \/ MarkFailure(a)
      PROVE  FALSE
  <2>1. Holds(a, j)
    BY <1>1 DEF Complete, MarkFailure, Holds, HoldingPCs
  <2> QED
    BY <2>1 DEF EInv, ExclusiveRun
<1> QED
  BY <1>1, RowEffect DEF CanClaim

\* How a worker comes to the dead-letter publish, and leaves it.
LEMMA DlqHand ==
    ASSUME DeadFaults \cap Faults = {}, IInv, NoDraining, [Next]_vars, NEW a \in Consumers
    PROVE  /\ actor'[a].pc = "dlq" =>
                 \/ actor'[a] = actor[a]
                 \/ MarkFailure(a) /\ actor'[a].job = actor[a].job
           /\ actor[a].pc = "dlq" =>
                 \/ actor'[a] = actor[a]
                 \/ PublishDLQ(a) /\ actor'[a].pc # "dlq"
                 \/ actor'[a].pc # "dlq" /\ \E p \in Procs : Crash(p)
           /\ PublishDLQ(a) => actor'[a].pc # "dlq"
<1>1. /\ a \in Actors /\ actor \in [Actors -> ActorType]
      /\ "publishRetry" \notin Faults
  BY DEF Actors, IInv, ActorsOK, DeadFaults
<1>2. PublishRetry(a) => actor'[a].pc # "dlq"
  BY <1>1, NoFailure DEF PublishRetry, Goto, ActorType
<1>3. MarkFailure(a) => actor'[a].job = actor[a].job
  BY <1>1 DEF MarkFailure, Goto, ActorType
<1>4. PublishDLQ(a) => actor[a].pc = "dlq" /\ actor'[a].pc # "dlq"
  BY <1>1 DEF PublishDLQ, Goto, ActorType
<1>5. ASSUME \/ \E k \in Partitions : Fetch(a, k)
             \/ Claim(a) \/ Run(a) \/ RecordRuns(a) \/ Complete(a) \/ Forward(a) \/ Commit(a)
      PROVE  actor[a].pc # "dlq" /\ (actor'[a].pc # "dlq" \/ actor'[a] = actor[a])
  <2>1. ASSUME NEW k \in Partitions, Fetch(a, k)
        PROVE  actor[a].pc # "dlq" /\ (actor'[a].pc # "dlq" \/ actor'[a] = actor[a])
    BY <1>1, <2>1 DEF Fetch
  <2>2. ASSUME Claim(a) \/ Run(a) \/ RecordRuns(a) \/ Complete(a) \/ Forward(a) \/ Commit(a)
        PROVE  actor[a].pc # "dlq" /\ actor'[a].pc # "dlq"
    BY <1>1, <2>2 DEF Claim, Run, RecordRuns, Complete, Forward, Commit, Goto, Idle, ActorType
  <2> QED
    BY <1>5, <2>1, <2>2
<1>6. MarkFailure(a) \/ PublishRetry(a) => actor[a].pc # "dlq"
  BY DEF MarkFailure, PublishRetry
<1>7. Idle.pc # "dlq"
  BY DEF Idle
<1> QED
  BY <1>1, <1>2, <1>3, <1>4, <1>5, <1>6, <1>7, OwnStep DEF Step

\* Faults are counted, and what is sent to the dead-letter topic is sent by one worker.
LEMMA LetterEffect ==
    ASSUME DeadFaults \cap Faults = {}, IInv, NoDraining, [Next]_vars, NEW j \in Jobs
    PROVE  \/ dlq'[j] = dlq[j] /\ faults' >= faults
           \/ \E a \in Consumers : /\ PublishDLQ(a) /\ AtDlq(a, j) /\ dlq'[j] \in Nat
                                   /\ \/ dlq'[j] = dlq[j] + 1 /\ faults' >= faults
                                      \/ dlq'[j] <= dlq[j] + 2 /\ faults' > faults
<1>1. dlq \in [Jobs -> Nat] /\ faults \in Nat
  BY DEF IInv, NotesOK, FaultsOK
<1>2. faults' >= faults /\ \A f : Fault(f) => faults' > faults
  <2>1. (NoFault \/ \E f : Fault(f)) => faults' >= faults
    BY <1>1 DEF NoFault, Fault
  <2>2. NoFault \/ (\E f : Fault(f)) \/ UNCHANGED vars
    BY FaultsCounted
  <2>3. UNCHANGED vars => faults' >= faults
    BY <1>1 DEF vars
  <2> QED
    BY <1>1, <2>1, <2>2, <2>3 DEF Fault
<1>3. ASSUME NEW a \in Actors, PublishDLQ(a)
      PROVE  \/ dlq'[j] = dlq[j]
             \/ /\ a \in Consumers /\ AtDlq(a, j)
                /\ dlq'[j] = dlq[j] + 1 \/ (dlq'[j] = dlq[j] + 2 /\ faults' > faults)
  <2>1. a \in Consumers /\ actor[a].job \in Jobs
    BY <1>3, WorkerHand DEF PublishDLQ
  <2>2. \/ dlq' = dlq \/ dlq' = [dlq EXCEPT ![actor[a].job] = @ + 1]
        \/ dlq' = [dlq EXCEPT ![actor[a].job] = @ + 2] /\ faults' > faults
    BY <1>2, <1>3 DEF PublishDLQ
  <2> QED
    BY <1>1, <1>3, <2>1, <2>2 DEF AtDlq, PublishDLQ
<1>4. ASSUME NEW a \in Actors,
             \/ \E k \in Partitions : Fetch(a, k)
             \/ Claim(a) \/ Run(a) \/ RecordRuns(a) \/ Complete(a) \/ MarkFailure(a)
             \/ PublishRetry(a) \/ Forward(a) \/ Commit(a)
      PROVE  dlq' = dlq
  BY <1>4 DEF Fetch, Claim, Run, RecordRuns, Complete, MarkFailure, PublishRetry, Forward, Commit, kafka
<1>5. ASSUME \/ \E r \in Requests : Create(r) \/ PublishJob(r) \/ ApiCrash(r)
             \/ \E t \in Topics : Rebalance(t) \/ Reshuffle(t)
             \/ \E k \in Partitions : Garbage(k)
             \/ \E i \in Jobs : Elapse(i) \/ Stall(i)
             \/ ReclaimStale
             \/ \E p \in Procs : Crash(p) \/ Shutdown(p) \/ Exit(p) \/ Restart(p)
             \/ UNCHANGED vars
      PROVE  dlq' = dlq
  BY <1>5 DEF Create, PublishJob, ApiCrash, Rebalance, Reshuffle, Assign, Garbage, Elapse, Stall,
              ReclaimStale, Crash, Shutdown, Exit, Restart, kafka, vars
<1>6. \/ dlq'[j] = dlq[j]
      \/ \E a \in Consumers : /\ PublishDLQ(a) /\ AtDlq(a, j)
                              /\ dlq'[j] = dlq[j] + 1 \/ (dlq'[j] = dlq[j] + 2 /\ faults' > faults)
  BY <1>3, <1>4, <1>5 DEF Next, Step
<1>7. dlq[j] \in Nat
  BY <1>1
<1>8. \A n \in Nat : n + 1 \in Nat /\ n + 2 \in Nat /\ n + 2 <= n + 2
  OBVIOUS
<1> QED
  BY <1>2, <1>6, <1>7, <1>8

\* Who is at the dead-letter publish after the step was there, or has just given up.
LEMMA NewLetter ==
    ASSUME DeadFaults \cap Faults = {}, IInv, NoDraining, [Next]_vars, NEW j \in Jobs,
           NEW c \in Consumers, (AtDlq(c, j))'
    PROVE  AtDlq(c, j) \/ (MarkFailure(c) /\ actor[c].job = j)
BY DlqHand DEF AtDlq

LEMMA MarkingHolds ==
    ASSUME EInv, NEW c \in Consumers, NEW j \in Jobs, MarkFailure(c), actor[c].job = j
    PROVE  row[j].status = "running" /\ \A b \in Consumers : Holds(b, j) => b = c
<1>1. Holds(c, j)
  BY DEF MarkFailure, Holds, HoldingPCs
<1> QED
  BY <1>1 DEF EInv, ExclusiveRun

\* A worker that gives a job up, and does not retry it, leaves a failed row.
LEMMA MarkedFails ==
    ASSUME DeadFaults \cap Faults = {}, AttemptLimit <= NumTiers + 1, IInv, NoDraining, OnAttempt,
           NEW a \in Consumers, NEW j \in Jobs, actor[a].job = j, MarkFailure(a),
           actor'[a].pc = "dlq"
    PROVE  row'[j].status = "failed"
<1>1. "mark" \notin Faults /\ row \in [Jobs -> RowType] /\ a \in Actors
  BY DEF DeadFaults, IInv, RowsOK, Actors
<1>2. row'[j] = GivenUp(row[j], "run")
  BY <1>1, NoFailure DEF MarkFailure, Set
<1>3. row'[j].status \in {"retrying", "failed"}
  BY <1>1, <1>2 DEF GivenUp, RowType
<1> QED
  BY <1>1, <1>3, MarkedRetries

LEMMA OneLetterStep ==
    ASSUME DeadFaults \cap Faults = {}, AttemptLimit <= NumTiers + 1, IInv, EInv, NoDraining,
           OnAttempt, OneLetter, LettersCounted, [Next]_vars
    PROVE  OneLetter'
<1> SUFFICES ASSUME NEW j \in Jobs, NEW a \in Consumers, (AtDlq(a, j))'
             PROVE  /\ row'[j].status = "failed" /\ dlq'[j] = 0
                    /\ \A b \in Consumers : (AtDlq(b, j))' => b = a
  BY DEF OneLetter
<1>1. dlq[j] \in Nat
  BY DEF IInv, NotesOK
<1>2. CASE AtDlq(a, j)
  <2>1. row[j].status = "failed" /\ dlq[j] = 0 /\ \A b \in Consumers : AtDlq(b, j) => b = a
    BY <1>2 DEF OneLetter
  <2>2. row'[j] = row[j]
    BY <2>1, FailedStays
  <2>3. ~ PublishDLQ(a)
    BY DlqHand DEF AtDlq
  <2>4. dlq'[j] = dlq[j]
    BY <2>1, <2>3, LetterEffect
  <2>5. \A b \in Consumers : (AtDlq(b, j))' => b = a
    BY <2>1, NewLetter, MarkingHolds
  <2> QED
    BY <2>1, <2>2, <2>4, <2>5
<1>3. CASE MarkFailure(a) /\ actor[a].job = j
  <2>1. row[j].status = "running" /\ \A b \in Consumers : Holds(b, j) => b = a
    BY <1>3, MarkingHolds
  <2>2. \A b \in Consumers : ~ AtDlq(b, j)
    BY <2>1 DEF OneLetter
  <2>3. dlq[j] = 0 /\ dlq'[j] = dlq[j]
    BY <1>1, <2>1, <2>2, LetterEffect DEF LettersCounted
  <2>4. \A b \in Consumers : MarkFailure(b) /\ actor[b].job = j => b = a
    BY <2>1 DEF MarkFailure, Holds, HoldingPCs
  <2>5. row'[j].status = "failed"
    BY <1>3, MarkedFails DEF AtDlq
  <2> QED
    BY <2>2, <2>3, <2>4, <2>5, NewLetter
<1> QED
  BY <1>2, <1>3, NewLetter

LEMMA LettersCountedStep ==
    ASSUME DeadFaults \cap Faults = {}, IInv, EInv, NoDraining, OneLetter, LettersCounted,
           [Next]_vars
    PROVE  LettersCounted'
<1> SUFFICES ASSUME NEW j \in Jobs
             PROVE  dlq'[j] <= 1 + faults' /\ (dlq'[j] > 0 => row'[j].status = "failed")
  BY DEF LettersCounted
<1>1. IInv'
  BY NextIInv
<1>2. dlq[j] \in Nat /\ dlq'[j] \in Nat /\ faults \in Nat /\ faults' \in Nat
  BY <1>1 DEF IInv, NotesOK, FaultsOK
<1>3. CASE dlq'[j] = dlq[j] /\ faults' >= faults
  BY <1>2, <1>3, FailedStays DEF LettersCounted
<1>4. ASSUME NEW a \in Consumers, AtDlq(a, j),
             \/ dlq'[j] = dlq[j] + 1 /\ faults' >= faults
             \/ dlq'[j] <= dlq[j] + 2 /\ faults' > faults
      PROVE  dlq'[j] <= 1 + faults' /\ row'[j].status = "failed"
  <2>1. row[j].status = "failed" /\ dlq[j] = 0
    BY <1>4 DEF OneLetter
  <2> QED
    BY <1>2, <1>4, <2>1, FailedStays
<1> QED
  BY <1>3, <1>4, LetterEffect

LEMMA FaultFreeStep ==
    ASSUME DeadFaults \cap Faults = {}, IInv, EInv, NoDraining, FaultFree, [Next]_vars
    PROVE  FaultFree'
<1> SUFFICES ASSUME faults' = 0
             PROVE  /\ \A p \in Procs : proc'[p] = "up"
                    /\ \A j \in Jobs :
                          /\ row'[j].status = "running" => (Held(j))'
                          /\ row'[j].status = "failed" /\ dlq'[j] = 0 =>
                                \E a \in Consumers : (AtDlq(a, j))'
  BY DEF FaultFree
<1>1. faults = 0 /\ \A f : ~ Fault(f)
  <2>1. faults \in Nat
    BY DEF IInv, FaultsOK
  <2>2. UNCHANGED vars => faults' = faults
    BY DEF vars
  <2> QED
    BY <2>1, <2>2, FaultsCounted DEF NoFault, Fault
<1>2. /\ \A p \in Procs : proc[p] = "up"
      /\ \A j \in Jobs :
            /\ row[j].status = "running" => Held(j)
            /\ row[j].status = "failed" /\ dlq[j] = 0 => \E a \in Consumers : AtDlq(a, j)
  BY <1>1 DEF FaultFree
<1>3. /\ actor \in [Actors -> ActorType] /\ row \in [Jobs -> RowType] /\ dlq \in [Jobs -> Nat]
      /\ \A a \in Consumers : a \in Actors
  BY DEF IInv, ActorsOK, RowsOK, NotesOK, Actors
<1>4. \A p \in Procs : ~ Crash(p) /\ ~ Shutdown(p) /\ ~ Exit(p)
  BY <1>1, <1>2 DEF Crash, Shutdown, Exit
<1>5. \A f : \A a \in Actors : ~ Fails(a, f)
  BY <1>1, <1>2, ActorParts DEF Fails
<1>6. \A p \in Procs : proc'[p] = "up"
  <2>1. UNCHANGED proc \/ \E q \in Procs : Restart(q)
    BY <1>4, ProcEffect
  <2>2. proc \in [Procs -> {"up", "draining", "down"}]
    BY DEF IInv, NotesOK
  <2> QED
    BY <1>2, <2>1, <2>2 DEF Restart
<1>7. ASSUME NEW j \in Jobs, row'[j].status = "running"
      PROVE  (Held(j))'
  <2>1. CASE row[j].status = "running"
    <3>1. Held(j) /\ Owed(row'[j])
      BY <1>2, <1>7, <2>1 DEF Owed
    <3> QED
      BY <1>4, <1>5, <3>1, HolderStays
  <2>2. CASE row[j].status # "running"
    BY <1>5, <1>7, <2>2, ClaimHolds
  <2> QED
    BY <2>1, <2>2
<1>8. ASSUME NEW j \in Jobs, row'[j].status = "failed", dlq'[j] = 0
      PROVE  \E a \in Consumers : (AtDlq(a, j))'
  <2>1. \/ row'[j] = row[j]
        \/ \E a \in Consumers : MarkFailure(a) /\ actor[a].job = j
    <3>1. /\ Queued.status # "failed" /\ Completed(row[j]).status # "failed"
          /\ Claimed(row[j]).status # "failed"
      BY <1>3 DEF Queued, NoRow, Completed, Claimed, RowType
    <3>2. ~ LeaseExpired(row[j])
      <4> SUFFICES ASSUME LeaseExpired(row[j])
                   PROVE  FALSE
        OBVIOUS
      <4>1. Held(j)
        BY <1>2 DEF LeaseExpired
      <4>2. row[j].age < LeaseUnits /\ row[j].age >= LeaseUnits
        BY <4>1 DEF EInv, HeldIsFresh, LeaseExpired
      <4>3. row[j].age \in Nat /\ LeaseUnits \in Nat
        BY <1>3 DEF RowType, MaxAge, LeaseUnits
      <4> QED
        BY <4>2, <4>3
    <3> QED
      BY <1>8, <3>1, <3>2, RowEffect
  <2>2. ASSUME NEW a \in Consumers, MarkFailure(a), actor[a].job = j
        PROVE  (AtDlq(a, j))'
    <3> DEFINE marked == GivenUp(row[j], "run")
    <3>1. /\ Set(j, marked)
          /\ Goto(a, IF marked.status = "retrying" /\ HasTier(actor[a].att) THEN "retry" ELSE "dlq")
      BY <1>3, <1>5, <2>2 DEF MarkFailure
    <3>2. marked.status # "retrying"
      BY <1>3, <1>8, <3>1 DEF Set
    <3>3. Goto(a, "dlq")
      BY <3>1, <3>2
    <3> QED
      BY <1>3, <2>2, <3>3 DEF Goto, AtDlq, ActorType
  <2>3. CASE row'[j] = row[j]
    <3>1. dlq[j] = 0
      BY <1>1, <1>3, <1>8, LetterEffect
    <3>2. PICK a \in Consumers : AtDlq(a, j)
      BY <1>2, <1>8, <2>3, <3>1
    <3>3. ~ PublishDLQ(a)
      <4>1. PublishDLQ(a) => dlq' = [dlq EXCEPT ![j] = @ + 1]
        BY <1>1, <1>3, <1>5, <3>2 DEF PublishDLQ, AtDlq
      <4> QED
        BY <1>3, <1>8, <3>1, <4>1
    <3>4. actor'[a] = actor[a]
      BY <1>4, <3>2, <3>3, DlqHand DEF AtDlq
    <3> QED
      BY <3>2, <3>4 DEF AtDlq
  <2> QED
    BY <2>1, <2>2, <2>3
<1> QED
  BY <1>6, <1>7, <1>8

LEMMA DeadLetterInvariant ==
    ASSUME DeadFaults \cap Faults = {}, AttemptLimit <= NumTiers + 1
    PROVE  Spec => [](IInv /\ DInv)
<1>1. NoStalls /\ "shutdown" \notin Faults
  BY DEF DeadFaults, NoStalls
<1>2. Init => NoDraining /\ OnAttempt /\ DInv
  <2> SUFFICES ASSUME Init
               PROVE  NoDraining /\ OnAttempt /\ DInv
    OBVIOUS
  <2>1. NoDraining /\ OnAttempt /\ OneLetter
    BY DEF Init, NoDraining, OnAttempt, OneLetter, AtDlq, Idle, HoldingPCs, Actors
  <2>2. LettersCounted
    BY DEF Init, LettersCounted
  <2>3. FaultFree
    BY DEF Init, FaultFree, NoRow
  <2> QED
    BY <2>1, <2>2, <2>3 DEF DInv
<1>3. /\ IInv /\ EInv /\ MessageHasRow /\ NoDraining /\ OnAttempt /\ DInv
      /\ [Next]_vars
      => NoDraining' /\ OnAttempt' /\ DInv'
  <2> SUFFICES ASSUME IInv, EInv, MessageHasRow, NoDraining, OnAttempt, DInv, [Next]_vars
               PROVE  NoDraining' /\ OnAttempt' /\ DInv'
    OBVIOUS
  <2>1. \A a \in Consumers : actor[a].job \in Jobs => row[actor[a].job].status # "none"
    BY JobsAssumption DEF MessageHasRow, Actors
  <2>2. NoDraining' /\ OnAttempt'
    BY <1>1, <2>1, NoDrainingStep, OnAttemptStep
  <2>3. OneLetter' /\ LettersCounted' /\ FaultFree'
    BY OneLetterStep, LettersCountedStep, FaultFreeStep DEF DInv
  <2> QED
    BY <2>2, <2>3 DEF DInv
<1> QED
  BY <1>1, <1>2, <1>3, Exclusion, MessagesHaveRows, PTL DEF Spec

\* Only failed jobs are dead-lettered, each at most once and once more per fault, and
\* until the first fault each failed job is or is about to be, whatever the number of
\* jobs, workers and attempts (scheduleRetry: a
\* message is published to DLQTopic where no delay topic is left for the job).
THEOREM DeadLettersCorrect ==
    ASSUME DeadFaults \cap Faults = {}, AttemptLimit <= NumTiers + 1
    PROVE  Spec => []DeadLetteredOnce
<1>1. DInv => DeadLetteredOnce
  BY DEF DInv, LettersCounted, FaultFree, AtDlq, DeadLetteredOnce
<1> QED
  BY <1>1, DeadLetterInvariant, PTL
================================================================================
