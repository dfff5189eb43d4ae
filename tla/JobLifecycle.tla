----------------------------- MODULE JobLifecycle -----------------------------
(***************************************************************************)
(* What the job pipeline promises about one row of optimization_jobs,      *)
(* whatever happens to messages and processes: the row moves through the   *)
(* statuses of internal/store/store.go:21-27 along a fixed graph, each      *)
(* start is paid for with one attempt, no start happens without an attempt  *)
(* left, and a finished row never moves again.  JobPipeline implements this *)
(* specification as long as no lease expires under a live worker.           *)
(***************************************************************************)
EXTENDS Naturals

CONSTANTS
    Jobs,          \* the rows
    AttemptLimit   \* max_attempts

VARIABLES
    status,        \* optimization_jobs.status; "none" before the row exists
    attempts       \* optimization_jobs.attempts

vars == <<status, attempts>>

Finished == {"succeeded", "failed"}
Startable == {"queued", "retrying"}

Init ==
    /\ status = [j \in Jobs |-> "none"]
    /\ attempts = [j \in Jobs |-> 0]

\* A client's request creates the row, with no attempt used.
Submit(j) ==
    /\ status[j] = "none"
    /\ status' = [status EXCEPT ![j] = "queued"]
    /\ attempts' = [attempts EXCEPT ![j] = 0]

\* One worker starts an attempt.
Start(j) ==
    /\ status[j] \in Startable
    /\ attempts[j] < AttemptLimit
    /\ status' = [status EXCEPT ![j] = "running"]
    /\ attempts' = [attempts EXCEPT ![j] = @ + 1]

\* The attempt under way produced a report.
Succeed(j) ==
    /\ status[j] = "running"
    /\ status' = [status EXCEPT ![j] = "succeeded"]
    /\ UNCHANGED attempts

\* The attempts under way on the jobs of S came to nothing: each job goes back
\* for another attempt, or fails when it has none left.
GiveUp(S) ==
    /\ S # {}
    /\ \A j \in S : status[j] = "running"
    /\ status' = [j \in Jobs |->
                    IF j \notin S THEN status[j]
                    ELSE IF attempts[j] < AttemptLimit THEN "retrying" ELSE "failed"]
    /\ UNCHANGED attempts

Next ==
    \/ \E j \in Jobs : Submit(j) \/ Start(j) \/ Succeed(j)
    \/ \E S \in SUBSET Jobs : GiveUp(S)

Spec == Init /\ [][Next]_vars
===============================================================================
