----------------------------- MODULE MCJobPipeline -----------------------------
(* Small instances of JobPipeline for TLC. *)
EXTENDS JobPipelineProperties, TLC

CONSTANTS j1, j2, r1, r2, r3, p1, p2

\* Two requests for one job: the second is deduplicated or repeats a failed one.
OneJob == {j1}
OneJobRequests == {r1, r2}
OneJobKeys == [r \in OneJobRequests |-> j1]

OneRequest == {r1}
OneKey == [r \in OneRequest |-> j1]

\* Two jobs, each asked for once.
TwoJobs == {j1, j2}
TwoRequests == {r1, r3}
TwoKeys == [r \in TwoRequests |-> IF r = r1 THEN j1 ELSE j2]

\* All jobs are in the only partition.
SamePartition == [j \in Jobs |-> 1]

OneProc == {p1}
TwoProcs == {p1, p2}

\* The worker processes are alike.
ProcSymmetry == Permutations(Procs)

\* Two jobs in one partition are alike too, each with its request.
Exchanged == (j1 :> j2) @@ (j2 :> j1) @@ (r1 :> r3) @@ (r3 :> r1)
JobSymmetry == ProcSymmetry \cup {Exchanged}

CrashFaults == {"crash"}
DeliveryFaults == {"crash", "rebalance", "commit", "duplicate"}
MessageFaults == {"rebalance", "duplicate", "garbage"}
ApiFaults == {"publishJob"}
ShutdownFaults == {"shutdown"}
================================================================================
