SPECIFICATION Spec
CHECK_DEADLOCK FALSE
CONSTANTS
  j1 = j1  j2 = j2  r1 = r1  r2 = r2  r3 = r3  p1 = p1  p2 = p2
  NoJob = NoJob
  Jobs <- TwoJobs
  Requests <- TwoRequests
  KeyOf <- TwoKeys
  Procs <- TwoProcs
  Concurrency = 1
  NumPartitions = 1
  PartOf <- SamePartition
  NumTiers = 1
  MaxDeliveryAttempt = 2
  Faults <- DeliveryFaults
  MaxFaults = 1
SYMMETRY JobSymmetry
INVARIANT ExclusiveRun
INVARIANT ReportIffSucceeded
INVARIANT WaitingIsCarried
INVARIANT DeadLetteredOnce
INVARIANT SucceededHasHistory
INVARIANT CommittedRetryWasForwarded
PROPERTY FinishedIsFinal
PROPERTY RefinesLifecycle
