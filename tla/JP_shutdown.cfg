SPECIFICATION Spec
CHECK_DEADLOCK FALSE
CONSTANTS
  j1 = j1  j2 = j2  r1 = r1  r2 = r2  r3 = r3  p1 = p1  p2 = p2
  NoJob = NoJob
  Jobs <- OneJob
  Requests <- OneJobRequests
  KeyOf <- OneJobKeys
  Procs <- OneProc
  Concurrency = 1
  NumPartitions = 1
  PartOf <- SamePartition
  NumTiers = 2
  MaxDeliveryAttempt = 2
  Faults <- ShutdownFaults
  MaxFaults = 1
PROPERTY ShutdownFinishesJobs
