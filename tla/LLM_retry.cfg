SPECIFICATION Spec
CHECK_DEADLOCK FALSE
CONSTANTS
    MaxRetries = 5
    Budget = 90
    MaxWait = 20
    Waits <- Backoff
    RequestTimeout = 90
    Latencies <- SomeLatencies
INVARIANTS ReturnsInTime CancelStopsAsking
