------------------------------ MODULE ModelClient ------------------------------
(***************************************************************************)
(* One call of Generate (internal/llm/gemini.go): requests to the model,    *)
(* retried with growing waits within a budget of time, under a context      *)
(* that may be cancelled at any moment.  Time is in whole seconds.          *)
(***************************************************************************)
EXTENDS Integers

CONSTANTS
    MaxRetries,     \* maxRetries: 5
    Budget,         \* retryBudget: 90
    MaxWait,        \* the longest wait: 20
    Waits,          \* the wait before each retry: 1 << attempt seconds, up to MaxWait
    RequestTimeout, \* the timeout of the HTTP client
    Latencies       \* how long a request may take, up to RequestTimeout

ASSUME ClientAssumption ==
    /\ MaxRetries \in Nat /\ Budget \in Nat /\ MaxWait \in Nat /\ RequestTimeout \in Nat
    /\ Latencies \subseteq 0..RequestTimeout
    /\ Waits \in [1..MaxRetries -> 0..MaxWait]

VARIABLES
    pc,         \* "request", "check" before a retry, "wait", or how Generate returned
    attempt,    \* the loop variable
    now,        \* time since the call
    cancelled,  \* whether the context is done
    late        \* requests begun although the context was done

vars == <<pc, attempt, now, cancelled, late>>

Returned == {"answer", "refused", "exhausted", "cancelled", "failed"}

Init == pc = "request" /\ attempt = 0 /\ now = 0 /\ cancelled = FALSE /\ late = 0

Cancel ==
    /\ ~cancelled /\ pc \notin Returned
    /\ cancelled' = TRUE
    /\ UNCHANGED <<pc, attempt, now, late>>

\* The loop's condition after a continue.
Continue == IF attempt < MaxRetries THEN "check" ELSE "failed"

\* An answer, a refusal (any status but 200, 429 and 5xx; an answer without
\* candidates; one that does not decode), or something worth another attempt.
\* With its context done a request fails at once.
Request ==
    /\ pc = "request"
    /\ late' = IF cancelled THEN late + 1 ELSE late
    /\ \/ /\ ~cancelled
          /\ \E d \in Latencies : now' = now + d
          /\ pc' \in {"answer", "refused", Continue}
       \/ /\ cancelled
          /\ now' = now
          /\ pc' = Continue
    /\ attempt' = attempt + 1
    /\ UNCHANGED cancelled

NeverExhausted == FALSE   \* slip: the budget is not looked at
Exhausted == now > Budget

\* The budget is looked at before the wait.
CheckBudget ==
    /\ pc = "check"
    /\ pc' = IF Exhausted THEN "exhausted" ELSE "wait"
    /\ UNCHANGED <<attempt, now, cancelled, late>>

\* slip: a sleep instead of the select
SleepBeforeRetry ==
    /\ pc = "wait"
    /\ now' = now + Waits[attempt]
    /\ pc' = "request"
    /\ UNCHANGED <<attempt, cancelled, late>>

\* The select: the timer, or the context.  A context already done wins, since
\* the timer cannot have fired.
WaitForRetry ==
    /\ pc = "wait"
    /\ \/ /\ ~cancelled
          /\ now' = now + Waits[attempt]
          /\ pc' = "request"
       \/ /\ cancelled
          /\ \E d \in {0, Waits[attempt]} : now' = now + d
          /\ pc' = "cancelled"
    /\ UNCHANGED <<attempt, cancelled, late>>

Next == Cancel \/ Request \/ CheckBudget \/ WaitForRetry

Spec == Init /\ [][Next]_vars

--------------------------------------------------------------------------------

\* Every variable stays in its type; a retry is one of maxRetries.
TypeOK ==
    /\ pc \in {"request", "check", "wait"} \cup Returned
    /\ attempt \in 0..(MaxRetries + 1)
    /\ now \in Nat
    /\ cancelled \in BOOLEAN
    /\ late \in Nat
    /\ pc \in {"check", "wait"} => attempt \in 1..MaxRetries

\* The time Generate can take: the budget bounds when the last wait begins, and
\* one wait and one request may come on top of it.
ReturnsInTime == now <= Budget + MaxWait + RequestTimeout

\* A cancelled job asks the model once more at most.
CancelStopsAsking == late <= 1
================================================================================
