--------------------------- MODULE ModelClientProofs ---------------------------
(***************************************************************************)
(* Generate returns within the budget, one wait and one request, for every  *)
(* choice of the client's constants; and a cancelled job stops asking.      *)
(***************************************************************************)
EXTENDS ModelClient, TLAPS

\* A wait begins within the budget, so a request begins at most one wait later;
\* a request begun with the context done is followed by no other.
Pace ==
    /\ pc = "wait" => now <= Budget
    /\ pc = "request" => now <= Budget + MaxWait
    /\ now <= Budget + MaxWait + RequestTimeout
    /\ pc = "request" => attempt \in 0..MaxRetries
    /\ late <= 1
    /\ late > 0 => cancelled
    /\ pc = "request" => late = 0

IInv == TypeOK /\ Pace

LEMMA InitIInv == Init => IInv
<1>1. 0 <= Budget + MaxWait /\ 0 <= Budget + MaxWait + RequestTimeout /\ 0 \in 0..MaxRetries
  BY ClientAssumption
<1>2. 0 \in 0..(MaxRetries + 1)
  BY ClientAssumption
<1>3. Init => TypeOK
  <2> SUFFICES ASSUME Init
               PROVE  TypeOK
    OBVIOUS
  <2>1. pc = "request" /\ attempt = 0 /\ now = 0 /\ cancelled = FALSE /\ late = 0
    BY DEF Init
  <2>2. cancelled \in BOOLEAN
    BY <2>1
  <2> QED
    BY <1>2, <2>1, <2>2 DEF TypeOK
<1>4. Init => Pace
  BY <1>1 DEF Init, Pace
<1> QED
  BY <1>3, <1>4 DEF IInv

LEMMA RequestStep == IInv /\ Request => IInv'
<1> SUFFICES ASSUME IInv, Request
             PROVE  IInv'
  OBVIOUS
<1>1. \A d \in Latencies : d \in Nat /\ d <= RequestTimeout
  BY ClientAssumption
<1>2. /\ now' \in Nat /\ now' <= Budget + MaxWait + RequestTimeout
      /\ attempt' = attempt + 1 /\ cancelled' = cancelled
  BY <1>1, ClientAssumption DEF Request, IInv, TypeOK, Pace
<1>3. late' \in {0, 1} /\ (late' > 0 => cancelled)
  BY DEF Request, IInv, TypeOK, Pace
<1>4. pc' \in {"answer", "refused", "failed"} \/ (pc' = "check" /\ attempt < MaxRetries)
  BY DEF Request, Continue
<1>5. attempt \in 0..MaxRetries
  BY DEF Request, IInv, Pace
<1>6. TypeOK'
  BY <1>2, <1>3, <1>4, <1>5, ClientAssumption DEF IInv, TypeOK, Returned
<1>7. Pace'
  BY <1>2, <1>3, <1>4, <1>5, ClientAssumption DEF Pace
<1> QED
  BY <1>6, <1>7 DEF IInv

LEMMA CheckBudgetStep == IInv /\ CheckBudget => IInv'
BY ClientAssumption DEF CheckBudget, Exhausted, IInv, TypeOK, Pace, Returned

LEMMA WaitForRetryStep == IInv /\ WaitForRetry => IInv'
<1> SUFFICES ASSUME IInv, WaitForRetry
             PROVE  IInv'
  OBVIOUS
<1>1. attempt \in 1..MaxRetries /\ Waits[attempt] \in 0..MaxWait /\ now <= Budget
  BY ClientAssumption DEF WaitForRetry, IInv, TypeOK, Pace
<1>2. now' \in Nat /\ now' <= Budget + MaxWait
  BY <1>1, ClientAssumption DEF WaitForRetry, IInv, TypeOK
<1>3. (pc' = "request" /\ ~cancelled) \/ pc' = "cancelled"
  BY DEF WaitForRetry
<1> QED
  BY <1>1, <1>2, <1>3, ClientAssumption DEF WaitForRetry, IInv, TypeOK, Pace, Returned

LEMMA Invariance == Spec => []IInv
<1>1. IInv /\ Cancel => IInv'
  BY DEF Cancel, IInv, TypeOK, Pace, Returned
<1>2. IInv /\ UNCHANGED vars => IInv'
  BY DEF vars, IInv, TypeOK, Pace
<1>3. IInv /\ [Next]_vars => IInv'
  BY <1>1, <1>2, RequestStep, CheckBudgetStep, WaitForRetryStep DEF Next
<1> QED
  BY InitIInv, <1>3, PTL DEF Spec

\* Generate is back after the budget, one wait and one request at the latest,
\* however long its requests take and whenever its context is cancelled.
THEOREM InTime == Spec => []ReturnsInTime
<1>1. IInv => ReturnsInTime
  BY DEF IInv, Pace, ReturnsInTime
<1> QED
  BY <1>1, Invariance, PTL

\* Once its context is done, Generate sends one more request at most.
THEOREM StopsAsking == Spec => []CancelStopsAsking
<1>1. IInv => CancelStopsAsking
  BY DEF IInv, Pace, CancelStopsAsking
<1> QED
  BY <1>1, Invariance, PTL
================================================================================
