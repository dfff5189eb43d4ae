----------------------------- MODULE MeasuringProofs -----------------------------
(***************************************************************************)
(* For every number of runs, every duration and every failure: a            *)
(* measurement stands for all of its runs, its median is in their middle,    *)
(* and it is what the verifier takes a measurement to be.                   *)
(***************************************************************************)
EXTENDS Measuring, SelectionProofs

--------------------------------------------------------------------------------
(* The k-th smallest of a sequence. *)

Below(s, x) == {i \in DOMAIN s : s[i] < x}
UpTo(s, x) == {i \in DOMAIN s : s[i] <= x}
IsSmallest(s, k, x) ==
    /\ x \in Nat
    /\ Cardinality(Below(s, x)) < k /\ Cardinality(UpTo(s, x)) >= k

\* The places of s by value, those of equal values as they are.
ByValue(s) ==
    {p \in (DOMAIN s) \X (DOMAIN s) :
        s[p[1]] < s[p[2]] \/ (s[p[1]] = s[p[2]] /\ p[1] < p[2])}

LEMMA PartsAreFinite ==
    ASSUME NEW s \in Seq(Nat), NEW T \in SUBSET (DOMAIN s)
    PROVE  IsFiniteSet(T) /\ Cardinality(T) \in Nat
<1>1. IsFiniteSet(DOMAIN s)
  BY FS_Interval, LenProperties
<1> QED
  BY <1>1, FS_Subset, FS_CardinalityType

\* There is one for every k: the value at the place of rank k.
LEMMA SmallestIs ==
    ASSUME NEW s \in Seq(Nat), NEW k \in 1..Len(s)
    PROVE  IsSmallest(s, k, Smallest(s, k))
<1> DEFINE R == ByValue(s)
           D == DOMAIN s
<1>1. PICK n \in Nat : D = 1..n /\ Len(s) = n /\ \A i \in 1..n : s[i] \in Nat
  BY LenProperties, ElementOfSeq
<1>2. \A i, j \in D : <<i, j>> \in R <=> s[i] < s[j] \/ (s[i] = s[j] /\ i < j)
  BY DEF ByValue
<1> HIDE DEF R
<1>3. Orders(R, 1..n)
  <2>1. \A i, j \in 1..n : <<i, j>> \in R <=> s[i] < s[j] \/ (s[i] = s[j] /\ i < j)
    BY <1>1, <1>2
  <2>2. \A i \in 1..n : s[i] \in Nat /\ i \in Nat
    BY <1>1
  <2>3. \A i \in 1..n : <<i, i>> \notin R
    BY <2>1, <2>2
  <2>4. ASSUME NEW i \in 1..n, NEW j \in 1..n
        PROVE  i = j \/ <<i, j>> \in R \/ <<j, i>> \in R
    <3>1. s[i] < s[j] \/ s[j] < s[i] \/ (s[i] = s[j] /\ (i < j \/ j < i \/ i = j))
      BY <2>2
    <3> QED
      BY <2>1, <3>1
  <2>5. ASSUME NEW i \in 1..n, NEW j \in 1..n, NEW k2 \in 1..n, <<i, j>> \in R, <<j, k2>> \in R
        PROVE  <<i, k2>> \in R
    <3>1. s[i] < s[j] \/ (s[i] = s[j] /\ i < j)
      BY <2>1, <2>5
    <3>2. s[j] < s[k2] \/ (s[j] = s[k2] /\ j < k2)
      BY <2>1, <2>5
    <3>3. s[i] < s[k2] \/ (s[i] = s[k2] /\ i < k2)
      BY <2>2, <3>1, <3>2
    <3> QED
      BY <2>1, <3>3
  <2> QED
    BY <2>3, <2>4, <2>5 DEF Orders
<1>4. PICK p \in 1..n : Rank(R, 1..n, p) = k
  BY <1>1, <1>3, RanksAreAPermutation
<1>5. /\ Before(R, D, p) \in SUBSET D /\ Below(s, s[p]) \in SUBSET D
      /\ UpTo(s, s[p]) \in SUBSET D
  BY DEF Before, Below, UpTo
<1>6. /\ IsFiniteSet(Before(R, D, p)) /\ Cardinality(Before(R, D, p)) \in Nat
      /\ IsFiniteSet(UpTo(s, s[p])) /\ Cardinality(UpTo(s, s[p])) \in Nat
      /\ Cardinality(Below(s, s[p])) \in Nat
  BY <1>5, PartsAreFinite
<1>7. Cardinality(Before(R, D, p)) = k - 1
  BY <1>1, <1>4, <1>6 DEF Rank, Before
<1>8. Below(s, s[p]) \in SUBSET Before(R, D, p)
  BY <1>1, <1>2 DEF Before, Below
<1>9. Cardinality(Below(s, s[p])) <= k - 1
  BY <1>6, <1>7, <1>8, FS_Subset
<1>10. p \notin Before(R, D, p)
  BY <1>1, <1>2 DEF Before
<1>11. Cardinality(Before(R, D, p) \cup {p}) = k
  <2>1. Cardinality(Before(R, D, p) \cup {p}) = Cardinality(Before(R, D, p)) + 1
    BY <1>6, <1>10, FS_AddElement
  <2> QED
    BY <1>1, <1>7, <2>1
<1>12. Before(R, D, p) \cup {p} \in SUBSET UpTo(s, s[p])
  BY <1>1, <1>2 DEF Before, UpTo
<1>13. Cardinality(UpTo(s, s[p])) >= k
  BY <1>6, <1>11, <1>12, FS_Subset
<1>14. /\ s[p] \in {s[i] : i \in D}
       /\ Cardinality({i \in D : s[i] < s[p]}) < k
       /\ Cardinality({i \in D : s[i] <= s[p]}) >= k
  BY <1>1, <1>6, <1>9, <1>13 DEF Below, UpTo
<1>15. /\ Smallest(s, k) \in {s[i] : i \in D}
       /\ Cardinality({i \in D : s[i] < Smallest(s, k)}) < k
       /\ Cardinality({i \in D : s[i] <= Smallest(s, k)}) >= k
  BY <1>14 DEF Smallest
<1> QED
  BY <1>1, <1>15 DEF IsSmallest, Below, UpTo

\* A higher rank has no smaller value.
LEMMA SmallestGrows ==
    ASSUME NEW s \in Seq(Nat), NEW j \in 1..Len(s), NEW k \in 1..Len(s), j <= k
    PROVE  Smallest(s, j) <= Smallest(s, k)
<1> DEFINE x == Smallest(s, j)
           y == Smallest(s, k)
<1>1. IsSmallest(s, j, x) /\ IsSmallest(s, k, y)
  BY SmallestIs
<1> HIDE DEF x, y
<1>2. x \in Nat /\ y \in Nat
  BY <1>1 DEF IsSmallest
<1>3. SUFFICES ASSUME y < x
               PROVE  FALSE
  BY <1>2 DEF x, y
<1>4. \A i \in DOMAIN s : s[i] \in Nat
  BY LenProperties, ElementOfSeq
<1>5. UpTo(s, y) \in SUBSET Below(s, x) /\ Below(s, x) \in SUBSET (DOMAIN s)
      /\ UpTo(s, y) \in SUBSET (DOMAIN s)
  BY <1>2, <1>3, <1>4 DEF UpTo, Below
<1>6. /\ IsFiniteSet(Below(s, x)) /\ Cardinality(Below(s, x)) \in Nat
      /\ Cardinality(UpTo(s, y)) \in Nat
  BY <1>5, PartsAreFinite
<1>7. Cardinality(UpTo(s, y)) <= Cardinality(Below(s, x))
  BY <1>5, <1>6, FS_Subset
<1> QED
  BY <1>1, <1>6, <1>7 DEF IsSmallest

\* What is not below x is the rest.
LEMMA NotBelow ==
    ASSUME NEW s \in Seq(Nat), NEW x \in Nat
    PROVE  Cardinality({i \in DOMAIN s : s[i] >= x}) = Len(s) - Cardinality(Below(s, x))
<1>1. \A i \in DOMAIN s : s[i] \in Nat
  BY LenProperties, ElementOfSeq
<1>2. {i \in DOMAIN s : s[i] >= x} = (DOMAIN s) \ Below(s, x)
  BY <1>1 DEF Below
<1>3. IsFiniteSet(DOMAIN s) /\ Cardinality(DOMAIN s) = Len(s)
  <2>1. PICK n \in Nat : DOMAIN s = 1..n /\ Len(s) = n
    BY LenProperties
  <2>2. IsFiniteSet(1..n) /\ Cardinality(1..n) = n
    BY FS_Interval
  <2> QED
    BY <2>1, <2>2
<1>4. (DOMAIN s) \cap Below(s, x) = Below(s, x)
  BY DEF Below
<1> QED
  BY <1>2, <1>3, <1>4, FS_Difference

\* At least half of a sequence is at or below its median, and at least half at or
\* above it.
LEMMA MedianHalves ==
    ASSUME NEW s \in Seq(Nat), Len(s) >= 1
    PROVE  /\ 2 * Cardinality({i \in DOMAIN s : 2 * s[i] <= Median(s)}) >= Len(s)
           /\ 2 * Cardinality({i \in DOMAIN s : 2 * s[i] >= Median(s)}) >= Len(s)
<1> DEFINE half == Len(s) \div 2
           low == IF Len(s) % 2 = 1 THEN half + 1 ELSE half
           x == Smallest(s, low)
           y == Smallest(s, half + 1)
           m == Median(s)
           L == {i \in DOMAIN s : 2 * s[i] <= m}
           H == {i \in DOMAIN s : 2 * s[i] >= m}
           Y == {i \in DOMAIN s : s[i] >= y}
<1>1. Len(s) \in Nat /\ \A i \in DOMAIN s : s[i] \in Nat
  BY LenProperties, ElementOfSeq
<1>2. /\ half \in Nat /\ low \in 1..Len(s) /\ half + 1 \in 1..Len(s) + 1 /\ low <= half + 1
      /\ 2 * low >= Len(s) /\ 2 * half <= Len(s)
      /\ half + 1 \in 1..Len(s)
  BY <1>1
<1>3. m = x + y
  <2>1. CASE Len(s) % 2 = 1
    <3>1. x = y /\ m = 2 * y /\ IsSmallest(s, half + 1, y)
      BY <1>2, <2>1, SmallestIs DEF Median
    <3> QED
      BY <3>1 DEF IsSmallest
  <2>2. CASE Len(s) % 2 # 1
    BY <2>2 DEF Median
  <2> QED
    BY <2>1, <2>2
<1>4. IsSmallest(s, low, x) /\ IsSmallest(s, half + 1, y) /\ x <= y
  BY <1>2, SmallestIs, SmallestGrows
<1> HIDE DEF x, y, m, low, half
<1>5. x \in Nat /\ y \in Nat /\ Cardinality(Below(s, y)) < half + 1 /\ Cardinality(UpTo(s, x)) >= low
  BY <1>4 DEF IsSmallest
<1>6. UpTo(s, x) \in SUBSET L /\ Y \in SUBSET H
  BY <1>1, <1>3, <1>4, <1>5 DEF UpTo
<1>7. /\ UpTo(s, x) \in SUBSET (DOMAIN s) /\ Below(s, y) \in SUBSET (DOMAIN s)
      /\ L \in SUBSET (DOMAIN s) /\ H \in SUBSET (DOMAIN s) /\ Y \in SUBSET (DOMAIN s)
  BY DEF UpTo, Below
<1>8. Cardinality(Y) = Len(s) - Cardinality(Below(s, y))
  BY <1>5, NotBelow
<1> HIDE DEF L, H, Y
<1>9. /\ IsFiniteSet(L) /\ IsFiniteSet(H)
      /\ Cardinality(L) \in Nat /\ Cardinality(H) \in Nat /\ Cardinality(Y) \in Nat
      /\ Cardinality(UpTo(s, x)) \in Nat /\ Cardinality(Below(s, y)) \in Nat
  BY <1>7, PartsAreFinite
<1>10. Cardinality(UpTo(s, x)) <= Cardinality(L) /\ Cardinality(Y) <= Cardinality(H)
  BY <1>6, <1>9, FS_Subset
<1>11. 2 * Cardinality(L) >= Len(s) /\ 2 * Cardinality(H) >= Len(s)
  <2>1. Cardinality(L) >= low
    BY <1>2, <1>5, <1>9, <1>10
  <2>2. Cardinality(H) >= Len(s) - half
    BY <1>1, <1>2, <1>5, <1>8, <1>9, <1>10
  <2>3. half \in Nat /\ low \in Nat /\ 2 * low >= Len(s) /\ 2 * half <= Len(s)
    BY <1>1, <1>2
  <2>4. \A c, l, n \in Nat : c >= l /\ 2 * l >= n => 2 * c >= n
    OBVIOUS
  <2>5. \A c, h, n \in Nat : c >= n - h /\ 2 * h <= n => 2 * c >= n
    OBVIOUS
  <2> QED
    BY <1>1, <1>9, <2>1, <2>2, <2>3, <2>4, <2>5
<1> QED
  BY <1>11 DEF L, H, m

\* The minimum, the median and the maximum are in that order.
LEMMA SummaryIsProper ==
    ASSUME NEW s \in Seq(Nat), Len(s) >= 1
    PROVE  Proper(Summary(s))
<1> DEFINE half == Len(s) \div 2
<1>1. Len(s) \in Nat /\ half \in 0..Len(s)
  BY LenProperties
<1>2. ASSUME NEW k \in 1..Len(s)
      PROVE  /\ Smallest(s, k) \in Nat
             /\ Smallest(s, 1) <= Smallest(s, k) /\ Smallest(s, k) <= Smallest(s, Len(s))
  <2>1. IsSmallest(s, k, Smallest(s, k))
    BY SmallestIs
  <2>2. 1 \in 1..Len(s) /\ Len(s) \in 1..Len(s) /\ 1 <= k /\ k <= Len(s)
    BY <1>1
  <2> QED
    BY <2>1, <2>2, SmallestGrows DEF IsSmallest
<1>3. /\ Summary(s).median = Median(s) /\ Summary(s).min = Smallest(s, 1)
      /\ Summary(s).max = Smallest(s, Len(s))
  BY DEF Summary
<1>4. 1 \in 1..Len(s) /\ Len(s) \in 1..Len(s)
  BY <1>1
<1>5. CASE Len(s) % 2 = 1
  <2>1. half + 1 \in 1..Len(s) /\ Median(s) = 2 * Smallest(s, half + 1)
    BY <1>1, <1>5 DEF Median
  <2> QED
    BY <1>2, <1>3, <1>4, <2>1 DEF Proper
<1>6. CASE Len(s) % 2 # 1
  <2>1. /\ half + 1 \in 1..Len(s) /\ half \in 1..Len(s)
        /\ Median(s) = Smallest(s, half) + Smallest(s, half + 1)
    BY <1>1, <1>6 DEF Median
  <2> QED
    BY <1>2, <1>3, <1>4, <2>1 DEF Proper
<1> QED
  BY <1>5, <1>6

--------------------------------------------------------------------------------
(* The inductive invariant. *)

Working == {"explain", "begin", "execute"}

\* The runs that count are those after the warm-up.
Counted == IF executed < WarmupRuns THEN 0 ELSE executed - WarmupRuns

\* What is returned is of all runs, or of none.
Honest ==
    IF result.kind = "measured"
    THEN pc = "returned" /\ executed = Total /\ result.m = Summary(durations)
    ELSE result.m = NoMeasurement

MInv ==
    /\ asked \in Int /\ pc \in Working \cup {"returned"}
    /\ executed \in Nat /\ executed <= Total
    /\ durations \in Seq(Nat) /\ Len(durations) = Counted
    /\ Honest

LEMMA RunsArePositive ==
    asked \in Int => Runs \in Nat /\ Runs >= 1 /\ Total \in Nat /\ Total = Runs + WarmupRuns
<1> QED
  BY MeasuringAssumption, DefaultAssumption DEF Runs, Total

LEMMA InitMInv == Init => MInv
<1> SUFFICES ASSUME Init
             PROVE  MInv
  OBVIOUS
<1>1. /\ asked \in Int /\ executed = 0 /\ durations = <<>> /\ result = NoResult
      /\ pc \in Working
  BY MeasuringAssumption DEF Init, Between, InExperiment, Working
<1>2. Total \in Nat /\ WarmupRuns \in Nat
  BY <1>1, RunsArePositive, MeasuringAssumption
<1>3. durations \in Seq(Nat) /\ Len(durations) = Counted
  BY <1>1, <1>2 DEF Counted
<1>4. Honest
  BY <1>1 DEF Honest, NoResult, Result
<1> QED
  BY <1>1, <1>2, <1>3, <1>4 DEF MInv

\* A failure returns no measurement, whatever was timed before it.
LEMMA FailureStep ==
    ASSUME MInv, UNCHANGED <<asked, executed, durations>>, NEW r, Return(r),
           r.kind # "measured", r.m = NoMeasurement
    PROVE  MInv'
<1>1. result' = r /\ pc' = "returned"
  BY DEF Return
<1>2. Honest'
  BY <1>1 DEF Honest
<1>3. Counted' = Counted /\ Total' = Total
  BY DEF Counted, Total, Runs
<1> QED
  BY <1>1, <1>2, <1>3 DEF MInv

LEMMA FailedReturnsNothing ==
    ASSUME NEW cause
    PROVE  /\ Failed(cause).kind # "measured" /\ Failed(cause).m = NoMeasurement
           /\ Result("error", NoMeasurement, cause).kind # "measured"
           /\ Result("error", NoMeasurement, cause).m = NoMeasurement
<1> QED
  BY DEF Failed, Result

\* A call that only changes where the measurement is.
LEMMA MoveStep ==
    ASSUME MInv, pc \in Working, pc' \in Working,
           UNCHANGED <<asked, executed, durations, result>>
    PROVE  MInv'
<1>1. Counted' = Counted /\ Total' = Total
  BY DEF Counted, Total, Runs
<1>2. result.kind # "measured"
  BY DEF MInv, Honest, Working
<1>3. Honest'
  BY <1>2 DEF MInv, Honest
<1> QED
  BY <1>1, <1>3 DEF MInv

\* One more run, and one more duration after the warm-up.
LEMMA TimedStep ==
    ASSUME MInv, pc = "execute", executed < Total, NEW d \in Durations,
           durations' = Timed(d), executed' = executed + 1, pc' \in Working,
           UNCHANGED <<asked, result>>
    PROVE  MInv'
<1>1. /\ asked \in Int /\ executed \in Nat /\ durations \in Seq(Nat) /\ Len(durations) = Counted
      /\ WarmupRuns \in Nat /\ d \in Nat /\ Total \in Nat
  BY RunsArePositive, MeasuringAssumption DEF MInv
<1>2. Total' = Total
  BY DEF Total, Runs
<1>3. durations' \in Seq(Nat)
  BY <1>1 DEF Timed
<1>4. Len(durations') = Counted'
  <2>1. CASE executed < WarmupRuns
    BY <1>1, <2>1 DEF Timed, Counted
  <2>2. CASE executed >= WarmupRuns
    <3>1. durations' = Append(durations, d)
      BY <1>1, <2>2 DEF Timed
    <3>2. Len(durations') = Len(durations) + 1
      BY <1>1, <3>1
    <3> QED
      BY <1>1, <2>2, <3>2 DEF Counted
  <2> QED
    BY <1>1, <2>1, <2>2
<1>5. Honest'
  <2>1. result.kind # "measured"
    BY DEF MInv, Honest
  <2> QED
    BY <2>1 DEF MInv, Honest
<1>6. executed' \in Nat /\ executed' <= Total'
  BY <1>1, <1>2
<1> QED
  BY <1>1, <1>3, <1>4, <1>5, <1>6 DEF MInv

LEMMA NextMInv == MInv /\ [Next]_vars => MInv'
<1> SUFFICES ASSUME MInv, [Next]_vars
             PROVE  MInv'
  OBVIOUS
<1>1. CASE UNCHANGED vars \/ Expire
  <2>1. UNCHANGED <<asked, pc, executed, durations, result>>
    BY <1>1 DEF vars, Expire, call
  <2>2. Counted' = Counted /\ Total' = Total /\ Honest' = Honest
    BY <2>1 DEF Counted, Total, Runs, Honest
  <2> QED
    BY <2>1, <2>2 DEF MInv
<1>2. CASE Explain
  <2>1. pc = "explain" /\ UNCHANGED <<asked, executed, durations>>
    BY <1>2 DEF Explain, call
  <2>2. CASE pc' = "begin" /\ UNCHANGED result
    BY <2>1, <2>2, MoveStep DEF Working
  <2>3. ASSUME NEW cause \in Errors, Return(Result("error", NoMeasurement, cause))
        PROVE  MInv'
    BY <2>1, <2>3, FailureStep, FailedReturnsNothing
  <2> QED
    BY <1>2, <2>2, <2>3 DEF Explain
<1>3. CASE Begin
  <2>1. pc = "begin" /\ UNCHANGED <<asked, executed, durations>>
    BY <1>3 DEF Begin, call
  <2>2. CASE pc' = "execute" /\ UNCHANGED result
    BY <2>1, <2>2, MoveStep DEF Working
  <2>3. ASSUME NEW cause \in Errors, Return(Failed(cause))
        PROVE  MInv'
    BY <2>1, <2>3, FailureStep, FailedReturnsNothing
  <2> QED
    BY <1>3, <2>2, <2>3 DEF Begin
<1>4. CASE Execute
  <2>1. pc = "execute" /\ executed < Total /\ UNCHANGED asked
    BY <1>4 DEF Execute, call
  <2>2. ASSUME NEW d \in Durations, durations' = Timed(d), executed' = executed + 1,
               pc' = Between, UNCHANGED result
        PROVE  MInv'
    <3>1. pc' \in Working
      BY <2>2 DEF Between, Working
    <3> QED
      BY <2>1, <2>2, <3>1, TimedStep
  <2>3. ASSUME NEW cause \in Errors, Return(Failed(cause)), UNCHANGED <<executed, durations>>
        PROVE  MInv'
    BY <2>1, <2>3, FailureStep, FailedReturnsNothing
  <2> QED
    BY <1>4, <2>2, <2>3 DEF Execute
<1>5. CASE SummedUp
  <2>1. /\ executed = Total /\ pc' = "returned" /\ UNCHANGED <<asked, executed, durations>>
        /\ result' = Result("measured", Summary(durations), "none")
    BY <1>5 DEF SummedUp, Return, call
  <2>2. Counted' = Counted /\ Total' = Total
    BY <2>1 DEF Counted, Total, Runs
  <2>3. result'.kind = "measured" /\ result'.m = Summary(durations)
    BY <2>1 DEF Result
  <2>4. Honest'
    BY <2>1, <2>2, <2>3 DEF Honest
  <2> QED
    BY <2>1, <2>2, <2>4 DEF MInv
<1> QED
  BY <1>1, <1>2, <1>3, <1>4, <1>5 DEF Next

LEMMA MeasuringInvariant == Spec => []MInv
<1> QED
  BY InitMInv, NextMInv, PTL DEF Spec

\* A measurement has as many durations as runs were asked for, and at least one.
LEMMA MeasuredInFull ==
    ASSUME MInv, IsMeasured
    PROVE  /\ executed = Total /\ durations \in Seq(Nat)
           /\ Len(durations) = Runs /\ Runs >= 1 /\ result.m = Summary(durations)
<1>1. /\ executed = Total /\ result.m = Summary(durations) /\ asked \in Int
      /\ Len(durations) = Counted /\ durations \in Seq(Nat)
  BY DEF MInv, Honest, IsMeasured
<1>2. Runs \in Nat /\ Runs >= 1 /\ Total = Runs + WarmupRuns /\ WarmupRuns \in Nat
  BY <1>1, RunsArePositive, MeasuringAssumption
<1> QED
  BY <1>1, <1>2 DEF Counted

--------------------------------------------------------------------------------
(* The theorems. *)

\* Whenever a run fails or times out, the runs before it say nothing
\* (postgres.go and mysql.go, Measure).
THEOREM MeasuredCompletely == Spec => []CompleteOrNothing
<1>1. ASSUME MInv
      PROVE  CompleteOrNothing
  <2>1. CASE IsMeasured
    BY <1>1, <2>1, MeasuredInFull DEF CompleteOrNothing
  <2>2. CASE ~IsMeasured
    BY <1>1, <2>2 DEF MInv, Honest, IsMeasured, CompleteOrNothing
  <2> QED
    BY <2>1, <2>2
<1>2. MInv => CompleteOrNothing
  BY <1>1
<1> QED
  BY <1>2, MeasuringInvariant, PTL

\* The median has half of the runs on either side, for any number of runs, odd or even,
\* and any durations (postgres.go, median).
THEOREM MedianInTheMiddle == Spec => []MedianIsMiddle
<1>1. ASSUME MInv
      PROVE  MedianIsMiddle
  <2>1. SUFFICES ASSUME IsMeasured
                 PROVE  MedianIsMiddle
    BY DEF MedianIsMiddle
  <2>2. durations \in Seq(Nat) /\ Len(durations) = Runs /\ Len(durations) >= 1
    BY <1>1, <2>1, MeasuredInFull
  <2>3. result.m.median = Median(durations)
    BY <1>1, <2>1, MeasuredInFull DEF Summary
  <2> QED
    BY <2>2, <2>3, MedianHalves DEF MedianIsMiddle
<1>2. MInv => MedianIsMiddle
  BY <1>1
<1> QED
  BY <1>2, MeasuringInvariant, PTL

\* What Measure returns is what the verifier assumes of a measurement: the minimum, the
\* median and the maximum are in that order (Verification, MeasurementsAssumption).
MeasuredIsProper == IsMeasured => Proper(result.m)

THEOREM MeasurementsAreProper == Spec => []MeasuredIsProper
<1>1. ASSUME MInv
      PROVE  MeasuredIsProper
  <2>1. SUFFICES ASSUME IsMeasured
                 PROVE  Proper(result.m)
    BY DEF MeasuredIsProper
  <2>2. durations \in Seq(Nat) /\ Len(durations) >= 1 /\ result.m = Summary(durations)
    BY <1>1, <2>1, MeasuredInFull
  <2> QED
    BY <2>2, SummaryIsProper
<1>2. MInv => MeasuredIsProper
  BY <1>1
<1> QED
  BY <1>2, MeasuringInvariant, PTL

\* Of two halves of three runs or more, each has a run other than the i-th.
LEMMA HalfHasAnother ==
    ASSUME NEW s \in Seq(Nat), Len(s) >= 3, NEW T \in SUBSET (DOMAIN s),
           2 * Cardinality(T) >= Len(s)
    PROVE  \A i : \E j \in T : j # i
<1>1. IsFiniteSet(T) /\ Cardinality(T) \in Nat /\ Len(s) \in Nat
  BY PartsAreFinite, LenProperties
<1>2. Cardinality(T) >= 2
  BY <1>1
<1> SUFFICES ASSUME NEW i
             PROVE  \E j \in T : j # i
  OBVIOUS
<1>3. ~ (T \subseteq {i})
  <2>1. SUFFICES ASSUME T \subseteq {i}
                 PROVE  FALSE
    OBVIOUS
  <2>2. IsFiniteSet({i}) /\ Cardinality({i}) = 1
    BY FS_Singleton
  <2>3. Cardinality(T) <= 1
    BY <2>1, <2>2, FS_Subset
  <2> QED
    BY <1>1, <1>2, <2>3
<1> QED
  BY <1>3

\* Whatever one run out of three or more had taken instead, the median would still lie
\* among the other runs (engine.go, "one cold run ... moves a mean of five runs far more
\* than it moves their median").
THEOREM MedianIsRobust == Spec => []OneRunCannotMoveTheMedian
<1>1. ASSUME MInv
      PROVE  OneRunCannotMoveTheMedian
  <2>1. SUFFICES ASSUME IsMeasured, Runs >= 3, NEW i \in DOMAIN durations, NEW d \in Durations
                 PROVE  \E j, k \in DOMAIN durations \ {i} :
                            /\ 2 * durations[j] <= Median([durations EXCEPT ![i] = d])
                            /\ Median([durations EXCEPT ![i] = d]) <= 2 * durations[k]
    BY DEF OneRunCannotMoveTheMedian
  <2> DEFINE s == [durations EXCEPT ![i] = d]
             low == {j \in DOMAIN s : 2 * s[j] <= Median(s)}
             high == {j \in DOMAIN s : 2 * s[j] >= Median(s)}
  <2>2. durations \in Seq(Nat) /\ Len(durations) = Runs /\ d \in Nat /\ Runs \in Nat
    <3>1. asked \in Int
      BY <1>1 DEF MInv
    <3> QED
      BY <1>1, <2>1, <3>1, MeasuredInFull, RunsArePositive, MeasuringAssumption
  <2>3. /\ s \in Seq(Nat) /\ Len(s) = Len(durations) /\ DOMAIN s = DOMAIN durations
        /\ \A j \in DOMAIN s : j # i => s[j] = durations[j]
    BY <2>1, <2>2
  <2> HIDE DEF s
  <2>4. Len(s) \in Nat /\ Len(s) >= 3 /\ Len(s) >= 1
    BY <2>1, <2>2, <2>3
  <2>5. 2 * Cardinality(low) >= Len(s) /\ 2 * Cardinality(high) >= Len(s)
    BY <2>3, <2>4, MedianHalves
  <2>6. low \in SUBSET (DOMAIN s) /\ high \in SUBSET (DOMAIN s)
    OBVIOUS
  <2> HIDE DEF low, high
  <2>7. (\E j \in low : j # i) /\ (\E k \in high : k # i)
    <3>1. ASSUME NEW T \in SUBSET (DOMAIN s), 2 * Cardinality(T) >= Len(s)
          PROVE  \A x : \E j \in T : j # x
      <4>1. s \in Seq(Nat) /\ Len(s) >= 3
        BY <2>3, <2>4
      <4> QED
        BY <3>1, <4>1, HalfHasAnother
    <3>2. \A x : \E j \in low : j # x
      BY <2>5, <2>6, <3>1
    <3>3. \A x : \E j \in high : j # x
      BY <2>5, <2>6, <3>1
    <3> QED
      BY <3>2, <3>3
  <2>8. PICK j \in low : j # i
    BY <2>7
  <2>9. PICK k \in high : k # i
    BY <2>7
  <2>10. 2 * durations[j] <= Median(s) /\ Median(s) <= 2 * durations[k]
    <3>1. /\ j \in DOMAIN s /\ 2 * s[j] <= Median(s) /\ s[j] = durations[j]
      BY <2>3, <2>8 DEF low
    <3>2. /\ k \in DOMAIN s /\ 2 * s[k] >= Median(s) /\ s[k] = durations[k]
      BY <2>3, <2>9 DEF high
    <3>3. s[k] \in Nat /\ Median(s) \in Int
      <4>1. s[k] \in Nat
        BY <2>3, <3>2
      <4>2. Median(s) \in Int
        BY <2>3, <2>4, SummaryIsProper DEF Proper, Summary
      <4> QED
        BY <4>1, <4>2
    <3> QED
      BY <3>1, <3>2, <3>3
  <2> QED
    BY <2>3, <2>6, <2>8, <2>9, <2>10 DEF s
<1>2. MInv => OneRunCannotMoveTheMedian
  BY <1>1
<1> QED
  BY <1>2, MeasuringInvariant, PTL
================================================================================
