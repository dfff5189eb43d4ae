--------------------------------- MODULE Timing ---------------------------------
(***************************************************************************)
(* How the engines turn timed executions into a measurement, and how the    *)
(* verifier decides that a difference between two measurements is real.     *)
(* Durations are integers of some unit of time; a median is kept doubled,   *)
(* since with an even number of runs it is the mean of the middle two.      *)
(***************************************************************************)
EXTENDS Integers, Sequences, FiniteSets

\* The k-th smallest of a sequence of durations.
Smallest(s, k) ==
    CHOOSE x \in {s[i] : i \in DOMAIN s} :
        /\ Cardinality({i \in DOMAIN s : s[i] < x}) < k
        /\ Cardinality({i \in DOMAIN s : s[i] <= x}) >= k

MedianOfArrival(s) ==   \* slip: the runs are not sorted first
    IF Len(s) % 2 = 1 THEN 2 * s[Len(s) \div 2 + 1]
    ELSE s[Len(s) \div 2] + s[Len(s) \div 2 + 1]
MedianLow(s) == 2 * Smallest(s, IF Len(s) < 2 THEN 1 ELSE Len(s) \div 2)   \* slip: one too low
Median(s) ==
    LET half == Len(s) \div 2 IN
    IF Len(s) % 2 = 1 THEN 2 * Smallest(s, half + 1)
    ELSE Smallest(s, half) + Smallest(s, half + 1)

\* What Measure makes of the timed runs.
Summary(timed) ==
    [median |-> Median(timed), min |-> Smallest(timed, 1), max |-> Smallest(timed, Len(timed))]

\* What any measurement is like.
Proper(m) ==
    /\ m.median \in Int /\ m.min \in Nat /\ m.max \in Int
    /\ 2 * m.min <= m.median /\ m.median <= 2 * m.max

Spread(m) == m.max - m.min
Noise(base, m) == IF Spread(base) > Spread(m) THEN Spread(base) ELSE Spread(m)

\* How much smaller the median of m is, zero when the original took no time:
\* improvementPct is this as a percentage of the median of base.
Gain(base, m) == IF base.median <= 0 THEN 0 ELSE base.median - m.median

\* The percentage is at least pct.
Reaches(base, gain, pct) ==
    IF base.median <= 0 THEN 0 >= pct ELSE gain * 100 >= pct * base.median

IsFasterThresholdOnly(base, m, pct) == Reaches(base, Gain(base, m), pct)   \* slip

\* isFaster: past the threshold, and past the run-to-run spread of both.
IsFaster(base, m, pct) ==
    /\ Reaches(base, Gain(base, m), pct)
    /\ base.median - m.median > 2 * Noise(base, m)
================================================================================
