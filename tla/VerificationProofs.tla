-------------------------- MODULE VerificationProofs --------------------------
(***************************************************************************)
(* For every query, every set of candidates, every measurement and every    *)
(* schedule of writers: nothing is judged twice, nothing is executed that   *)
(* did not pass the gates before execution, an accepted rewrite beats every *)
(* timed run of the original, no index survives its experiment, nothing      *)
(* that writes is executed where it could, no experiment and no rewrite of   *)
(* the rules is lost, the best is the best, the comparison of results        *)
(* neither lets a wrong rewrite pass nor refuses a right one, the indexes    *)
(* are reported in order, and the totals of a benchmark lose nothing.        *)
(***************************************************************************)
EXTENDS VerificationProperties, SelectionProofs, TLAPS

--------------------------------------------------------------------------------
(* The inductive invariant. *)

RanReasons == {"failed", "results_differ", "timed_out", "not_faster", "accepted"}
Verdict == [sql : Texts, reason : Reasons, gain : Int, at : Int]
Early == {"introspect", "explain", "measure", "checksum", "propose", "error"}
Measuring == {"introspect", "explain", "measure", "error"}
Trying == {"create", "trial", "rollback"}

\* c passes the gates before execution of a job for q.
Cleared(q, c) == Kind[c] = "select" /\ Norm[c] # Norm[q] /\ <<q, c>> \in SameShape

\* Types, and where in the run what is filled in.
Shape ==
    /\ query \in Queries /\ pc \in Phases /\ data \in Int
    /\ base = [m |-> base.m, hash |-> base.hash, at |-> base.at]
    /\ pc \notin Measuring => base.m \in Measurements
    /\ todo \in Seq(Texts)
    /\ hand = [sql |-> hand.sql, at |-> hand.at] /\ hand.at \in Int
    /\ results \in Seq(Verdict)
    /\ pc \in Early => results = <<>>
    /\ pc \notin Early => Norm[query] \in seen

\* The candidate in hand is new and passed the gates before execution.
InHand ==
    pc \in {"hash", "time"} =>
        /\ hand.sql \in Texts
        /\ Cleared(query, hand.sql)
        /\ Norm[hand.sql] \in seen
        /\ \A i \in DOMAIN results : Norm[results[i].sql] # Norm[hand.sql]

\* The verdicts are on different texts, all of them remembered.
Distinct ==
    /\ \A i \in DOMAIN results : Norm[results[i].sql] \in seen
    /\ \A i \in DOMAIN results : Norm[results[i].sql] # Norm[query]
    /\ \A i, j \in DOMAIN results : Norm[results[i].sql] = Norm[results[j].sql] => i = j

\* What ran had passed the gates, and what was accepted is faster.
Earned ==
    \A i \in DOMAIN results :
        /\ results[i].reason \in RanReasons => Cleared(query, results[i].sql)
        /\ results[i].reason = "accepted" =>
              base.m.median - results[i].gain < 2 * base.m.min

\* An experiment's transaction is over with the experiment.
Contained == pc \notin Trying => session = NoSession

IInv == Shape /\ InHand /\ Distinct /\ Earned /\ Contained

--------------------------------------------------------------------------------
(* Facts about the operators. *)

\* A rewrite that isFaster takes has its median below every timed run of the
\* original.
LEMMA FasterBeatsEveryRun ==
    ASSUME NEW b, NEW m, NEW pct, Proper(b), Proper(m), IsFaster(b, m, pct)
    PROVE  b.median - Gain(b, m) < 2 * b.min
<1>1. /\ b.median \in Int /\ b.min \in Int /\ b.max \in Int /\ 0 <= b.min
      /\ 2 * b.min <= b.median /\ b.median <= 2 * b.max
  BY DEF Proper
<1>2. m.median \in Int /\ m.min \in Int /\ m.max \in Int /\ 0 <= m.min
      /\ 2 * m.min <= m.median /\ m.median <= 2 * m.max
  BY DEF Proper
<1>3. Noise(b, m) \in Int /\ Noise(b, m) >= b.max - b.min
  BY <1>1, <1>2 DEF Noise, Spread
<1>4. b.median - m.median > 2 * Noise(b, m)
  BY DEF IsFaster
<1>5. b.median > 0
  BY <1>1, <1>2, <1>3, <1>4
<1>6. Gain(b, m) = b.median - m.median
  BY <1>5, <1>1 DEF Gain
<1> QED
  BY <1>1, <1>2, <1>3, <1>4, <1>6

LEMMA GainIsInt ==
    ASSUME NEW b, NEW m, Proper(b), Proper(m)
    PROVE  Gain(b, m) \in Int
BY DEF Proper, Gain

\* What the gates say of a text.
LEMMA ObjectionReasons ==
    ASSUME NEW c \in Texts
    PROVE  /\ Objection(c) \in {"none"} \cup (Reasons \ RanReasons)
           /\ Objection(c) = "none" => Cleared(query, c)
BY TextsAssumption DEF Objection, Reasons, RanReasons, Cleared

--------------------------------------------------------------------------------
(* The initial state, and a verdict being recorded. *)

LEMMA InitIInv == Init => IInv
<1> SUFFICES ASSUME Init
             PROVE  IInv
  OBVIOUS
<1>1. Shape
  <2>1. /\ query \in Queries /\ pc = "introspect" /\ data = 0
        /\ base = [m |-> NoMeasurement, hash |-> <<>>, at |-> 0]
        /\ todo = <<>> /\ results = <<>> /\ hand = [sql |-> NoText, at |-> 0]
    BY DEF Init, NoHand
  <2>2. todo \in Seq(Texts) /\ results \in Seq(Verdict)
    BY <2>1
  <2>3. pc \in Measuring /\ pc \in Early /\ pc \in Phases
    BY <2>1 DEF Measuring, Early, Phases
  <2> QED
    BY <2>1, <2>2, <2>3 DEF Shape
<1>2. InHand /\ Distinct /\ Earned /\ Contained
  BY DEF Init, InHand, Distinct, Earned, Contained
<1> QED
  BY <1>1, <1>2 DEF IInv

\* A new verdict on a text nobody was judged by keeps the verdicts distinct
\* and earned.
LEMMA NewVerdict ==
    ASSUME NEW v, v \in Verdict, results \in Seq(Verdict), results' = Append(results, v),
           query' = query, base' = base, seen \subseteq seen',
           Distinct, Earned,
           Norm[v.sql] \in seen', Norm[v.sql] # Norm[query],
           \A i \in DOMAIN results : Norm[results[i].sql] # Norm[v.sql],
           v.reason \in RanReasons => Cleared(query, v.sql),
           v.reason = "accepted" => base.m.median - v.gain < 2 * base.m.min
    PROVE  results' \in Seq(Verdict) /\ Distinct' /\ Earned'
<1>1. results' \in Seq(Verdict)
  OBVIOUS
<1>2. DOMAIN results = 1..Len(results) /\ DOMAIN results' = 1..(Len(results) + 1)
  OBVIOUS
<1>3. \A i \in DOMAIN results : i \in DOMAIN results' /\ results'[i] = results[i]
  BY <1>2
<1>4. results'[Len(results) + 1] = v
  OBVIOUS
<1>5. \A i \in DOMAIN results' : i \in DOMAIN results \/ i = Len(results) + 1
  BY <1>2
<1>7. Distinct'
  <2>1. \A i \in DOMAIN results' : Norm[results'[i].sql] \in seen'
    BY <1>3, <1>4, <1>5 DEF Distinct
  <2>2. \A i \in DOMAIN results' : Norm[results'[i].sql] # Norm[query']
    BY <1>3, <1>4, <1>5 DEF Distinct
  <2>3. \A i, j \in DOMAIN results' :
           Norm[results'[i].sql] = Norm[results'[j].sql] => i = j
    BY <1>3, <1>4, <1>5 DEF Distinct
  <2> QED
    BY <2>1, <2>2, <2>3 DEF Distinct
<1>8. Earned'
  BY <1>3, <1>4, <1>5 DEF Earned
<1> QED
  BY <1>1, <1>7, <1>8

\* A step that gives no verdict keeps what was said of the verdicts.
LEMMA NoNewVerdict ==
    ASSUME Distinct, Earned, results' = results, query' = query,
           seen \subseteq seen', results = <<>> \/ base' = base
    PROVE  Distinct' /\ Earned'
<1>1. Distinct'
  BY DEF Distinct
<1>2. Earned'
  <2>1. CASE results = <<>>
    <3>1. DOMAIN results' = {}
      BY <2>1
    <3> QED
      BY <3>1 DEF Earned
  <2>2. CASE base' = base
    BY <2>2 DEF Earned
  <2> QED
    BY <2>1, <2>2
<1> QED
  BY <1>1, <1>2

--------------------------------------------------------------------------------
(* One lemma for each part of the run. *)

LEMMA BaselineStep ==
    IInv /\ (Introspect \/ ExplainBaseline \/ MeasureBaseline \/ ChecksumBaseline) => IInv'
<1> SUFFICES ASSUME IInv, Introspect \/ ExplainBaseline \/ MeasureBaseline \/ ChecksumBaseline
             PROVE  IInv'
  OBVIOUS
<1>1. /\ pc \in {"introspect", "explain", "measure", "checksum"}
      /\ pc' \in {"explain", "measure", "checksum", "propose", "error"}
      /\ UNCHANGED <<query, data, todo, seen, hand, results, session>>
  BY DEF Introspect, ExplainBaseline, MeasureBaseline, ChecksumBaseline, Pass, Fail,
         environment, candidates, indexing
<1>2. results = <<>> /\ session = NoSession
  BY <1>1 DEF IInv, Shape, Contained, Early, Trying
<1>3. /\ base' = [m |-> base'.m, hash |-> base'.hash, at |-> base'.at]
      /\ pc' \notin Measuring => base'.m \in Measurements
  <2>1. base = [m |-> base.m, hash |-> base.hash, at |-> base.at]
    BY DEF IInv, Shape
  <2>2. CASE Introspect \/ ExplainBaseline
    BY <2>1, <2>2 DEF Introspect, ExplainBaseline, Pass, Fail, Measuring
  <2>3. CASE MeasureBaseline
    <3>1. CASE base' = base /\ pc' = "error"
      BY <2>1, <3>1 DEF Measuring
    <3>2. CASE \E m \in Measurements : base' = [base EXCEPT !.m = m]
      BY <2>1, <3>2
    <3> QED
      BY <2>3, <3>1, <3>2 DEF MeasureBaseline, Fail
  <2>4. CASE ChecksumBaseline
    <3>1. base.m \in Measurements
      BY <2>4 DEF ChecksumBaseline, IInv, Shape, Measuring
    <3>2. base' = base \/ \E h : base' = [m |-> base.m, hash |-> h, at |-> data]
      BY <2>4 DEF ChecksumBaseline, Fail
    <3> QED
      BY <2>1, <3>1, <3>2
  <2> QED
    BY <2>2, <2>3, <2>4
<1>4. Shape'
  <2>1. pc' \in Phases /\ pc' \in Early
    BY <1>1 DEF Phases, Early
  <2> QED
    BY <2>1, <1>1, <1>2, <1>3 DEF IInv, Shape
<1>5. InHand' /\ Contained'
  BY <1>1, <1>2 DEF InHand, Contained
<1>6. Distinct' /\ Earned'
  BY <1>1, <1>2, NoNewVerdict DEF IInv
<1> QED
  BY <1>4, <1>5, <1>6 DEF IInv

LEMMA ProposeStep == IInv /\ Propose => IInv'
<1> SUFFICES ASSUME IInv, Propose
             PROVE  IInv'
  OBVIOUS
<1>1. /\ pc = "propose" /\ pc' = "next" /\ seen' = {Norm[query]}
      /\ UNCHANGED <<query, data, base, hand, results, session>>
  BY DEF Propose, environment, indexing
<1>2. todo' \in Seq(Texts)
  <2>1. RuleRewrites[query] \in Seq(Texts)
    BY CandidatesAssumption DEF IInv, Shape
  <2>2. \A answer \in Proposals : answer \in Seq(Texts)
    BY CandidatesAssumption
  <2>3. \A answer \in Proposals : RuleRewrites[query] \o answer \in Seq(Texts)
    BY <2>1, <2>2
  <2> QED
    BY <2>1, <2>3 DEF Propose
<1>3. results = <<>> /\ session = NoSession /\ base.m \in Measurements
  BY <1>1 DEF IInv, Shape, Contained, Early, Measuring, Trying
<1>4. Shape'
  BY <1>1, <1>2, <1>3 DEF IInv, Shape, Phases, Early, Measuring
<1>5. InHand' /\ Contained'
  BY <1>1, <1>3 DEF InHand, Contained
<1>6. DOMAIN results' = {}
  BY <1>1, <1>3
<1>7. Distinct' /\ Earned'
  BY <1>6 DEF Distinct, Earned
<1> QED
  BY <1>4, <1>5, <1>7 DEF IInv

LEMMA NextCandidateStep == IInv /\ NextCandidate => IInv'
<1> SUFFICES ASSUME IInv, NextCandidate
             PROVE  IInv'
  OBVIOUS
<1> DEFINE c == Head(todo)
<1>1. /\ pc = "next" /\ pc' \in {"next", "hash"}
      /\ UNCHANGED <<query, data, base, session>>
      /\ todo # <<>> /\ todo' = Tail(todo) /\ seen' = seen \cup {Norm[c]}
  BY DEF NextCandidate, Remembered, environment, indexing
<1>2. /\ c \in Texts /\ todo' \in Seq(Texts) /\ Norm[query] \in seen
      /\ data \in Int /\ session = NoSession /\ base.m \in Measurements
  <2>1. todo \in Seq(Texts)
    BY DEF IInv, Shape
  <2> QED
    BY <1>1, <2>1 DEF IInv, Shape, Contained, Early, Measuring, Trying
<1>3. seen \subseteq seen' /\ Norm[c] \in seen'
  BY <1>1
<1>4. Contained'
  BY <1>1, <1>2 DEF Contained
<1>5. CASE Norm[c] \in seen /\ UNCHANGED <<pc, hand, results>>
  <2>1. Distinct' /\ Earned'
    BY <1>1, <1>3, <1>5, NoNewVerdict DEF IInv
  <2>2. Shape'
    BY <1>1, <1>2, <1>3, <1>5 DEF IInv, Shape, Early, Measuring
  <2>3. InHand'
    BY <1>1, <1>5 DEF InHand
  <2> QED
    BY <1>4, <2>1, <2>2, <2>3 DEF IInv
<1>6. CASE /\ Norm[c] \notin seen /\ Objection(c) # "none"
           /\ results' = Append(results, Result(c, Objection(c), 0, data))
           /\ UNCHANGED <<pc, hand>>
  <2> DEFINE v == Result(c, Objection(c), 0, data)
  <2>1. v.sql = c /\ v.reason = Objection(c) /\ v.reason \in Reasons \ RanReasons
    BY <1>2, <1>6, ObjectionReasons DEF Result
  <2>2. v \in Verdict
    BY <1>2, <2>1 DEF Result, Verdict
  <2>3. results \in Seq(Verdict)
    BY DEF IInv, Shape
  <2>4. \A i \in DOMAIN results : Norm[results[i].sql] # Norm[c]
    BY <1>6 DEF IInv, Distinct
  <2>5. Norm[c] # Norm[query]
    BY <1>2, <1>6
  <2>6. v.reason \notin RanReasons /\ v.reason # "accepted"
    BY <2>1 DEF RanReasons
  <2>7. Distinct /\ Earned
    BY DEF IInv
  <2>8. results' = Append(results, v) /\ Norm[v.sql] \in seen' /\ Norm[v.sql] # Norm[query]
        /\ \A i \in DOMAIN results : Norm[results[i].sql] # Norm[v.sql]
    BY <1>3, <1>6, <2>1, <2>4, <2>5
  <2> HIDE DEF v
  <2>9. results' \in Seq(Verdict) /\ Distinct' /\ Earned'
    BY <1>1, <1>3, <2>2, <2>3, <2>6, <2>7, <2>8, NewVerdict
  <2>10. Shape'
    BY <1>1, <1>2, <1>3, <1>6, <2>9 DEF IInv, Shape, Early, Measuring
  <2>11. InHand'
    BY <1>1, <1>6 DEF InHand
  <2> QED
    BY <1>4, <2>9, <2>10, <2>11 DEF IInv
<1>7. CASE /\ Norm[c] \notin seen /\ Objection(c) = "none"
           /\ hand' = [sql |-> c, at |-> data] /\ pc' = "hash"
           /\ UNCHANGED results
  <2>1. Distinct' /\ Earned'
    BY <1>1, <1>3, <1>7, NoNewVerdict DEF IInv
  <2>2. Shape'
    BY <1>1, <1>2, <1>3, <1>7 DEF IInv, Shape, Early, Measuring, Phases
  <2>3. Cleared(query, c)
    BY <1>2, <1>7, ObjectionReasons
  <2>4. \A i \in DOMAIN results' : Norm[results'[i].sql] # Norm[c]
    BY <1>7 DEF IInv, Distinct
  <2>5. InHand'
    BY <1>1, <1>2, <1>3, <1>7, <2>3, <2>4 DEF InHand
  <2> QED
    BY <1>4, <2>1, <2>2, <2>5 DEF IInv
<1> QED
  BY <1>5, <1>6, <1>7 DEF NextCandidate

\* A verdict on the candidate in hand.
LEMMA ConcludeStep ==
    ASSUME IInv, pc \in {"hash", "time"}, NEW reason \in RanReasons, NEW gain \in Int,
           NEW at \in Int, Conclude(reason, gain, at),
           reason = "accepted" => base.m.median - gain < 2 * base.m.min
    PROVE  IInv'
<1> DEFINE v == Result(hand.sql, reason, gain, at)
<1>1. /\ results' = Append(results, v) /\ pc' = "next"
      /\ UNCHANGED <<query, data, base, todo, seen, session>> /\ hand' = NoHand
  BY DEF Conclude, environment, indexing
<1>2. /\ v.sql = hand.sql /\ v.reason = reason /\ v.gain = gain
  BY DEF Result
<1>3. /\ hand.sql \in Texts /\ hand.at \in Int /\ Cleared(query, hand.sql)
      /\ Norm[hand.sql] \in seen
      /\ \A i \in DOMAIN results : Norm[results[i].sql] # Norm[hand.sql]
      /\ Norm[query] \in seen /\ session = NoSession /\ base.m \in Measurements
      /\ todo \in Seq(Texts) /\ results \in Seq(Verdict)
  BY DEF IInv, Shape, InHand, Contained, Early, Measuring, Trying
<1>4. v \in Verdict
  BY <1>3 DEF Result, Verdict, RanReasons, Reasons
<1>5. Norm[v.sql] # Norm[query]
  BY <1>2, <1>3 DEF Cleared
<1>6. Distinct /\ Earned
  BY DEF IInv
<1> HIDE DEF v
<1>7. results' \in Seq(Verdict) /\ Distinct' /\ Earned'
  BY <1>1, <1>2, <1>3, <1>4, <1>5, <1>6, NewVerdict
<1>8. Shape'
  BY <1>1, <1>3, <1>7 DEF IInv, Shape, Early, Measuring, Phases, NoHand
<1>9. InHand' /\ Contained'
  BY <1>1, <1>3 DEF InHand, Contained
<1> QED
  BY <1>7, <1>8, <1>9 DEF IInv

LEMMA ChecksumCandidateStep == IInv /\ ChecksumCandidate => IInv'
<1> SUFFICES ASSUME IInv, ChecksumCandidate
             PROVE  IInv'
  OBVIOUS
<1>1. pc = "hash" /\ data \in Int
  BY DEF ChecksumCandidate, IInv, Shape
<1>2. CASE Conclude("failed", 0, data)
  BY <1>1, <1>2, ConcludeStep DEF RanReasons
<1>3. CASE Conclude("results_differ", 0, data)
  BY <1>1, <1>3, ConcludeStep DEF RanReasons
<1>4. CASE /\ hand' = [hand EXCEPT !.at = data] /\ pc' = "time"
           /\ UNCHANGED <<environment, base, todo, seen, results, best, indexing>>
  <2>1. UNCHANGED <<query, data, base, todo, seen, results, session>>
    BY <1>4 DEF environment, indexing
  <2>2. hand'.sql = hand.sql /\ hand' = [sql |-> hand'.sql, at |-> hand'.at] /\ hand'.at \in Int
    BY <1>4 DEF IInv, Shape
  <2>3. Distinct' /\ Earned'
    BY <2>1, NoNewVerdict DEF IInv
  <2>4. Shape'
    BY <1>1, <1>4, <2>1, <2>2 DEF IInv, Shape, Early, Measuring, Phases
  <2>5. InHand'
    BY <1>1, <2>1, <2>2 DEF IInv, InHand
  <2>6. Contained'
    BY <1>1, <1>4, <2>1 DEF IInv, Contained, Trying
  <2> QED
    BY <2>3, <2>4, <2>5, <2>6 DEF IInv
<1> QED
  BY <1>2, <1>3, <1>4 DEF ChecksumCandidate

LEMMA MeasureCandidateStep == IInv /\ MeasureCandidate => IInv'
<1> SUFFICES ASSUME IInv, MeasureCandidate
             PROVE  IInv'
  OBVIOUS
<1>1. pc = "time" /\ hand.at \in Int
  BY DEF MeasureCandidate, IInv, Shape
<1>2. ASSUME NEW reason \in {"failed", "timed_out"}, Conclude(reason, 0, hand.at)
      PROVE  IInv'
  BY <1>1, <1>2, ConcludeStep DEF RanReasons
<1>3. ASSUME NEW m \in Measurements,
             Conclude(IF IsFaster(base.m, m, MinImprovementPct) THEN "accepted" ELSE "not_faster",
                      Gain(base.m, m), hand.at)
      PROVE  IInv'
  <2> DEFINE verdict == IF IsFaster(base.m, m, MinImprovementPct) THEN "accepted" ELSE "not_faster"
  <2>1. Proper(base.m) /\ Proper(m)
    BY <1>1, MeasurementsAssumption DEF IInv, Shape, Measuring
  <2>2. Gain(base.m, m) \in Int
    BY <2>1, GainIsInt
  <2>3. verdict = "accepted" => base.m.median - Gain(base.m, m) < 2 * base.m.min
    BY <2>1, FasterBeatsEveryRun
  <2>4. verdict \in RanReasons
    BY DEF RanReasons
  <2>5. Conclude(verdict, Gain(base.m, m), hand.at)
    BY <1>3
  <2> HIDE DEF verdict
  <2> QED
    BY <1>1, <2>2, <2>3, <2>4, <2>5, ConcludeStep
<1> QED
  BY <1>2, <1>3 DEF MeasureCandidate

\* The experiments and the world touch neither the candidates nor the baseline.
LEMMA AsideStep ==
    IInv /\ (\/ ChooseBest \/ BeginExperiment \/ CreateIndex \/ MeasureWithIndex
             \/ Rollback \/ EndExperiments \/ Write \/ Expire) => IInv'
<1> SUFFICES ASSUME IInv, \/ ChooseBest \/ BeginExperiment \/ CreateIndex \/ MeasureWithIndex
                          \/ Rollback \/ EndExperiments \/ Write \/ Expire
             PROVE  IInv'
  OBVIOUS
<1>1. UNCHANGED <<query, base, todo, seen, hand, results>>
  BY DEF ChooseBest, BeginExperiment, CreateIndex, MeasureWithIndex, Rollback,
         EndExperiments, Write, Expire, environment, candidates, indexing
<1>2. data' = data \/ data' = data + 1
  BY DEF ChooseBest, BeginExperiment, CreateIndex, MeasureWithIndex, Rollback,
         EndExperiments, Write, Expire, environment
<1>3. \/ pc' = pc /\ session' = session
      \/ /\ pc \in {"next", "experiment", "create", "trial", "rollback"}
         /\ pc' \in {"experiment", "create", "trial", "rollback", "report"}
         /\ pc' \notin Trying => session' = NoSession
  <2>1. pc = "next" \/ pc = "experiment" => session = NoSession
    BY DEF IInv, Contained, Trying
  <2>2. CASE ChooseBest
    BY <2>1, <2>2 DEF ChooseBest, indexing
  <2>3. CASE BeginExperiment \/ EndExperiments
    BY <2>1, <2>3 DEF BeginExperiment, EndExperiments, Trying
  <2>4. CASE CreateIndex \/ MeasureWithIndex \/ Rollback
    BY <2>4 DEF CreateIndex, MeasureWithIndex, Rollback, Trying
  <2>5. CASE Write \/ Expire
    BY <2>5 DEF Write, Expire, indexing
  <2> QED
    BY <2>2, <2>3, <2>4, <2>5
<1>4. Shape'
  <2>1. data' \in Int
    BY <1>2 DEF IInv, Shape
  <2>2. CASE pc' = pc
    BY <2>1, <2>2, <1>1 DEF IInv, Shape
  <2>3. CASE /\ pc \in {"next", "experiment", "create", "trial", "rollback"}
             /\ pc' \in {"experiment", "create", "trial", "rollback", "report"}
    BY <2>1, <2>3, <1>1 DEF IInv, Shape, Early, Measuring, Phases
  <2> QED
    BY <1>3, <2>2, <2>3
<1>5. InHand'
  BY <1>1, <1>3 DEF IInv, InHand
<1>6. Distinct' /\ Earned'
  BY <1>1, NoNewVerdict DEF IInv
<1>7. Contained'
  BY <1>3 DEF IInv, Contained
<1> QED
  BY <1>4, <1>5, <1>6, <1>7 DEF IInv

--------------------------------------------------------------------------------
(* The theorems. *)

LEMMA StepIInv == IInv /\ [Next]_vars => IInv'
<1> SUFFICES ASSUME IInv, [Next]_vars
             PROVE  IInv'
  OBVIOUS
<1>1. CASE UNCHANGED vars
  <2>1. Shape' /\ InHand' /\ Distinct' /\ Earned' /\ Contained'
    BY <1>1 DEF vars, IInv, Shape, InHand, Distinct, Earned, Contained
  <2> QED
    BY <2>1 DEF IInv
<1>2. CASE Next
  BY <1>2, BaselineStep, ProposeStep, NextCandidateStep, ChecksumCandidateStep,
     MeasureCandidateStep, AsideStep DEF Next, Step
<1> QED
  BY <1>1, <1>2

LEMMA InvariantCorrect == Spec => []IInv
<1> QED
  BY InitIInv, StepIInv, PTL DEF Spec

\* Whatever the rules and the model propose, in whatever spellings, no text is
\* judged twice and the original never (optimizer.go, the seen map).
THEOREM JudgedOnce == Spec => []NothingJudgedTwice
<1>1. IInv => NothingJudgedTwice
  BY DEF IInv, Distinct, NothingJudgedTwice
<1> QED
  BY InvariantCorrect, <1>1, PTL

\* Nothing runs on the target but single SELECTs of the original's shape
\* (verify.go, gates 1 to 3).
THEOREM GatesBeforeExecution == Spec => []OnlyReadsExecuted
<1>1. ASSUME IInv
      PROVE  OnlyReadsExecuted
  <2>1. \A i \in DOMAIN results : results[i].reason \in RanReasons =>
           Kind[results[i].sql] = "select" /\ <<query, results[i].sql>> \in SameShape
    BY <1>1 DEF IInv, Earned, Cleared
  <2>2. pc \in {"hash", "time"} =>
           Kind[hand.sql] = "select" /\ <<query, hand.sql>> \in SameShape
    BY <1>1 DEF IInv, InHand, Cleared
  <2> QED
    BY <2>1, <2>2 DEF OnlyReadsExecuted, RanReasons
<1>2. IInv => OnlyReadsExecuted
  BY <1>1
<1> QED
  BY InvariantCorrect, <1>2, PTL

\* An accepted rewrite has its median below every timed run of the original,
\* whatever was measured (verify.go, isFaster).
THEOREM AcceptedIsFaster == Spec => []AcceptedBeatsEveryRun
<1>1. IInv => AcceptedBeatsEveryRun
  BY DEF IInv, Earned, AcceptedBeatsEveryRun, Accepted
<1> QED
  BY InvariantCorrect, <1>1, PTL

\* No index outlives its experiment, on success, error, timeout or a cancelled
\* job (postgres.go, WithHypotheticalIndex).
THEOREM IndexRolledBack == Spec => []IndexNeverSurvives
<1>1. IInv => IndexNeverSurvives
  BY DEF IInv, Contained, Trying, IndexNeverSurvives
<1> QED
  BY InvariantCorrect, <1>1, PTL

--------------------------------------------------------------------------------
(* What writes is never executed where it could. *)

Finished == {"results_differ", "not_faster", "accepted"}

\* What got past an execution reads only.
Reads ==
    /\ pc \notin Measuring => query \notin Writers
    /\ \A i \in DOMAIN results : results[i].reason \in Finished => results[i].sql \notin Writers

\* A verdict leaves the earlier ones as they are.
LEMMA OneMoreVerdict ==
    ASSUME results \in Seq(Verdict), Reads, NEW v, results' = Append(results, v),
           v.reason \in Finished => v.sql \notin Writers
    PROVE  \A i \in DOMAIN results' :
               results'[i].reason \in Finished => results'[i].sql \notin Writers
<1>1. /\ DOMAIN results' = 1..Len(results) + 1 /\ DOMAIN results = 1..Len(results)
      /\ Len(results) \in Nat /\ results'[Len(results) + 1] = v
      /\ \A i \in 1..Len(results) : results'[i] = results[i]
  OBVIOUS
<1>2. \A i \in 1..Len(results) : results[i].reason \in Finished => results[i].sql \notin Writers
  BY <1>1 DEF Reads
<1>3. \A i \in 1..Len(results) + 1 : i \in 1..Len(results) \/ i = Len(results) + 1
  BY <1>1
<1> QED
  BY <1>1, <1>2, <1>3

LEMMA ReadsStep == IInv /\ Reads /\ [Next]_vars => Reads'
<1> SUFFICES ASSUME IInv, Reads, [Next]_vars
             PROVE  Reads'
  OBVIOUS
<1>1. results \in Seq(Verdict) /\ (pc \in {"introspect", "explain", "measure"} => results = <<>>)
  BY DEF IInv, Shape, Early
<1>2. CASE UNCHANGED vars
  BY <1>2 DEF vars, Reads
<1>3. CASE Introspect \/ ExplainBaseline \/ MeasureBaseline \/ ChecksumBaseline \/ Propose
  <2>1. UNCHANGED <<query, results>>
    BY <1>3 DEF Introspect, ExplainBaseline, Pass, MeasureBaseline, ChecksumBaseline, Propose,
                Fail, environment, candidates
  <2>2. \/ pc' \in Measuring
        \/ pc = "measure" /\ ~Refused(query)
        \/ pc \in {"checksum", "propose"}
    BY <1>3 DEF Introspect, ExplainBaseline, Pass, MeasureBaseline, ChecksumBaseline, Propose,
                Fail, Measuring
  <2> QED
    BY <2>1, <2>2 DEF Reads, Measuring, Refused
<1>4. CASE NextCandidate
  <2>1. pc = "next" /\ query' = query
    BY <1>4 DEF NextCandidate, environment
  <2>2. CASE results' = results
    BY <2>1, <2>2 DEF Reads, Measuring
  <2>3. CASE results' = Append(results, Result(Head(todo), Objection(Head(todo)), 0, data))
    <3>1. Objection(Head(todo)) \notin Finished
      BY DEF Objection, Finished
    <3>2. Result(Head(todo), Objection(Head(todo)), 0, data).reason \notin Finished
      BY <3>1 DEF Result
    <3> QED
      BY <1>1, <2>1, <2>3, <3>2, OneMoreVerdict DEF Reads, Measuring
  <2> QED
    BY <1>4, <2>2, <2>3 DEF NextCandidate
<1>5. ASSUME NEW reason, NEW gain, NEW at, Conclude(reason, gain, at), pc \in {"hash", "time"},
             reason \in Finished => hand.sql \notin Writers
      PROVE  Reads'
  <2>1. results' = Append(results, Result(hand.sql, reason, gain, at)) /\ query' = query
    BY <1>5 DEF Conclude, environment
  <2>2. Result(hand.sql, reason, gain, at).reason \in Finished =>
           Result(hand.sql, reason, gain, at).sql \notin Writers
    BY <1>5 DEF Result
  <2>3. query \notin Writers
    BY <1>5 DEF Reads, Measuring
  <2> QED
    BY <1>1, <2>1, <2>2, <2>3, OneMoreVerdict DEF Reads
<1>6. CASE ChecksumCandidate
  <2>1. pc = "hash"
    BY <1>6 DEF ChecksumCandidate
  <2>2. CASE Conclude("failed", 0, data)
    BY <1>5, <2>1, <2>2 DEF Finished
  <2>3. CASE Hashable(hand.sql) /\ Conclude("results_differ", 0, data)
    BY <1>5, <2>1, <2>3 DEF Hashable, Refused
  <2>4. CASE UNCHANGED <<environment, base, todo, seen, results, best, indexing>>
    BY <2>1, <2>4 DEF environment, Reads, Measuring
  <2> QED
    BY <1>6, <2>2, <2>3, <2>4 DEF ChecksumCandidate
<1>7. CASE MeasureCandidate
  <2>1. pc = "time"
    BY <1>7 DEF MeasureCandidate
  <2>2. ASSUME NEW reason \in {"failed", "timed_out"}, Conclude(reason, 0, hand.at)
        PROVE  Reads'
    BY <1>5, <2>1, <2>2 DEF Finished
  <2>3. ASSUME NEW m \in Measurements, ~Refused(hand.sql),
               Conclude(IF IsFaster(base.m, m, MinImprovementPct) THEN "accepted" ELSE "not_faster",
                        Gain(base.m, m), hand.at)
        PROVE  Reads'
    BY <1>5, <2>1, <2>3 DEF Refused
  <2> QED
    BY <1>7, <2>2, <2>3 DEF MeasureCandidate
<1>8. CASE \/ ChooseBest \/ BeginExperiment \/ CreateIndex \/ MeasureWithIndex
           \/ Rollback \/ EndExperiments \/ Write \/ Expire
  <2>1. UNCHANGED <<query, results>>
    BY <1>8 DEF ChooseBest, BeginExperiment, CreateIndex, MeasureWithIndex, Rollback,
                EndExperiments, Write, Expire, environment, candidates
  <2>2. pc' = pc \/ pc \notin Measuring
    BY <1>8 DEF ChooseBest, BeginExperiment, CreateIndex, MeasureWithIndex, Rollback,
                EndExperiments, Write, Expire, Measuring
  <2> QED
    BY <2>1, <2>2 DEF Reads
<1> QED
  BY <1>2, <1>3, <1>4, <1>6, <1>7, <1>8 DEF Next, Step

\* However the parser was deceived, a statement that writes is stopped by the READ ONLY
\* transaction of its first measurement, and never comes to the experiment's transaction,
\* which has no such guard (postgres.go, readOnly and WithHypotheticalIndex).
THEOREM WritersAreStopped == Spec => []NothingIsWritten
<1>1. Init => Reads
  BY DEF Init, Reads, Measuring
<1>2. ASSUME IInv, Reads
      PROVE  NothingIsWritten
  <2>1. session.tx = "rw" => pc \in Trying
    BY <1>2 DEF IInv, Contained, NoSession
  <2>2. session.tx = "rw" => query \notin Writers
    BY <1>2, <2>1 DEF Reads, Trying, Measuring
  <2>3. \A i \in DOMAIN results :
           results[i].reason \in {"results_differ", "not_faster", "accepted"} =>
               results[i].sql \notin Writers
    BY <1>2 DEF Reads, Finished
  <2> QED
    BY <2>2, <2>3 DEF NothingIsWritten
<1>3. IInv /\ Reads => NothingIsWritten
  BY <1>2
<1> QED
  BY <1>1, <1>3, ReadsStep, InvariantCorrect, PTL DEF Spec

--------------------------------------------------------------------------------
(* Every experiment that was begun is in the report. *)

Budget == IF MaxIndexTests < 0 THEN 0 ELSE MaxIndexTests
Open == IF pc \in Trying THEN 1 ELSE 0

\* x is a sequence of outcomes, of which the gain is known.
Outcomes(x) == (\E S : x \in Seq(S)) /\ \A i \in DOMAIN x : x[i].gain \in Int

\* The n-th outcome is of the n-th suggestion.
InOrder(x, suggested) == \A n \in 1..Len(x) : x[n].ddl = suggested[n]

\* Until they are sorted the outcomes are in the order of the suggestions.
Account ==
    /\ tested \in Nat /\ tested <= Len(Suggested[query]) /\ tested <= Budget
    /\ trial.gain \in Int
    /\ Outcomes(experiments)
    /\ Len(experiments) + Open = tested
    /\ pc # "report" => InOrder(experiments, Suggested[query])
    /\ pc = "report" => \A n \in 1..tested : \E i \in DOMAIN experiments :
                           experiments[i].ddl = Suggested[query][n]
    /\ pc \notin {"experiment", "create", "trial", "rollback", "report"} => tested = 0

LEMMA OneMoreOutcome ==
    ASSUME NEW x, NEW suggested, Outcomes(x), InOrder(x, suggested), NEW ddl, NEW t,
           t.gain \in Int, ddl = suggested[Len(x) + 1]
    PROVE  LET y == Append(x, Experiment(ddl, t)) IN
           Outcomes(y) /\ InOrder(y, suggested) /\ Len(y) = Len(x) + 1
<1> DEFINE e == Experiment(ddl, t)
           y == Append(x, e)
<1>1. PICK S : x \in Seq(S)
  BY DEF Outcomes
<1>2. e.ddl = ddl /\ e.gain = t.gain
  BY DEF Experiment
<1> HIDE DEF e
<1>3. x \in Seq(S \cup {e})
  BY <1>1, SeqMonotonic
<1>4. /\ y \in Seq(S \cup {e}) /\ Len(y) = Len(x) + 1 /\ Len(x) \in Nat
      /\ DOMAIN x = 1..Len(x) /\ DOMAIN y = 1..Len(x) + 1
      /\ y[Len(x) + 1] = e /\ \A i \in 1..Len(x) : y[i] = x[i]
  BY <1>3
<1> HIDE DEF y
<1>5. \A i \in 1..Len(x) + 1 : i \in 1..Len(x) \/ i = Len(x) + 1
  BY <1>4
<1>6. Outcomes(y)
  BY <1>2, <1>4, <1>5 DEF Outcomes
<1>7. InOrder(y, suggested)
  BY <1>2, <1>4, <1>5 DEF InOrder
<1> QED
  BY <1>4, <1>6, <1>7 DEF e, y

LEMMA InitAccount == Init => Account
<1> SUFFICES ASSUME Init
             PROVE  Account
  OBVIOUS
<1>1. /\ query \in Queries /\ pc = "introspect" /\ tested = 0 /\ trial = NoTrial
      /\ experiments = <<>>
  BY DEF Init
<1>2. Suggested[query] \in Seq(Indexes)
  BY <1>1, CandidatesAssumption
<1>3. Len(Suggested[query]) \in Nat
  BY <1>2
<1>4. /\ Outcomes(experiments) /\ Len(experiments) = 0
      /\ InOrder(experiments, Suggested[query])
  <2>1. experiments \in Seq({}) /\ DOMAIN experiments = {} /\ Len(experiments) = 0
    BY <1>1
  <2> QED
    BY <2>1 DEF Outcomes, InOrder
<1>5. 0 <= Budget
  BY BoundsAssumption DEF Budget
<1> QED
  BY <1>1, <1>3, <1>4, <1>5 DEF Account, NoTrial, Open, Trying

\* Steps that leave the experiments alone.
LEMMA AccountKept ==
    ASSUME Account, UNCHANGED <<query, tested, trial, experiments>>,
           \/ pc' = pc
           \/ /\ pc \notin {"experiment", "create", "trial", "rollback", "report"}
              /\ pc' \notin Trying
           \/ pc \in {"create", "trial"} /\ pc' \in {"trial", "rollback"}
    PROVE  Account'
<1>1. Open' = Open
  BY DEF Open, Trying
<1>2. Outcomes(experiments') /\ InOrder(experiments', Suggested[query']) = InOrder(experiments, Suggested[query])
  BY DEF Account
<1>3. CASE pc' = pc
  BY <1>1, <1>2, <1>3 DEF Account
<1>4. CASE pc \in {"create", "trial"} /\ pc' \in {"trial", "rollback"}
  BY <1>1, <1>2, <1>4 DEF Account
<1>5. CASE /\ pc \notin {"experiment", "create", "trial", "rollback", "report"}
           /\ pc' \notin Trying
  BY <1>1, <1>2, <1>5 DEF Account
<1> QED
  BY <1>3, <1>4, <1>5

LEMMA AccountStep == IInv /\ Account /\ [Next]_vars => Account'
<1> SUFFICES ASSUME IInv, Account, [Next]_vars
             PROVE  Account'
  OBVIOUS
<1>1. /\ Outcomes(experiments) /\ tested \in Nat /\ Len(experiments) + Open = tested
      /\ tested <= Len(Suggested[query]) /\ tested <= Budget /\ trial.gain \in Int
  BY DEF Account
<1>2. query \in Queries /\ Suggested[query] \in Seq(Indexes)
  BY CandidatesAssumption DEF IInv, Shape
<1>3. Len(Suggested[query]) \in Nat /\ Len(experiments) \in Nat
  BY <1>1, <1>2 DEF Outcomes
<1>4. CASE UNCHANGED vars
  BY <1>4, AccountKept DEF vars
<1>5. CASE \/ Introspect \/ ExplainBaseline \/ MeasureBaseline \/ ChecksumBaseline \/ Propose
           \/ NextCandidate \/ ChecksumCandidate \/ MeasureCandidate \/ ChooseBest
  <2>1. UNCHANGED <<query, tested, trial, experiments>>
    BY <1>5 DEF Introspect, ExplainBaseline, Pass, MeasureBaseline, ChecksumBaseline, Propose,
                Fail, NextCandidate, ChecksumCandidate, MeasureCandidate, Conclude, ChooseBest,
                environment, indexing
  <2>2. /\ pc \notin {"experiment", "create", "trial", "rollback", "report"}
        /\ pc' \notin Trying
    BY <1>5 DEF Introspect, ExplainBaseline, Pass, MeasureBaseline, ChecksumBaseline, Propose,
                Fail, NextCandidate, ChecksumCandidate, MeasureCandidate, Conclude, ChooseBest,
                Trying
  <2> QED
    BY <2>1, <2>2, AccountKept
<1>6. CASE BeginExperiment
  <2>1. /\ pc = "experiment" /\ tested < Len(Suggested[query]) /\ tested < MaxIndexTests
        /\ tested' = tested + 1 /\ query' = query /\ trial' = trial
    BY <1>6 DEF BeginExperiment, BudgetLeft, environment
  <2>2. Open = 0 /\ Len(experiments) = tested /\ InOrder(experiments, Suggested[query])
    BY <1>3, <2>1 DEF Open, Trying, Account
  <2>3. tested + 1 \in Nat /\ tested + 1 <= Len(Suggested[query]) /\ tested + 1 <= Budget
    BY <1>1, <1>3, <2>1, BoundsAssumption DEF Budget
  <2>4. CASE pc' = "create" /\ experiments' = experiments
    BY <1>1, <2>1, <2>2, <2>3, <2>4 DEF Account, Open, Trying
  <2>5. CASE /\ experiments' = Append(experiments, Experiment(Suggested[query][tested + 1], NoTrial))
             /\ pc' = pc
    <3>1. /\ Outcomes(experiments') /\ InOrder(experiments', Suggested[query])
          /\ Len(experiments') = tested + 1
      BY <1>1, <2>2, <2>5, OneMoreOutcome DEF NoTrial
    <3> QED
      BY <1>1, <2>1, <2>3, <2>5, <3>1 DEF Account, Open, Trying
  <2> QED
    BY <1>6, <2>4, <2>5 DEF BeginExperiment
<1>7. CASE CreateIndex
  BY <1>7, AccountKept DEF CreateIndex, environment
<1>8. CASE MeasureWithIndex
  <2>1. /\ pc = "trial" /\ pc' = "rollback"
        /\ UNCHANGED <<query, tested, experiments>>
    BY <1>8 DEF MeasureWithIndex, environment
  <2>2. trial'.gain \in Int
    <3>1. base.m \in Measurements
      BY <2>1 DEF IInv, Shape, Measuring
    <3>2. ASSUME NEW m \in Measurements
          PROVE  Gain(base.m, m) \in Int
      BY <3>1, MeasurementsAssumption, GainIsInt
    <3> QED
      BY <1>1, <1>8, <3>2 DEF MeasureWithIndex
  <2> QED
    BY <1>1, <2>1, <2>2 DEF Account, Open, Trying
<1>9. CASE Rollback
  <2>1. /\ pc = "rollback" /\ pc' = "experiment" /\ UNCHANGED <<query, tested>>
        /\ experiments' = Append(experiments, Experiment(Suggested[query][tested], trial))
        /\ trial' = NoTrial
    BY <1>9 DEF Rollback, Recorded, Ddl, environment
  <2>2. Open = 1 /\ Len(experiments) + 1 = tested /\ InOrder(experiments, Suggested[query])
    BY <1>3, <2>1 DEF Open, Trying, Account
  <2>3. /\ Outcomes(experiments') /\ InOrder(experiments', Suggested[query])
        /\ Len(experiments') = tested
    BY <1>1, <2>1, <2>2, OneMoreOutcome
  <2> QED
    BY <1>1, <2>1, <2>3 DEF Account, Open, Trying, NoTrial
<1>10. CASE EndExperiments
  <2>1. /\ pc = "experiment" /\ pc' = "report" /\ experiments' = Ranked(experiments)
        /\ UNCHANGED <<query, tested, trial>>
    BY <1>10 DEF EndExperiments, environment
  <2>2. PICK S : experiments \in Seq(S)
    BY <1>1 DEF Outcomes
  <2>3. /\ DOMAIN experiments = 1..Len(experiments) /\ Len(experiments) = tested
        /\ \A i \in 1..Len(experiments) : experiments[i].gain \in Int
        /\ InOrder(experiments, Suggested[query])
    BY <1>1, <1>3, <2>1, <2>2 DEF Open, Trying, Account, Outcomes
  <2>4. Orders(LargestFirst(experiments), DOMAIN experiments)
    BY <1>3, <2>3, LargestFirstOrders
  <2>5. /\ experiments' \in Seq(S) /\ Len(experiments') = Len(experiments)
        /\ Rearranges(experiments', experiments)
    BY <2>1, <2>2, <2>4, SortedRearranges DEF Ranked
  <2>6. PICK f \in [DOMAIN experiments -> DOMAIN experiments] :
           /\ \A k \in DOMAIN experiments : \E i \in DOMAIN experiments : f[i] = k
           /\ DOMAIN experiments' = DOMAIN experiments
           /\ \A i \in DOMAIN experiments : experiments'[i] = experiments[f[i]]
    BY <2>5 DEF Rearranges
  <2>7. \A i \in DOMAIN experiments' : experiments'[i].gain \in Int
    BY <2>3, <2>6
  <2>8. \A n \in 1..tested : \E i \in DOMAIN experiments' : experiments'[i].ddl = Suggested[query][n]
    BY <2>3, <2>6 DEF InOrder
  <2>9. Outcomes(experiments')
    BY <2>5, <2>7 DEF Outcomes
  <2> QED
    BY <1>1, <2>1, <2>3, <2>5, <2>8, <2>9 DEF Account, Open, Trying
<1>11. CASE Write \/ Expire
  BY <1>11, AccountKept DEF Write, Expire, indexing
<1> QED
  BY <1>4, <1>5, <1>6, <1>7, <1>8, <1>9, <1>10, <1>11 DEF Next, Step

\* Every experiment begun is in the report whatever became of it, the sort included, and
\* there are never more than the budget (optimizer.go, runIndexExperiments).
THEOREM ExperimentsReported == Spec => []ExperimentsAccounted
<1>1. ASSUME Account
      PROVE  ExperimentsAccounted
  <2>1. tested <= Budget /\ Len(experiments) + Open = tested /\ tested \in Nat
    BY <1>1 DEF Account
  <2>2. ASSUME pc \notin Trying, NEW n \in 1..tested
        PROVE  \E i \in DOMAIN experiments : experiments[i].ddl = Suggested[query][n]
    <3>1. CASE pc = "report"
      BY <1>1, <2>2, <3>1 DEF Account
    <3>2. CASE pc # "report"
      <4>1. InOrder(experiments, Suggested[query]) /\ \E S : experiments \in Seq(S)
        BY <1>1, <3>2 DEF Account, Outcomes
      <4>2. DOMAIN experiments = 1..Len(experiments) /\ Len(experiments) \in Nat
        BY <4>1
      <4>3. Len(experiments) = tested
        BY <2>1, <2>2, <4>2 DEF Open
      <4> QED
        BY <2>2, <4>1, <4>2, <4>3 DEF InOrder
    <3> QED
      BY <3>1, <3>2
  <2> QED
    BY <2>1, <2>2 DEF ExperimentsAccounted, Budget, Open, Trying
<1>2. Account => ExperimentsAccounted
  BY <1>1
<1> QED
  BY <1>2, InitAccount, AccountStep, InvariantCorrect, PTL DEF Spec

--------------------------------------------------------------------------------
(* The verdicts of a run. *)

\* The spellings of what the rules propose, of what waits, is in hand, and is decided.
Owed == {Norm[RuleRewrites[query][k]] : k \in DOMAIN RuleRewrites[query]}
Waiting == {Norm[todo[j]] : j \in DOMAIN todo}
Held == IF pc \in {"hash", "time"} THEN {Norm[hand.sql]} ELSE {}
Decided == {Norm[query]} \cup {Norm[results[i].sql] : i \in DOMAIN results}

\* The rules' rewrites are underway, and a text is seen for a reason.
Underway ==
    /\ pc \notin Early => Owed \subseteq Waiting \cup Held \cup Decided /\ seen \subseteq Held \cup Decided
    /\ Judged => todo = <<>>

\* A verdict decides one text.
LEMMA DecidedAppend ==
    ASSUME results \in Seq(Verdict), NEW v, results' = Append(results, v), query' = query
    PROVE  Decided' = Decided \cup {Norm[v.sql]}
<1>1. /\ DOMAIN results' = 1..Len(results) + 1 /\ DOMAIN results = 1..Len(results)
      /\ Len(results) \in Nat /\ results'[Len(results) + 1] = v
      /\ \A i \in 1..Len(results) : results'[i] = results[i]
  OBVIOUS
<1>2. \A i : i \in 1..Len(results) + 1 <=> i \in 1..Len(results) \/ i = Len(results) + 1
  BY <1>1
<1> QED
  BY <1>1, <1>2 DEF Decided

\* All that wait but the first go on waiting.
LEMMA WaitingTail ==
    ASSUME todo \in Seq(Texts), todo # <<>>, todo' = Tail(todo)
    PROVE  Waiting \subseteq Waiting' \cup {Norm[Head(todo)]}
<1>1. /\ Len(todo) \in Nat /\ Len(todo) > 0 /\ DOMAIN todo = 1..Len(todo)
      /\ DOMAIN todo' = 1..Len(todo) - 1 /\ Head(todo) = todo[1]
      /\ \A j \in 1..Len(todo) - 1 : todo'[j] = todo[j + 1]
  OBVIOUS
<1>2. ASSUME NEW j \in DOMAIN todo
      PROVE  Norm[todo[j]] \in Waiting' \cup {Norm[Head(todo)]}
  <2>1. j = 1 \/ j - 1 \in 1..Len(todo) - 1
    BY <1>1
  <2>2. CASE j - 1 \in 1..Len(todo) - 1
    <3>1. j - 1 \in DOMAIN todo' /\ todo'[j - 1] = todo[(j - 1) + 1] /\ (j - 1) + 1 = j
      BY <1>1, <2>2
    <3> QED
      BY <3>1 DEF Waiting
  <2> QED
    BY <1>1, <2>1, <2>2
<1> QED
  BY <1>2 DEF Waiting

LEMMA UnderwayStep == IInv /\ Underway /\ [Next]_vars => Underway'
<1> SUFFICES ASSUME IInv, Underway, [Next]_vars
             PROVE  Underway'
  OBVIOUS
<1>1. results \in Seq(Verdict) /\ todo \in Seq(Texts) /\ query \in Queries
  BY DEF IInv, Shape
<1>2. query' = query /\ Owed' = Owed
  <2>1. query' = query
    BY DEF Next, Step, vars, Introspect, ExplainBaseline, Pass, MeasureBaseline, ChecksumBaseline,
           Propose, Fail, NextCandidate, ChecksumCandidate, MeasureCandidate, Conclude,
           ChooseBest, BeginExperiment, CreateIndex, MeasureWithIndex, Rollback,
           EndExperiments, Write, Expire, environment
  <2> QED
    BY <2>1 DEF Owed
<1>3. CASE Introspect \/ ExplainBaseline \/ MeasureBaseline \/ ChecksumBaseline
  <2>1. pc' \in Early
    BY <1>3 DEF Introspect, ExplainBaseline, Pass, MeasureBaseline, ChecksumBaseline, Fail, Early
  <2> QED
    BY <2>1 DEF Underway, Early, Judged
<1>4. CASE Propose
  <2>1. seen' = {Norm[query]} /\ pc' = "next"
    BY <1>4 DEF Propose
  <2>2. RuleRewrites[query] \in Seq(Texts) /\ \A a \in Proposals : a \in Seq(Texts)
    BY <1>1, CandidatesAssumption
  <2>3. \A k \in DOMAIN RuleRewrites[query] :
           k \in DOMAIN todo' /\ todo'[k] = RuleRewrites[query][k]
    <3>1. CASE todo' = RuleRewrites[query]
      BY <3>1
    <3>2. ASSUME NEW a \in Proposals, todo' = RuleRewrites[query] \o a
          PROVE  \A k \in DOMAIN RuleRewrites[query] :
                    k \in DOMAIN todo' /\ todo'[k] = RuleRewrites[query][k]
      BY <2>2, <3>2
    <3> QED
      BY <1>4, <3>1, <3>2 DEF Propose
  <2>4. Owed \subseteq Waiting'
    BY <2>3 DEF Owed, Waiting
  <2>5. Norm[query] \in Decided'
    BY <1>2 DEF Decided
  <2> QED
    BY <1>2, <2>1, <2>4, <2>5 DEF Underway, Judged
<1>5. ASSUME NEW reason, NEW gain, NEW at, Conclude(reason, gain, at), pc \in {"hash", "time"}
      PROVE  Underway'
  <2>1. /\ results' = Append(results, Result(hand.sql, reason, gain, at))
        /\ pc' = "next" /\ todo' = todo /\ seen' = seen
    BY <1>5 DEF Conclude
  <2>2. Result(hand.sql, reason, gain, at).sql = hand.sql
    BY DEF Result
  <2>3. Decided' = Decided \cup {Norm[hand.sql]}
    BY <1>1, <1>2, <2>1, <2>2, DecidedAppend
  <2>4. Waiting' = Waiting /\ Held = {Norm[hand.sql]}
    BY <1>5, <2>1 DEF Waiting, Held
  <2>5. Owed \subseteq Waiting \cup Held \cup Decided /\ seen \subseteq Held \cup Decided
    BY <1>5 DEF Underway, Early
  <2> QED
    BY <1>2, <2>1, <2>3, <2>4, <2>5 DEF Underway, Judged
<1>6. CASE NextCandidate
  <2> DEFINE c == Head(todo)
  <2>1. /\ pc = "next" /\ todo # <<>> /\ todo' = Tail(todo) /\ seen' = seen \cup {Norm[c]}
        /\ pc' \in {"next", "hash"}
    BY <1>6 DEF NextCandidate, Remembered
  <2>2. /\ Held = {} /\ Owed \subseteq Waiting \cup Decided /\ seen \subseteq Decided
    BY <2>1 DEF Held, Underway, Early
  <2>3. Waiting \subseteq Waiting' \cup {Norm[c]}
    BY <1>1, <2>1, WaitingTail
  <2>4. Decided \subseteq Decided' /\ Norm[c] \in Held' \cup Decided'
    <3>1. CASE Norm[c] \in seen /\ results' = results
      BY <1>2, <2>2, <3>1 DEF Decided
    <3>2. CASE results' = Append(results, Result(c, Objection(c), 0, data))
      <4> DEFINE v == Result(c, Objection(c), 0, data)
      <4>1. v.sql = c
        BY DEF Result
      <4> HIDE DEF v
      <4>2. Decided' = Decided \cup {Norm[v.sql]}
        BY <1>1, <1>2, <3>2, DecidedAppend DEF v
      <4> QED
        BY <4>1, <4>2
    <3>3. CASE hand' = [sql |-> c, at |-> data] /\ pc' = "hash" /\ results' = results
      <4>1. hand'.sql = c /\ Decided' = Decided
        BY <1>2, <3>3 DEF Decided
      <4> QED
        BY <3>3, <4>1 DEF Held
    <3> QED
      BY <1>6, <3>1, <3>2, <3>3 DEF NextCandidate
  <2> HIDE DEF c
  <2> QED
    BY <1>2, <2>1, <2>2, <2>3, <2>4 DEF Underway, Judged
<1>7. CASE ChecksumCandidate
  <2>1. pc = "hash"
    BY <1>7 DEF ChecksumCandidate
  <2>2. CASE \E reason : Conclude(reason, 0, data)
    BY <1>5, <2>1, <2>2
  <2>3. CASE /\ UNCHANGED <<environment, base, todo, seen, results, best, indexing>>
             /\ hand' = [hand EXCEPT !.at = data] /\ pc' = "time"
    <3>1. hand'.sql = hand.sql
      BY <2>3 DEF IInv, Shape
    <3>2. Held' = Held /\ Waiting' = Waiting /\ Decided' = Decided
      BY <1>2, <2>1, <2>3, <3>1 DEF Held, Waiting, Decided
    <3> QED
      BY <1>2, <2>1, <2>3, <3>2 DEF Underway, Early, Judged
  <2> QED
    BY <1>7, <2>2, <2>3 DEF ChecksumCandidate
<1>8. CASE MeasureCandidate
  <2>1. pc = "time" /\ \E reason, gain, at : Conclude(reason, gain, at)
    BY <1>8 DEF MeasureCandidate
  <2> QED
    BY <1>5, <2>1
<1>9. ASSUME UNCHANGED <<todo, seen, hand, results>>,
             \/ pc' = pc
             \/ pc = "next" /\ todo = <<>> /\ Judged'
             \/ Judged /\ Judged'
      PROVE  Underway'
  <2>1. Waiting' = Waiting /\ Decided' = Decided /\ seen' = seen
    BY <1>2, <1>9 DEF Waiting, Decided
  <2>2. Held \subseteq Held'
    BY <1>9 DEF Held, Judged
  <2>3. pc' \notin Early => pc \notin Early
    BY <1>9 DEF Judged, Early
  <2>4. Judged' => todo' = <<>>
    BY <1>9 DEF Underway, Judged
  <2> QED
    BY <1>2, <2>1, <2>2, <2>3, <2>4 DEF Underway
<1>10. CASE ChooseBest
  BY <1>9, <1>10 DEF ChooseBest, Judged
<1>11. CASE BeginExperiment \/ CreateIndex \/ MeasureWithIndex \/ Rollback \/ EndExperiments
  BY <1>9, <1>11 DEF BeginExperiment, CreateIndex, MeasureWithIndex, Rollback, EndExperiments,
                     Judged, candidates
<1>12. CASE Write \/ Expire \/ UNCHANGED vars
  BY <1>9, <1>12 DEF Write, Expire, candidates, vars
<1> QED
  BY <1>3, <1>4, <1>6, <1>7, <1>8, <1>10, <1>11, <1>12 DEF Next, Step

\* Whatever the model proposes, fails to propose or repeats, each rewrite of the rules
\* gets its verdict (optimizer.go, "a proposer failure degrades the run").
THEOREM RewritesGetVerdicts == Spec => []EveryRewriteJudged
<1>1. Init => Underway
  BY DEF Init, Underway, Early, Judged
<1>2. ASSUME Underway
      PROVE  EveryRewriteJudged
  <2>1. SUFFICES ASSUME Judged, NEW k \in DOMAIN RuleRewrites[query]
                 PROVE  Norm[RuleRewrites[query][k]] \in Decided
    BY DEF EveryRewriteJudged, Decided
  <2>2. pc \notin Early /\ pc \notin {"hash", "time"} /\ todo = <<>>
    BY <1>2, <2>1 DEF Underway, Judged, Early
  <2>3. Waiting = {} /\ Held = {}
    BY <2>2 DEF Waiting, Held
  <2> QED
    BY <1>2, <2>2, <2>3 DEF Underway, Owed
<1>3. Underway => EveryRewriteJudged
  BY <1>2
<1> QED
  BY <1>1, <1>3, UnderwayStep, InvariantCorrect, PTL DEF Spec

\* A set of natural numbers that is not empty has a least element.
LEMMA LeastNat ==
    ASSUME NEW T, T \subseteq Nat, T # {}
    PROVE  \E n \in T : \A m \in T : n <= m
<1>1. PICK n \in T : \A m \in T : <<m, n>> \notin OpToRel(<, Nat)
  BY NatLessThanWellFounded, WFMin
<1>2. \A m \in T : ~(m < n)
  BY <1>1 DEF OpToRel
<1> QED
  BY <1>2

\* b is the first of the accepted ones among the first n results with the largest gain,
\* or 0 if there is none.
FirstLargest(n, b) ==
    LET some == {i \in 1..n : results[i].reason = "accepted"} IN
    IF some = {} THEN b = 0
    ELSE /\ b \in some
         /\ \A i \in some : IF i < b THEN results[i].gain < results[b].gain
                                     ELSE results[i].gain <= results[b].gain

\* A turn of the loop, and what the loop makes of every prefix of the results.
Turn(n, b) == IF Replaces(n, b) THEN n ELSE b
IsLoop(f) == f = [n \in 0..Len(results) |-> IF n = 0 THEN 0 ELSE Turn(n, f[n - 1])]

LEMMA GainsAreInts ==
    ASSUME results \in Seq(Verdict)
    PROVE  Len(results) \in Nat /\ \A i \in 1..Len(results) : results[i].gain \in Int
<1>1. \A i \in 1..Len(results) : results[i] \in Verdict
  OBVIOUS
<1> QED
  BY <1>1 DEF Verdict

LEMMA TurnKeeps ==
    ASSUME results \in Seq(Verdict), NEW n \in 1..Len(results), NEW b, FirstLargest(n - 1, b)
    PROVE  FirstLargest(n, Turn(n, b))
<1> DEFINE some == {i \in 1..(n - 1) : results[i].reason = "accepted"}
           more == {i \in 1..n : results[i].reason = "accepted"}
<1>1. /\ Len(results) \in Nat /\ n \in Nat /\ 0 < n
      /\ \A i \in 1..n : results[i].gain \in Int
  BY GainsAreInts
<1>2. more = IF results[n].reason = "accepted" THEN some \cup {n} ELSE some
  BY <1>1
<1>3. /\ some = {} => b = 0
      /\ some # {} =>
            /\ b \in some
            /\ \A i \in some : IF i < b THEN results[i].gain < results[b].gain
                                        ELSE results[i].gain <= results[b].gain
  BY DEF FirstLargest
<1>4. \A i \in some : i \in 1..n /\ i < n /\ i # 0 /\ i \in Int
  BY <1>1
<1>5. n \in 1..n /\ (b \in some \/ b = 0)
  BY <1>1, <1>3
<1>6. SUFFICES
        /\ more = {} => Turn(n, b) = 0
        /\ more # {} =>
              /\ Turn(n, b) \in more
              /\ \A i \in more :
                    IF i < Turn(n, b) THEN results[i].gain < results[Turn(n, b)].gain
                                      ELSE results[i].gain <= results[Turn(n, b)].gain
  BY DEF FirstLargest
<1> HIDE DEF some, more
<1>7. CASE results[n].reason # "accepted"
  <2>1. Turn(n, b) = b /\ more = some
    BY <1>2, <1>7 DEF Turn, Replaces
  <2> QED
    BY <1>3, <2>1
<1>8. CASE results[n].reason = "accepted" /\ some = {}
  <2>1. Turn(n, b) = n /\ more = {n}
    BY <1>2, <1>3, <1>8 DEF Turn, Replaces
  <2> QED
    BY <1>1, <2>1
<1>9. CASE results[n].reason = "accepted" /\ some # {}
  <2>1. /\ b \in some /\ b # 0 /\ b < n /\ b \in Int /\ more = some \cup {n}
        /\ results[b].gain \in Int /\ results[n].gain \in Int
        /\ \A i \in some : results[i].gain \in Int /\ results[i].gain <= results[b].gain
    <3>1. \A i \in some : results[i].gain \in Int
      BY <1>1, <1>4
    <3>2. n \in 1..n
      BY <1>1
    <3> QED
      BY <1>1, <1>2, <1>3, <1>4, <1>9, <3>1, <3>2
  <2>2. CASE results[n].gain > results[b].gain
    <3>1. Turn(n, b) = n
      BY <1>9, <2>2 DEF Turn, Replaces
    <3>2. ASSUME NEW i \in some
          PROVE  results[i].gain < results[n].gain
      <4>1. /\ results[i].gain \in Int /\ results[i].gain <= results[b].gain
            /\ results[b].gain \in Int /\ results[n].gain \in Int
        BY <2>1
      <4> QED
        BY <2>2, <4>1
    <3> QED
      BY <1>1, <1>4, <2>1, <3>1, <3>2
  <2>3. CASE results[n].gain <= results[b].gain
    <3>1. Turn(n, b) = b
      BY <1>9, <2>1, <2>3 DEF Turn, Replaces
    <3> QED
      BY <1>1, <1>3, <1>9, <2>1, <2>3, <3>1
  <2> QED
    BY <2>1, <2>2, <2>3
<1> QED
  BY <1>7, <1>8, <1>9

LEMMA OneIsFirstLargest ==
    ASSUME results \in Seq(Verdict), NEW n \in 0..Len(results), NEW b, FirstLargest(n, b),
           NEW c, FirstLargest(n, c)
    PROVE  b = c
<1> DEFINE some == {i \in 1..n : results[i].reason = "accepted"}
<1>1. \A i \in some : i \in Int /\ results[i].gain \in Int
  BY GainsAreInts
<1>2. CASE some = {}
  BY <1>2 DEF FirstLargest
<1>3. CASE some # {}
  <2>1. /\ b \in some /\ c \in some
        /\ \A i \in some :
              /\ IF i < b THEN results[i].gain < results[b].gain
                          ELSE results[i].gain <= results[b].gain
              /\ IF i < c THEN results[i].gain < results[c].gain
                          ELSE results[i].gain <= results[c].gain
    BY <1>3 DEF FirstLargest
  <2> HIDE DEF some
  <2> QED
    BY <1>1, <2>1
<1> QED
  BY <1>2, <1>3

LEMMA NoneIsFirst == FirstLargest(0, 0)
BY DEF FirstLargest

\* What the loop has in hand after every turn, by the first turn after which it has not.
LEMMA LoopKeeps ==
    ASSUME results \in Seq(Verdict), NEW f, IsLoop(f)
    PROVE  \A n \in 0..Len(results) : FirstLargest(n, f[n])
<1> DEFINE T == {n \in 0..Len(results) : ~ FirstLargest(n, f[n])}
<1>1. SUFFICES ASSUME T # {}
               PROVE  FALSE
  OBVIOUS
<1>2. Len(results) \in Nat /\ T \subseteq Nat
  BY GainsAreInts
<1>3. PICK n \in T : \A m \in T : n <= m
  <2> HIDE DEF T
  <2> QED
    BY <1>1, <1>2, LeastNat
<1>4. n \in 0..Len(results) /\ ~ FirstLargest(n, f[n])
  BY <1>3
<1>5. f[n] = IF n = 0 THEN 0 ELSE Turn(n, f[n - 1])
  BY <1>4 DEF IsLoop
<1>6. n # 0
  BY <1>4, <1>5, NoneIsFirst
<1>7. n \in 1..Len(results) /\ n - 1 \in 0..Len(results) /\ ~(n <= n - 1)
  BY <1>2, <1>4, <1>6
<1>8. FirstLargest(n - 1, f[n - 1])
  BY <1>3, <1>7
<1> QED
  BY <1>4, <1>5, <1>6, <1>7, <1>8, TurnKeeps

\* After every turn there is something to have in hand.
LEMMA FirstLargestExists ==
    ASSUME results \in Seq(Verdict)
    PROVE  \A n \in 0..Len(results) : \E b : FirstLargest(n, b)
<1> DEFINE T == {n \in 0..Len(results) : \A b : ~ FirstLargest(n, b)}
<1>1. SUFFICES ASSUME T # {}
               PROVE  FALSE
  OBVIOUS
<1>2. Len(results) \in Nat /\ T \subseteq Nat
  BY GainsAreInts
<1>3. PICK n \in T : \A m \in T : n <= m
  <2> HIDE DEF T
  <2> QED
    BY <1>1, <1>2, LeastNat
<1>4. n \in 0..Len(results) /\ \A b : ~ FirstLargest(n, b)
  BY <1>3
<1>5. n # 0
  BY <1>4, NoneIsFirst
<1>6. n \in 1..Len(results) /\ n - 1 \in 0..Len(results) /\ ~(n <= n - 1)
  BY <1>2, <1>4, <1>5
<1>7. PICK b : FirstLargest(n - 1, b)
  BY <1>3, <1>6
<1> QED
  BY <1>4, <1>6, <1>7, TurnKeeps

\* So that the loop has a value: its turns give the one there is.
LEMMA LoopIsLoop ==
    ASSUME results \in Seq(Verdict)
    PROVE  IsLoop(BestOfFirst)
<1> DEFINE f == [n \in 0..Len(results) |-> CHOOSE b : FirstLargest(n, b)]
<1>1. \A n \in 0..Len(results) : FirstLargest(n, f[n])
  BY FirstLargestExists
<1>2. Len(results) \in Nat
  BY GainsAreInts
<1>3. ASSUME NEW n \in 0..Len(results)
      PROVE  f[n] = IF n = 0 THEN 0 ELSE Turn(n, f[n - 1])
  <2> HIDE DEF f
  <2>1. CASE n = 0
    BY <1>1, <2>1, NoneIsFirst, OneIsFirstLargest
  <2>2. CASE n # 0
    <3>1. n \in 1..Len(results) /\ n - 1 \in 0..Len(results)
      BY <1>2, <2>2
    <3>2. FirstLargest(n, Turn(n, f[n - 1]))
      BY <1>1, <3>1, TurnKeeps
    <3> QED
      BY <1>1, <2>2, <3>2, OneIsFirstLargest
  <2> QED
    BY <2>1, <2>2
<1>4. IsLoop(f)
  <2> DEFINE g == [n \in 0..Len(results) |-> IF n = 0 THEN 0 ELSE Turn(n, f[n - 1])]
  <2>1. \A n \in 0..Len(results) : f[n] = g[n]
    <3> HIDE DEF f
    <3> QED
      BY <1>3
  <2>2. f = g
    BY <2>1
  <2> QED
    BY <2>2 DEF IsLoop
<1> HIDE DEF f
<1>5. BestOfFirst = CHOOSE g : IsLoop(g)
  BY DEF BestOfFirst, IsLoop, Turn
<1> QED
  BY <1>4, <1>5

\* The report's best rewrite is the first of the accepted ones with the largest gain: the
\* loop keeps the first largest of what it has gone through (optimizer.go, rep.Best).
THEOREM BestGainsMost == Spec => []BestIsFastest
<1>1. Init => BestIsFastest
  BY DEF Init, BestIsFastest, Judged
<1>2. ASSUME IInv, ChooseBest
      PROVE  BestIsFastest'
  <2>1. /\ results \in Seq(Verdict) /\ results' = results
        /\ best' = BestOfFirst[Len(results)]
    BY <1>2 DEF IInv, Shape, ChooseBest
  <2>2. DOMAIN results = 1..Len(results) /\ Len(results) \in 0..Len(results)
    BY <2>1
  <2>3. FirstLargest(Len(results), best')
    BY <2>1, <2>2, LoopIsLoop, LoopKeeps
  <2>4. Accepted' = {i \in 1..Len(results) : results[i].reason = "accepted"}
    BY <2>1, <2>2 DEF Accepted
  <2> QED
    BY <2>1, <2>3, <2>4 DEF FirstLargest, BestIsFastest
<1>3. ASSUME BestIsFastest, [Next]_vars, ~ChooseBest
      PROVE  BestIsFastest'
  <2>1. CASE ~Judged'
    BY <2>1 DEF BestIsFastest
  <2>2. CASE Judged'
    <3>1. Judged /\ UNCHANGED <<results, best>>
      BY <1>3, <2>2
         DEF Next, Step, vars, Introspect, ExplainBaseline, Pass, MeasureBaseline, ChecksumBaseline,
             Propose, Fail, NextCandidate, ChecksumCandidate, MeasureCandidate, Conclude,
             BeginExperiment, CreateIndex, MeasureWithIndex, Rollback, EndExperiments, Write,
             Expire, candidates, Judged
    <3> QED
      BY <1>3, <3>1 DEF BestIsFastest, Accepted
  <2> QED
    BY <2>1, <2>2
<1>4. IInv /\ BestIsFastest /\ [Next]_vars => BestIsFastest'
  BY <1>2, <1>3
<1> QED
  BY <1>1, <1>4, InvariantCorrect, PTL DEF Spec
--------------------------------------------------------------------------------
(* The types of the candidates. *)

VerdictSeen == [sql : Texts, reason : Reasons, gain : Int, at : 0..MaxWrites]

\* What Shape leaves open of the candidates.
CandidateTypes ==
    /\ expired \in BOOLEAN /\ data \in 0..MaxWrites
    /\ base.m \in Measurements \cup {NoMeasurement} /\ base.at \in 0..MaxWrites
    /\ seen \subseteq {Norm[c] : c \in Texts}
    /\ hand \in [sql : Texts \cup {NoText}, at : 0..MaxWrites]
    /\ results \in Seq(VerdictSeen)
    /\ ~ Judged => best = 0

LEMMA CandidateTypesStep == IInv /\ CandidateTypes /\ [Next]_vars => CandidateTypes'
<1> SUFFICES ASSUME IInv, CandidateTypes, [Next]_vars
             PROVE  CandidateTypes'
  OBVIOUS
<1>1. query \in Texts /\ todo \in Seq(Texts) /\ base = [m |-> base.m, hash |-> base.hash, at |-> base.at]
  BY TextsAssumption DEF IInv, Shape
<1>2. CASE UNCHANGED vars
  BY <1>2 DEF vars, CandidateTypes, Judged
<1>3. CASE Introspect \/ ExplainBaseline \/ MeasureBaseline \/ ChecksumBaseline
  <2>1. UNCHANGED <<expired, data, seen, hand, results, best>> /\ ~ Judged
    BY <1>3 DEF Introspect, ExplainBaseline, Pass, MeasureBaseline, ChecksumBaseline, Fail,
                environment, candidates, Judged
  <2>2. base'.m \in Measurements \cup {NoMeasurement} /\ base'.at \in 0..MaxWrites
    BY <1>1, <1>3 DEF Introspect, ExplainBaseline, Pass, MeasureBaseline, ChecksumBaseline, Fail,
                CandidateTypes
  <2> QED
    BY <2>1, <2>2 DEF CandidateTypes
<1>4. CASE Propose
  BY <1>1, <1>4 DEF Propose, environment, CandidateTypes, Judged
<1>5. CASE NextCandidate
  <2> DEFINE c == Head(todo)
             v == Result(c, Objection(c), 0, data)
  <2>1. c \in Texts /\ pc = "next" /\ UNCHANGED <<expired, data, base, best>>
        /\ seen' = seen \cup {Norm[c]}
    BY <1>1, <1>5 DEF NextCandidate, Remembered, environment
  <2>2. Objection(c) # "none" => v \in VerdictSeen
    BY <2>1, ObjectionReasons DEF Result, VerdictSeen, CandidateTypes
  <2>3. hand' \in [sql : Texts \cup {NoText}, at : 0..MaxWrites]
    BY <1>5, <2>1 DEF NextCandidate, CandidateTypes
  <2> HIDE DEF v
  <2>4. results' = results \/ (results' = Append(results, v) /\ Objection(c) # "none")
    BY <1>5 DEF NextCandidate, v
  <2>5. results' \in Seq(VerdictSeen)
    BY <2>2, <2>4 DEF CandidateTypes
  <2> QED
    BY <2>1, <2>3, <2>5 DEF CandidateTypes, Judged
<1>6. ASSUME NEW reason \in RanReasons, NEW gain \in Int, NEW at \in 0..MaxWrites,
             Conclude(reason, gain, at),
             pc \in {"hash", "time"}
      PROVE  CandidateTypes'
  <2> DEFINE v == Result(hand.sql, reason, gain, at)
  <2>1. UNCHANGED <<expired, data, base, seen, best>> /\ hand' = NoHand /\ ~ Judged
    BY <1>6 DEF Conclude, environment, Judged
  <2>2. hand.sql \in Texts
    BY <1>6 DEF IInv, InHand
  <2>3. v \in VerdictSeen
    BY <1>6, <2>2 DEF Result, VerdictSeen, RanReasons, Reasons
  <2>4. hand' \in [sql : Texts \cup {NoText}, at : 0..MaxWrites]
    BY <2>1, BoundsAssumption DEF NoHand
  <2> HIDE DEF v
  <2>5. results' = Append(results, v)
    BY <1>6 DEF Conclude, v
  <2>6. results' \in Seq(VerdictSeen)
    BY <2>3, <2>5 DEF CandidateTypes
  <2> QED
    BY <2>1, <2>4, <2>6 DEF CandidateTypes
<1>7. CASE ChecksumCandidate
  <2>1. pc = "hash" /\ data \in 0..MaxWrites
    BY <1>7 DEF ChecksumCandidate, CandidateTypes
  <2>2. CASE Conclude("failed", 0, data) \/ Conclude("results_differ", 0, data)
    BY <1>6, <2>1, <2>2 DEF RanReasons
  <2>3. CASE /\ hand' = [hand EXCEPT !.at = data] /\ pc' = "time"
             /\ UNCHANGED <<environment, base, todo, seen, results, best, indexing>>
    BY <2>1, <2>3 DEF CandidateTypes, Judged, environment
  <2> QED
    BY <1>7, <2>2, <2>3 DEF ChecksumCandidate
<1>8. CASE MeasureCandidate
  <2>1. pc = "time" /\ Proper(base.m) /\ hand.at \in 0..MaxWrites
    BY <1>8, MeasurementsAssumption DEF MeasureCandidate, IInv, Shape, Measuring, CandidateTypes
  <2>2. ASSUME NEW reason \in {"failed", "timed_out"}, Conclude(reason, 0, hand.at)
        PROVE  CandidateTypes'
    BY <1>6, <2>1, <2>2 DEF RanReasons
  <2>3. ASSUME NEW m \in Measurements,
               Conclude(IF IsFaster(base.m, m, MinImprovementPct) THEN "accepted" ELSE "not_faster",
                        Gain(base.m, m), hand.at)
        PROVE  CandidateTypes'
    <3>1. Gain(base.m, m) \in Int
      BY <2>1, MeasurementsAssumption, GainIsInt
    <3> QED
      BY <1>6, <2>1, <2>3, <3>1 DEF RanReasons
  <2> QED
    BY <1>8, <2>2, <2>3 DEF MeasureCandidate
<1>9. CASE \/ ChooseBest \/ BeginExperiment \/ CreateIndex \/ MeasureWithIndex
           \/ Rollback \/ EndExperiments
  <2>1. UNCHANGED <<expired, data, base, seen, hand, results>> /\ Judged'
    BY <1>9 DEF ChooseBest, BeginExperiment, CreateIndex, MeasureWithIndex, Rollback,
                EndExperiments, environment, candidates, Judged
  <2> QED
    BY <2>1 DEF CandidateTypes
<1>10. CASE Write \/ Expire
  <2>1. UNCHANGED <<pc, base, seen, hand, results, best>>
    BY <1>10 DEF Write, Expire, candidates
  <2>2. data' \in 0..MaxWrites /\ expired' \in BOOLEAN
    <3>1. data \in 0..MaxWrites /\ expired \in BOOLEAN /\ MaxWrites \in Nat
      BY BoundsAssumption DEF CandidateTypes
    <3>2. CASE Write
      <4>1. data < MaxWrites /\ data' = data + 1 /\ expired' = expired
        BY <3>2 DEF Write
      <4> QED
        BY <3>1, <4>1
    <3>3. CASE Expire
      BY <3>1, <3>3 DEF Expire
    <3> QED
      BY <1>10, <3>2, <3>3
  <2> QED
    BY <2>1, <2>2 DEF CandidateTypes, Judged
<1> QED
  BY <1>2, <1>3, <1>4, <1>5, <1>7, <1>8, <1>9, <1>10 DEF Next, Step

LEMMA CandidateTypesAlways == Spec => []CandidateTypes
<1>1. Init => CandidateTypes
  <2> SUFFICES ASSUME Init
               PROVE  CandidateTypes
    OBVIOUS
  <2>1. results \in Seq(VerdictSeen)
    BY DEF Init
  <2>2. 0 \in 0..MaxWrites
    BY BoundsAssumption
  <2> QED
    BY <2>1, <2>2 DEF Init, CandidateTypes, NoHand, Judged
<1> QED
  BY <1>1, CandidateTypesStep, InvariantCorrect, PTL DEF Spec

--------------------------------------------------------------------------------
(* What a checksum tells apart. *)

IsResult(rows) ==
    /\ Len(rows) \in Nat /\ rows = [i \in 1..Len(rows) |-> rows[i]]
    /\ \A i \in DOMAIN rows :
          /\ rows[i] = [k \in DOMAIN rows[i] |-> rows[i][k]]
          /\ \A k \in DOMAIN rows[i] : rows[i][k] # Absent

\* Two rows are written alike only if they are one: no value is the sentinel.
LEMMA CodeTells ==
    ASSUME NEW r, r = [k \in DOMAIN r |-> r[k]], \A k \in DOMAIN r : r[k] # Absent,
           NEW s, s = [k \in DOMAIN s |-> s[k]], \A k \in DOMAIN s : s[k] # Absent
    PROVE  Code(r) = Code(s) <=> r = s
<1>1. ASSUME Code(r) = Code(s)
      PROVE  r = s
  <2>1. DOMAIN r = DOMAIN s
    <3>1. DOMAIN Code(r) = DOMAIN r /\ DOMAIN Code(s) = DOMAIN s
      BY DEF Code
    <3> QED
      BY <1>1, <3>1
  <2>2. ASSUME NEW k \in DOMAIN r
        PROVE  r[k] = s[k]
    <3>1. /\ Code(r)[k] = (IF r[k] = Null THEN Absent ELSE r[k])
          /\ Code(s)[k] = (IF s[k] = Null THEN Absent ELSE s[k])
          /\ r[k] # Absent /\ s[k] # Absent
      BY <2>1 DEF Code
    <3> QED
      BY <1>1, <3>1
  <2> QED
    BY <2>1, <2>2
<1> QED
  BY <1>1

Places(x, c) == {i \in DOMAIN x : x[i] = c}

LEMMA PlacesAreFinite ==
    ASSUME NEW n \in Nat, NEW x, DOMAIN x = 1..n, NEW c
    PROVE  IsFiniteSet(Places(x, c)) /\ Count(x, c) = Cardinality(Places(x, c))
<1>1. IsFiniteSet(1..n)
  BY FS_Interval
<1>2. Places(x, c) \in SUBSET (1..n)
  BY DEF Places
<1>3. IsFiniteSet(Places(x, c))
  BY <1>1, <1>2, FS_Subset
<1>4. Count(x, c) = Cardinality(Places(x, c))
  BY DEF Count, Places
<1> QED
  BY <1>3, <1>4

\* f takes the places of x to places of y with the same element, no two to one.
Matches(f, x, y) ==
    /\ f \in [DOMAIN x -> DOMAIN y]
    /\ \A i, j \in DOMAIN x : f[i] = f[j] => i = j
    /\ \A i \in DOMAIN x : y[f[i]] = x[i]

\* Of one bag are sequences that match place by place.
LEMMA OneBagMatches ==
    ASSUME NEW n \in Nat, NEW x, DOMAIN x = 1..n, NEW y, DOMAIN y = 1..n, Bag(x) = Bag(y)
    PROVE  \E f : Matches(f, x, y)
<1> DEFINE R == {x[i] : i \in DOMAIN x}
           g == [c \in R |-> CHOOSE h : h \in Bijection(Places(x, c), Places(y, c))]
           f == [i \in DOMAIN x |-> g[x[i]][i]]
<1>1. R = {y[i] : i \in DOMAIN y} /\ \A c \in R : Count(x, c) = Count(y, c)
  <2>1. DOMAIN Bag(x) = R /\ DOMAIN Bag(y) = {y[i] : i \in DOMAIN y}
    BY DEF Bag
  <2>2. R = {y[i] : i \in DOMAIN y}
    BY <2>1
  <2>3. ASSUME NEW c \in R
        PROVE  Bag(x)[c] = Count(x, c) /\ Bag(y)[c] = Count(y, c)
    BY <2>2 DEF Bag
  <2> QED
    BY <2>2, <2>3
<1>2. ASSUME NEW c \in R
      PROVE  g[c] \in Bijection(Places(x, c), Places(y, c))
  <2>1. /\ IsFiniteSet(Places(x, c)) /\ IsFiniteSet(Places(y, c))
        /\ Cardinality(Places(x, c)) = Cardinality(Places(y, c))
    BY <1>1, <1>2, PlacesAreFinite
  <2>2. \E h : h \in Bijection(Places(x, c), Places(y, c))
    BY <2>1, FS_SameCardinalityBij DEF ExistsBijection
  <2> QED
    BY <1>2, <2>2
<1> HIDE DEF g
<1>3. ASSUME NEW c \in R, NEW i \in Places(x, c)
      PROVE  /\ g[c][i] \in DOMAIN y /\ y[g[c][i]] = c
             /\ \A j \in Places(x, c) : g[c][i] = g[c][j] => i = j
  <2>1. /\ g[c] \in [Places(x, c) -> Places(y, c)]
        /\ \A j \in Places(x, c) : g[c][i] = g[c][j] => i = j
    BY <1>2, Fun_BijectionProperties
  <2> QED
    BY <2>1 DEF Places
<1>4. ASSUME NEW i \in DOMAIN x
      PROVE  /\ f[i] \in DOMAIN y /\ y[f[i]] = x[i]
             /\ \A j \in DOMAIN x : x[j] = x[i] /\ f[i] = f[j] => i = j
  <2>1. x[i] \in R /\ i \in Places(x, x[i]) /\ f[i] = g[x[i]][i]
    BY DEF Places
  <2>2. /\ g[x[i]][i] \in DOMAIN y /\ y[g[x[i]][i]] = x[i]
        /\ \A j \in Places(x, x[i]) : g[x[i]][i] = g[x[i]][j] => i = j
    BY <1>3, <2>1
  <2>3. ASSUME NEW j \in DOMAIN x, x[j] = x[i]
        PROVE  j \in Places(x, x[i]) /\ f[j] = g[x[i]][j]
    BY <2>3 DEF Places
  <2> HIDE DEF f
  <2> QED
    BY <2>1, <2>2, <2>3
<1>5. f \in [DOMAIN x -> DOMAIN y]
  <2>1. \A i \in DOMAIN x : f[i] \in DOMAIN y
    BY <1>4
  <2> HIDE DEF R
  <2> QED
    BY <2>1
<1> HIDE DEF f
<1>6. \A i, j \in DOMAIN x : f[i] = f[j] => x[i] = x[j]
  BY <1>4
<1>7. \A i, j \in DOMAIN x : f[i] = f[j] => i = j
  BY <1>4, <1>6
<1> QED
  BY <1>4, <1>5, <1>7 DEF Matches

\* And sequences that match are of one bag.
LEMMA MatchesOneBag ==
    ASSUME NEW n \in Nat, NEW x, DOMAIN x = 1..n, NEW y, DOMAIN y = 1..n,
           NEW f, Matches(f, x, y)
    PROVE  Bag(x) = Bag(y)
<1>1. /\ f \in [1..n -> 1..n] /\ \A i, j \in 1..n : f[i] = f[j] => i = j
      /\ \A i \in 1..n : y[f[i]] = x[i]
  BY DEF Matches
<1>2. \A j \in 1..n : \E i \in 1..n : f[i] = j
  <2>1. IsFiniteSet(1..n)
    BY FS_Interval
  <2>2. f \in Injection(1..n, 1..n)
    BY <1>1, Fun_IsInj
  <2>3. f \in Surjection(1..n, 1..n)
    <3>1. ASSUME NEW S, NEW T, NEW g \in Injection(S, T), IsFiniteSet(T),
                 Cardinality(S) = Cardinality(T)
          PROVE  g \in Surjection(S, T)
      BY <3>1, FS_Injection
    <3> QED
      BY <2>1, <2>2, <3>1
  <2> QED
    BY <2>3 DEF Surjection
<1>3. {x[i] : i \in 1..n} = {y[i] : i \in 1..n}
  <2>1. ASSUME NEW i \in 1..n
        PROVE  x[i] \in {y[j] : j \in 1..n}
    <3>1. f[i] \in 1..n /\ y[f[i]] = x[i]
      BY <1>1
    <3> QED
      BY <3>1
  <2>2. ASSUME NEW j \in 1..n
        PROVE  y[j] \in {x[i] : i \in 1..n}
    <3>1. PICK i \in 1..n : f[i] = j
      BY <1>2
    <3>2. y[j] = x[i]
      BY <1>1, <3>1
    <3> QED
      BY <3>2
  <2> QED
    BY <2>1, <2>2
<1>4. ASSUME NEW c
      PROVE  Count(x, c) = Count(y, c)
  <2> DEFINE X == Places(x, c)
             Y == Places(y, c)
             h == [i \in X |-> f[i]]
  <2>1. \A i : (i \in X <=> i \in 1..n /\ x[i] = c) /\ (i \in Y <=> i \in 1..n /\ y[i] = c)
    BY DEF Places
  <2> HIDE DEF X, Y
  <2>2. h \in [X -> Y] /\ \A i, j \in X : h[i] = h[j] => i = j
    BY <1>1, <2>1
  <2>3. \A j \in Y : \E i \in X : h[i] = j
    BY <1>1, <1>2, <2>1
  <2> HIDE DEF h
  <2>4. h \in Bijection(X, Y)
    BY <2>2, <2>3, Fun_IsBij
  <2>5. ExistsBijection(X, Y)
    BY <2>4 DEF ExistsBijection
  <2>6. IsFiniteSet(X) /\ Count(x, c) = Cardinality(X) /\ Count(y, c) = Cardinality(Y)
    BY PlacesAreFinite DEF X, Y
  <2> QED
    BY <2>5, <2>6, FS_Bijection
<1> QED
  BY <1>3, <1>4 DEF Bag

\* Two results hash alike exactly if they have the same rows, in the same order when the
\* original promises one.
LEMMA HashTells ==
    ASSUME NEW o, IsResult(o), NEW p, IsResult(p)
    PROVE  Hash(o, query \in HasOrderBy) = Hash(p, query \in HasOrderBy) <=> SameRows(o, p)
<1> DEFINE x == [i \in DOMAIN o |-> Code(o[i])]
           y == [i \in DOMAIN p |-> Code(p[i])]
<1>1. /\ Len(o) \in Nat /\ DOMAIN o = 1..Len(o) /\ o = [i \in 1..Len(o) |-> o[i]]
      /\ Len(p) \in Nat /\ DOMAIN p = 1..Len(p) /\ p = [i \in 1..Len(p) |-> p[i]]
  BY DEF IsResult
<1>2. \A i \in DOMAIN o, j \in DOMAIN p : x[i] = y[j] <=> o[i] = p[j]
  BY CodeTells DEF IsResult
<1>3. DOMAIN x = DOMAIN o /\ DOMAIN y = DOMAIN p
  OBVIOUS
<1>4. CASE query \in HasOrderBy
  <2>1. /\ Hash(o, query \in HasOrderBy) = [count |-> Len(o), digest |-> x]
        /\ Hash(p, query \in HasOrderBy) = [count |-> Len(p), digest |-> y]
    BY <1>4 DEF Hash
  <2> HIDE DEF x, y
  <2>2. Hash(o, query \in HasOrderBy) = Hash(p, query \in HasOrderBy) <=> Len(o) = Len(p) /\ x = y
    BY <2>1
  <2>3. ASSUME Len(o) = Len(p), x = y
        PROVE  o = p
    <3>1. \A i \in 1..Len(o) : o[i] = p[i]
      BY <1>1, <1>2, <2>3
    <3> QED
      BY <1>1, <2>3, <3>1
  <2>4. ASSUME o = p
        PROVE  Len(o) = Len(p) /\ x = y
    BY <2>4 DEF x, y
  <2> QED
    BY <1>4, <2>2, <2>3, <2>4 DEF SameRows
<1>5. CASE query \notin HasOrderBy
  <2>1. /\ Hash(o, query \in HasOrderBy) = [count |-> Len(o), digest |-> Bag(x)]
        /\ Hash(p, query \in HasOrderBy) = [count |-> Len(p), digest |-> Bag(y)]
    BY <1>5 DEF Hash
  <2> HIDE DEF x, y
  <2>2. Hash(o, query \in HasOrderBy) = Hash(p, query \in HasOrderBy) <=>
            Len(o) = Len(p) /\ Bag(x) = Bag(y)
    BY <2>1
  <2>3. \A f : Matches(f, x, y) <=>
            /\ f \in [DOMAIN o -> DOMAIN p]
            /\ \A i, j \in DOMAIN o : f[i] = f[j] => i = j
            /\ \A i \in DOMAIN o : p[f[i]] = o[i]
    BY <1>2, <1>3 DEF Matches
  <2>4. SameRows(o, p) <=> Len(o) = Len(p) /\ \E f : Matches(f, x, y)
    BY <1>5, <2>3 DEF SameRows
  <2>5. ASSUME Len(o) = Len(p)
        PROVE  Bag(x) = Bag(y) <=> \E f : Matches(f, x, y)
    <3>1. DOMAIN x = 1..Len(o) /\ DOMAIN y = 1..Len(o)
      BY <1>1, <1>3, <2>5
    <3>2. ASSUME Bag(x) = Bag(y)
          PROVE  \E f : Matches(f, x, y)
      BY <1>1, <3>1, <3>2, OneBagMatches
    <3>3. ASSUME NEW f, Matches(f, x, y)
          PROVE  Bag(x) = Bag(y)
      BY <1>1, <3>1, <3>3, MatchesOneBag
    <3> QED
      BY <3>2, <3>3
  <2> QED
    BY <2>2, <2>4, <2>5
<1> QED
  BY <1>4, <1>5

\* The checksums a text may have on a version of the data.
HashesAt(c, v) == {Hash(rows, query \in HasOrderBy) : rows \in Outputs[c][v]}

\* What has been compared, and on which data.
Compared ==
    /\ pc \notin Measuring \cup {"checksum"} => base.hash \in HashesAt(query, base.at)
    /\ pc = "time" => base.hash \in HashesAt(hand.sql, hand.at)
    /\ \A i \in DOMAIN results :
          /\ results[i].reason = "accepted" =>
                base.hash \in HashesAt(results[i].sql, results[i].at)
          /\ results[i].reason = "results_differ" =>
                \E h \in HashesAt(results[i].sql, results[i].at) : h # base.hash

\* A verdict that is backed by its comparison keeps the invariant.
LEMMA ComparedVerdict ==
    ASSUME Compared, results \in Seq(Verdict), NEW v, results' = Append(results, v),
           query' = query, base' = base, pc' = "next", pc \notin Early,
           v.reason = "accepted" => base.hash \in HashesAt(v.sql, v.at),
           v.reason = "results_differ" => \E h \in HashesAt(v.sql, v.at) : h # base.hash
    PROVE  Compared'
<1>1. /\ DOMAIN results' = 1..Len(results) + 1 /\ DOMAIN results = 1..Len(results)
      /\ Len(results) \in Nat /\ results'[Len(results) + 1] = v
      /\ \A i \in 1..Len(results) : results'[i] = results[i]
  OBVIOUS
<1>2. \A i \in DOMAIN results' : i \in DOMAIN results \/ i = Len(results) + 1
  BY <1>1
<1>3. \A c, d : HashesAt(c, d)' = HashesAt(c, d)
  BY DEF HashesAt
<1>4. pc \notin Measuring \cup {"checksum"}
  BY DEF Measuring, Early
<1> QED
  BY <1>1, <1>2, <1>3, <1>4 DEF Compared

LEMMA ComparedStep == IInv /\ Compared /\ [Next]_vars => Compared'
<1> SUFFICES ASSUME IInv, Compared, [Next]_vars
             PROVE  Compared'
  OBVIOUS
<1>1. /\ results \in Seq(Verdict) /\ base = [m |-> base.m, hash |-> base.hash, at |-> base.at]
      /\ hand = [sql |-> hand.sql, at |-> hand.at] /\ (pc \in Early => results = <<>>)
  BY DEF IInv, Shape
<1>2. query' = query /\ \A c, v : HashesAt(c, v)' = HashesAt(c, v)
  <2>1. query' = query
    BY DEF Next, Step, vars, Introspect, ExplainBaseline, Pass, MeasureBaseline, ChecksumBaseline,
           Propose, Fail, NextCandidate, ChecksumCandidate, MeasureCandidate, Conclude,
           ChooseBest, BeginExperiment, CreateIndex, MeasureWithIndex, Rollback,
           EndExperiments, Write, Expire, environment
  <2> QED
    BY <2>1 DEF HashesAt
<1>3. ASSUME NEW c
      PROVE  Checksums(c) = HashesAt(c, data)
  BY DEF Checksums, HashesAt
<1>4. CASE Introspect \/ ExplainBaseline \/ MeasureBaseline
  <2>1. /\ results' = results /\ data' = data /\ pc' \in Measuring \cup {"checksum"}
        /\ pc \in Early
    BY <1>4 DEF Introspect, ExplainBaseline, Pass, MeasureBaseline, Fail, environment, candidates,
                Measuring, Early
  <2>2. results' = <<>>
    BY <1>1, <2>1
  <2> QED
    BY <2>1, <2>2 DEF Compared, Measuring
<1>5. CASE ChecksumBaseline
  <2>1. results' = <<>> /\ data' = data
    BY <1>1, <1>5 DEF ChecksumBaseline, Fail, environment, candidates, Early
  <2>2. CASE pc' = "error"
    BY <2>1, <2>2 DEF Compared, Measuring
  <2>3. ASSUME NEW h \in Checksums(query), base' = [m |-> base.m, hash |-> h, at |-> data], pc' = "propose"
        PROVE  Compared'
    <3>1. base'.hash = h /\ base'.at = data
      BY <2>3
    <3> QED
      BY <1>2, <1>3, <2>1, <2>3, <3>1 DEF Compared
  <2> QED
    BY <1>5, <2>2, <2>3 DEF ChecksumBaseline, Fail
<1>6. CASE Propose
  <2>1. results' = results /\ data' = data /\ base' = base /\ pc = "propose" /\ pc' = "next"
    BY <1>6 DEF Propose, environment
  <2> QED
    BY <1>2, <2>1 DEF Compared, Measuring
<1>7. CASE NextCandidate
  <2>1. data' = data /\ base' = base /\ pc = "next" /\ pc' \in {"next", "hash"}
    BY <1>7 DEF NextCandidate, environment
  <2>2. CASE results' = results
    BY <1>2, <2>1, <2>2 DEF Compared, Measuring
  <2>3. CASE /\ results' = Append(results, Result(Head(todo), Objection(Head(todo)), 0, data))
             /\ pc' = pc
    <3> DEFINE v == Result(Head(todo), Objection(Head(todo)), 0, data)
    <3>1. v.reason \notin {"accepted", "results_differ"}
      BY DEF Result, Objection
    <3>2. pc \notin Early
      BY <2>1 DEF Early
    <3> HIDE DEF v
    <3>3. results' = Append(results, v)
      BY <2>3 DEF v
    <3> QED
      BY <1>1, <1>2, <2>1, <2>3, <3>1, <3>2, <3>3, ComparedVerdict
  <2> QED
    BY <1>7, <2>2, <2>3 DEF NextCandidate
<1>8. ASSUME NEW reason, NEW gain, NEW at, Conclude(reason, gain, at), pc \in {"hash", "time"},
             reason = "accepted" => base.hash \in HashesAt(hand.sql, at),
             reason = "results_differ" => \E h \in HashesAt(hand.sql, at) : h # base.hash
      PROVE  Compared'
  <2> DEFINE v == Result(hand.sql, reason, gain, at)
  <2>1. v.reason = reason /\ v.sql = hand.sql /\ v.at = at
    BY DEF Result
  <2>2. results' = Append(results, v) /\ data' = data /\ base' = base /\ pc' = "next"
    BY <1>8 DEF Conclude, environment
  <2>3. pc \notin Early
    BY <1>8 DEF Early
  <2> HIDE DEF v
  <2> QED
    BY <1>1, <1>2, <1>8, <2>1, <2>2, <2>3, ComparedVerdict
<1>9. CASE ChecksumCandidate
  <2>1. pc = "hash"
    BY <1>9 DEF ChecksumCandidate
  <2>2. CASE Conclude("failed", 0, data)
    BY <1>8, <2>1, <2>2
  <2>3. CASE (\E h \in Checksums(hand.sql) : h # base.hash) /\ Conclude("results_differ", 0, data)
    BY <1>3, <1>8, <2>1, <2>3
  <2>4. CASE /\ base.hash \in Checksums(hand.sql) /\ hand' = [hand EXCEPT !.at = data]
             /\ pc' = "time" /\ UNCHANGED <<environment, base, results>>
    <3>1. hand'.sql = hand.sql /\ hand'.at = data
      BY <1>1, <2>4
    <3>2. data' = data /\ base' = base /\ results' = results
      BY <2>4 DEF environment
    <3> QED
      BY <1>2, <1>3, <2>1, <2>4, <3>1, <3>2 DEF Compared, Measuring
  <2> QED
    BY <1>9, <2>2, <2>3, <2>4 DEF ChecksumCandidate
<1>10. CASE MeasureCandidate
  <2>1. pc = "time" /\ base.hash \in HashesAt(hand.sql, hand.at)
    BY <1>10 DEF MeasureCandidate, Compared
  <2>2. \E reason, gain : reason # "results_differ" /\ Conclude(reason, gain, hand.at)
    <3>1. \A m : (IF IsFaster(base.m, m, MinImprovementPct) THEN "accepted" ELSE "not_faster")
                    # "results_differ"
      OBVIOUS
    <3> QED
      BY <1>10, <3>1 DEF MeasureCandidate
  <2> QED
    BY <1>8, <2>1, <2>2
<1>11. CASE \/ ChooseBest \/ BeginExperiment \/ CreateIndex \/ MeasureWithIndex \/ Rollback
            \/ EndExperiments
  <2>1. /\ results' = results /\ data' = data /\ base' = base
        /\ pc \in {"next", "experiment", "create", "trial", "rollback"} /\ pc' # "time"
    BY <1>11 DEF ChooseBest, BeginExperiment, CreateIndex, MeasureWithIndex, Rollback,
                 EndExperiments, environment, candidates
  <2> QED
    BY <1>2, <2>1 DEF Compared, Measuring
<1>12. CASE Write \/ Expire \/ UNCHANGED vars
  <2>1. results' = results /\ base' = base /\ pc' = pc /\ hand' = hand
    BY <1>12 DEF Write, Expire, vars, candidates
  <2> QED
    BY <1>2, <2>1 DEF Compared
<1> QED
  BY <1>4, <1>5, <1>6, <1>7, <1>9, <1>10, <1>11, <1>12 DEF Next, Step

LEMMA ComparedAlways == Spec => []Compared
<1>1. Init => Compared
  BY DEF Init, Compared, Measuring
<1> QED
  BY <1>1, ComparedStep, InvariantCorrect, PTL DEF Spec

LEMMA RowsAreResults ==
    ASSUME NEW c \in Texts, NEW v \in 0..MaxWrites, NEW rows \in Outputs[c][v]
    PROVE  IsResult(rows)
BY RowsAssumption DEF IsResult

\* A text that was judged, and the versions it and the original were compared on.
LEMMA ComparedAreKnown ==
    ASSUME IInv, CandidateTypes, NEW i \in DOMAIN results
    PROVE  /\ query \in Texts /\ results[i].sql \in Texts
           /\ base.at \in 0..MaxWrites /\ results[i].at \in 0..MaxWrites
           /\ pc \notin Measuring \cup {"checksum"}
<1>1. query \in Queries /\ results \in Seq(VerdictSeen) /\ base.at \in 0..MaxWrites
  BY DEF IInv, Shape, CandidateTypes
<1>2. results[i] \in VerdictSeen
  BY <1>1
<1>3. pc \notin Measuring \cup {"checksum"}
  BY DEF IInv, Shape, Measuring, Early
<1> QED
  BY <1>1, <1>2, <1>3, TextsAssumption DEF VerdictSeen

\* An accepted rewrite has an execution, on the data it was compared on, that returns what
\* an execution of the original does on the data of the baseline, whatever other clients
\* write (verify.go, gate 4).
THEOREM AcceptedIsEquivalent == Spec => []AcceptedMatchesOriginal
<1>1. IInv /\ CandidateTypes /\ Compared => AcceptedMatchesOriginal
  <2> SUFFICES ASSUME IInv, CandidateTypes, Compared, NEW i \in Accepted
               PROVE  \E o \in Outputs[query][base.at],
                         p \in Outputs[results[i].sql][results[i].at] : SameRows(o, p)
    BY DEF AcceptedMatchesOriginal
  <2>1. i \in DOMAIN results /\ results[i].reason = "accepted"
    BY DEF Accepted
  <2>2. /\ query \in Texts /\ results[i].sql \in Texts
        /\ base.at \in 0..MaxWrites /\ results[i].at \in 0..MaxWrites
        /\ pc \notin Measuring \cup {"checksum"}
    BY <2>1, ComparedAreKnown
  <2>3. /\ base.hash \in HashesAt(query, base.at)
        /\ base.hash \in HashesAt(results[i].sql, results[i].at)
    BY <2>1, <2>2 DEF Compared
  <2>4. PICK o \in Outputs[query][base.at] : base.hash = Hash(o, query \in HasOrderBy)
    BY <2>3 DEF HashesAt
  <2>5. PICK p \in Outputs[results[i].sql][results[i].at] :
               base.hash = Hash(p, query \in HasOrderBy)
    BY <2>3 DEF HashesAt
  <2>6. SameRows(o, p)
    BY <2>2, <2>4, <2>5, RowsAreResults, HashTells
  <2> QED
    BY <2>6
<1> QED
  BY <1>1, ComparedAlways, CandidateTypesAlways, InvariantCorrect, PTL

\* A rewrite is only refused for its results if some execution of it, on the data it was
\* compared on, does return other rows than the original on the data of the baseline
\* (postgres.go, Checksum).
THEOREM RefusedDiffers == Spec => []EquivalentNotRefused
<1>1. IInv /\ CandidateTypes /\ Compared => EquivalentNotRefused
  <2> SUFFICES ASSUME IInv, CandidateTypes, Compared, NEW i \in DOMAIN results,
                      results[i].reason = "results_differ"
               PROVE  \E o \in Outputs[query][base.at],
                         p \in Outputs[results[i].sql][results[i].at] : ~ SameRows(o, p)
    BY DEF EquivalentNotRefused
  <2>1. /\ query \in Texts /\ results[i].sql \in Texts
        /\ base.at \in 0..MaxWrites /\ results[i].at \in 0..MaxWrites
        /\ pc \notin Measuring \cup {"checksum"}
    BY ComparedAreKnown
  <2>2. /\ base.hash \in HashesAt(query, base.at)
        /\ \E h \in HashesAt(results[i].sql, results[i].at) : h # base.hash
    BY <2>1 DEF Compared
  <2>3. PICK o \in Outputs[query][base.at] : base.hash = Hash(o, query \in HasOrderBy)
    BY <2>2 DEF HashesAt
  <2>4. PICK p \in Outputs[results[i].sql][results[i].at] :
               base.hash # Hash(p, query \in HasOrderBy)
    BY <2>2 DEF HashesAt
  <2>5. ~ SameRows(o, p)
    BY <2>1, <2>3, <2>4, RowsAreResults, HashTells
  <2> QED
    BY <2>5
<1> QED
  BY <1>1, ComparedAlways, CandidateTypesAlways, InvariantCorrect, PTL

--------------------------------------------------------------------------------
(* The types. *)

Outcome == [ddl : Indexes, measured : BOOLEAN, gain : Int, recommended : BOOLEAN]

\* The types of the experiments; each is of a suggestion, which is why one must have begun.
ExperimentTypes ==
    /\ trial \in [measured : BOOLEAN, gain : Int]
    /\ experiments \in Seq(Outcome)
    /\ session \in [tx : {"none", "rw"}, index : {"none", "uncommitted"}]

LEMMA ExperimentTypesStep ==
    IInv /\ Account /\ ExperimentTypes /\ [Next]_vars => ExperimentTypes'
<1> SUFFICES ASSUME IInv, Account, ExperimentTypes, [Next]_vars
             PROVE  ExperimentTypes'
  OBVIOUS
<1>1. /\ Suggested[query] \in Seq(Indexes) /\ tested \in Nat /\ tested <= Len(Suggested[query])
      /\ experiments \in Seq(Outcome)
  BY CandidatesAssumption DEF IInv, Shape, Account, ExperimentTypes
<1>2. ASSUME UNCHANGED indexing
      PROVE  ExperimentTypes'
  BY <1>2 DEF indexing, ExperimentTypes
<1>3. CASE UNCHANGED vars
  BY <1>2, <1>3 DEF vars, indexing
<1>4. CASE \/ Introspect \/ ExplainBaseline \/ MeasureBaseline \/ ChecksumBaseline \/ Propose
           \/ NextCandidate \/ ChecksumCandidate \/ MeasureCandidate \/ ChooseBest
           \/ Write \/ Expire
  BY <1>2, <1>4 DEF Introspect, ExplainBaseline, Pass, MeasureBaseline, ChecksumBaseline, Propose,
              Fail, NextCandidate, ChecksumCandidate, MeasureCandidate, Conclude, ChooseBest,
              Write, Expire, indexing
<1>5. ASSUME NEW n \in 1..Len(Suggested[query]), NEW t \in [measured : BOOLEAN, gain : Int]
      PROVE  Append(experiments, Experiment(Suggested[query][n], t)) \in Seq(Outcome)
  <2> DEFINE e == Experiment(Suggested[query][n], t)
  <2>1. Suggested[query][n] \in Indexes
    BY <1>1
  <2>2. (t.measured /\ Reaches(base.m, t.gain, MinImprovementPct)) \in BOOLEAN
    OBVIOUS
  <2>3. e \in Outcome
    BY <2>1, <2>2 DEF Experiment, Outcome
  <2> HIDE DEF e
  <2>4. Append(experiments, e) \in Seq(Outcome)
    BY <1>1, <2>3
  <2> QED
    BY <2>4 DEF e
<1>6. CASE BeginExperiment
  <2>1. tested + 1 \in 1..Len(Suggested[query]) /\ trial' = trial
    BY <1>1, <1>6 DEF BeginExperiment
  <2>2. NoTrial \in [measured : BOOLEAN, gain : Int]
    BY DEF NoTrial
  <2>3. experiments' \in Seq(Outcome)
    BY <1>1, <1>5, <1>6, <2>1, <2>2 DEF BeginExperiment
  <2> QED
    BY <1>6, <2>1, <2>3 DEF BeginExperiment, ExperimentTypes
<1>7. CASE CreateIndex
  BY <1>7 DEF CreateIndex, ExperimentTypes
<1>8. CASE MeasureWithIndex
  <2>1. pc = "trial" /\ UNCHANGED <<experiments, session>>
    BY <1>8 DEF MeasureWithIndex
  <2>2. ASSUME NEW m \in Measurements
        PROVE  Gain(base.m, m) \in Int
    BY <2>1, MeasurementsAssumption, GainIsInt DEF IInv, Shape, Measuring
  <2>3. trial' \in [measured : BOOLEAN, gain : Int]
    <3>1. CASE trial' = trial
      BY <3>1 DEF ExperimentTypes
    <3>2. ASSUME NEW m \in Measurements, trial' = [measured |-> TRUE, gain |-> Gain(base.m, m)]
          PROVE  trial' \in [measured : BOOLEAN, gain : Int]
      <4> DEFINE g == Gain(base.m, m)
      <4>1. g \in Int
        BY <2>2
      <4> HIDE DEF g
      <4>2. [measured |-> TRUE, gain |-> g] \in [measured : BOOLEAN, gain : Int]
        BY <4>1
      <4> QED
        BY <3>2, <4>2 DEF g
    <3> QED
      BY <1>8, <3>1, <3>2 DEF MeasureWithIndex
  <2> QED
    BY <2>1, <2>3 DEF ExperimentTypes
<1>9. CASE Rollback
  <2>1. /\ pc = "rollback" /\ trial' = NoTrial /\ session' = NoSession
        /\ experiments' = Append(experiments, Experiment(Suggested[query][tested], trial))
    BY <1>9 DEF Rollback, Recorded, Ddl
  <2>2. tested \in 1..Len(Suggested[query])
    <3>1. Open = 1 /\ Len(experiments) \in Nat /\ Len(experiments) + Open = tested
      BY <1>1, <2>1 DEF Open, Trying, Account
    <3> QED
      BY <1>1, <3>1
  <2>3. experiments' \in Seq(Outcome)
    BY <1>5, <2>1, <2>2 DEF ExperimentTypes
  <2> QED
    BY <2>1, <2>3 DEF ExperimentTypes, NoTrial, NoSession
<1>10. CASE EndExperiments
  <2>1. /\ UNCHANGED <<trial, session>> /\ experiments' = Ranked(experiments)
    BY <1>10 DEF EndExperiments
  <2>2. /\ DOMAIN experiments = 1..Len(experiments) /\ Len(experiments) \in Nat
        /\ \A i \in 1..Len(experiments) : experiments[i].gain \in Int
    BY <1>1 DEF Account, Outcomes
  <2>3. Orders(LargestFirst(experiments), DOMAIN experiments)
    BY <2>2, LargestFirstOrders
  <2>4. experiments' \in Seq(Outcome)
    BY <1>1, <2>1, <2>3, SortedRearranges DEF Ranked
  <2> QED
    BY <2>1, <2>4 DEF ExperimentTypes
<1> QED
  BY <1>3, <1>4, <1>6, <1>7, <1>8, <1>9, <1>10 DEF Next, Step

LEMMA ExperimentTypesAlways == Spec => []ExperimentTypes
<1>1. Init => ExperimentTypes
  <2>1. Init => experiments \in Seq(Outcome)
    BY DEF Init
  <2> QED
    BY <2>1 DEF Init, ExperimentTypes, NoTrial, NoSession
<1> QED
  BY <1>1, InitAccount, AccountStep, ExperimentTypesStep, InvariantCorrect, PTL DEF Spec

\* Every variable stays in its type, for any texts, measurements and suggestions.
THEOREM TypeCorrect == Spec => []TypeOK
<1>1. ASSUME IInv, Account, BestIsFastest, CandidateTypes, ExperimentTypes
      PROVE  TypeOK
  <2>1. best \in 0..Len(results)
    <3>1. DOMAIN results = 1..Len(results) /\ Len(results) \in Nat
      BY <1>1 DEF CandidateTypes
    <3>2. CASE Judged
      BY <1>1, <3>1, <3>2 DEF BestIsFastest, Accepted
    <3>3. CASE ~ Judged
      BY <1>1, <3>1, <3>3 DEF CandidateTypes
    <3> QED
      BY <3>2, <3>3
  <2>2. query \in Queries /\ pc \in Phases /\ todo \in Seq(Texts)
    BY <1>1 DEF IInv, Shape
  <2>3. tested \in 0..Len(Suggested[query])
    <3>1. Suggested[query] \in Seq(Indexes)
      BY <2>2, CandidatesAssumption
    <3>2. Len(Suggested[query]) \in Nat
      BY <3>1
    <3> QED
      BY <1>1, <3>2 DEF Account
  <2> QED
    BY <1>1, <2>1, <2>2, <2>3 DEF CandidateTypes, ExperimentTypes, VerdictSeen, Outcome, TypeOK
<1>2. IInv /\ Account /\ BestIsFastest /\ CandidateTypes /\ ExperimentTypes => TypeOK
  BY <1>1
<1>3. Spec => []Account
  BY InitAccount, AccountStep, InvariantCorrect, PTL DEF Spec
<1> QED
  BY <1>2, <1>3, CandidateTypesAlways, ExperimentTypesAlways, BestGainsMost, InvariantCorrect, PTL

--------------------------------------------------------------------------------
(* The report's order of the experiments. *)

\* What each outcome says of its own gain, and how the report has them.
Weighed ==
    /\ ~ trial.measured => trial.gain = 0
    /\ \A i \in DOMAIN experiments :
          /\ ~ experiments[i].measured => experiments[i].gain = 0
          /\ experiments[i].recommended <=>
                /\ experiments[i].measured
                /\ Reaches(base.m, experiments[i].gain, MinImprovementPct)
    /\ pc = "report" => \A i, k \in DOMAIN experiments :
                           i < k => experiments[i].gain >= experiments[k].gain

LEMMA OneMoreWeighed ==
    ASSUME Weighed, ExperimentTypes, NEW ddl, NEW t,
           ~ t.measured => t.gain = 0,
           experiments' = Append(experiments, Experiment(ddl, t)), base' = base,
           pc' # "report", ~ trial'.measured => trial'.gain = 0
    PROVE  Weighed'
<1> DEFINE e == Experiment(ddl, t)
<1>1. /\ e.measured = t.measured /\ e.gain = t.gain
      /\ e.recommended <=> e.measured /\ Reaches(base.m, e.gain, MinImprovementPct)
  BY DEF Experiment
<1> HIDE DEF e
<1>2. /\ experiments' = Append(experiments, e) /\ Len(experiments) \in Nat
      /\ DOMAIN experiments = 1..Len(experiments)
      /\ DOMAIN experiments' = 1..Len(experiments) + 1
      /\ experiments'[Len(experiments) + 1] = e
      /\ \A i \in 1..Len(experiments) : experiments'[i] = experiments[i]
  <2>1. experiments \in Seq(Outcome \cup {e})
    BY SeqMonotonic DEF ExperimentTypes
  <2>2. experiments' = Append(experiments, e)
    BY DEF e
  <2> QED
    BY <2>1, <2>2
<1>3. \A i \in DOMAIN experiments' : i \in DOMAIN experiments \/ i = Len(experiments) + 1
  BY <1>2
<1>4. ASSUME NEW i \in DOMAIN experiments'
      PROVE  /\ ~ experiments'[i].measured => experiments'[i].gain = 0
             /\ experiments'[i].recommended <=>
                   /\ experiments'[i].measured
                   /\ Reaches(base'.m, experiments'[i].gain, MinImprovementPct)
  <2>1. CASE i \in DOMAIN experiments
    BY <1>2, <2>1 DEF Weighed
  <2>2. CASE i = Len(experiments) + 1
    BY <1>1, <1>2, <2>2
  <2> QED
    BY <1>3, <2>1, <2>2
<1> QED
  BY <1>4 DEF Weighed

LEMMA WeighedStep ==
    IInv /\ Account /\ ExperimentTypes /\ Weighed /\ [Next]_vars => Weighed'
<1> SUFFICES ASSUME IInv, Account, ExperimentTypes, Weighed, [Next]_vars
             PROVE  Weighed'
  OBVIOUS
<1>1. /\ DOMAIN experiments = 1..Len(experiments) /\ Len(experiments) \in Nat
      /\ \A i \in DOMAIN experiments : experiments[i].gain \in Int
  <2>1. experiments \in Seq(Outcome)
    BY DEF ExperimentTypes
  <2>2. \A e \in Outcome : e.gain \in Int
    BY DEF Outcome
  <2> QED
    BY <2>1, <2>2
<1>2. ASSUME UNCHANGED <<pc, base, trial, experiments>>
      PROVE  Weighed'
  BY <1>2 DEF Weighed
<1>3. ASSUME UNCHANGED <<base, trial, experiments>>, pc' # "report"
      PROVE  Weighed'
  BY <1>3 DEF Weighed
<1>4. ASSUME pc \in {"introspect", "explain", "measure", "checksum"} \cup {"propose", "next", "hash", "time"}
      PROVE  experiments = <<>>
  <2>1. tested = 0 /\ Open = 0
    BY <1>4 DEF Account, Open, Trying
  <2>2. Len(experiments) = 0
    BY <1>1, <2>1 DEF Account
  <2> QED
    BY <2>2 DEF ExperimentTypes
<1>5. ASSUME experiments = <<>>, UNCHANGED <<trial, experiments>>
      PROVE  Weighed'
  BY <1>5 DEF Weighed
<1>6. CASE UNCHANGED vars
  BY <1>2, <1>6 DEF vars, indexing
<1>7. CASE \/ Introspect \/ ExplainBaseline \/ MeasureBaseline \/ ChecksumBaseline \/ Propose
           \/ NextCandidate \/ ChecksumCandidate \/ MeasureCandidate \/ ChooseBest
  <2>1. UNCHANGED <<trial, experiments>>
    BY <1>7 DEF Introspect, ExplainBaseline, Pass, MeasureBaseline, ChecksumBaseline, Propose,
                Fail, NextCandidate, ChecksumCandidate, MeasureCandidate, Conclude, ChooseBest,
                indexing
  <2>2. pc \in {"introspect", "explain", "measure", "checksum"} \cup {"propose", "next", "hash", "time"}
    BY <1>7 DEF Introspect, ExplainBaseline, Pass, MeasureBaseline, ChecksumBaseline, Propose,
                Fail, NextCandidate, ChecksumCandidate, MeasureCandidate, Conclude, ChooseBest
  <2> QED
    BY <1>4, <1>5, <2>1, <2>2
<1>8. CASE BeginExperiment
  <2>1. UNCHANGED <<base, trial>> /\ pc' # "report"
    BY <1>8 DEF BeginExperiment
  <2>2. CASE UNCHANGED experiments
    BY <1>3, <2>1, <2>2
  <2>3. CASE experiments' = Append(experiments, Experiment(Suggested[query][tested + 1], NoTrial))
    <3>1. (~ NoTrial.measured => NoTrial.gain = 0) /\ (~ trial'.measured => trial'.gain = 0)
      BY <2>1 DEF NoTrial, Weighed
    <3> QED
      BY <2>1, <2>3, <3>1, OneMoreWeighed
  <2> QED
    BY <1>8, <2>2, <2>3 DEF BeginExperiment
<1>9. CASE CreateIndex
  BY <1>3, <1>9 DEF CreateIndex
<1>10. CASE MeasureWithIndex
  <2>1. UNCHANGED <<base, experiments>> /\ pc' # "report"
    BY <1>10 DEF MeasureWithIndex
  <2>2. trial' = trial \/ trial'.measured
    BY <1>10 DEF MeasureWithIndex
  <2> QED
    BY <2>1, <2>2 DEF Weighed
<1>11. CASE Rollback
  <2>1. /\ base' = base /\ pc' # "report" /\ trial' = NoTrial
        /\ experiments' = Append(experiments, Experiment(Suggested[query][tested], trial))
    BY <1>11 DEF Rollback, Recorded, Ddl
  <2>2. (~ trial.measured => trial.gain = 0) /\ (~ trial'.measured => trial'.gain = 0)
    BY <2>1 DEF NoTrial, Weighed
  <2> QED
    BY <2>1, <2>2, OneMoreWeighed
<1>12. CASE EndExperiments
  <2>1. UNCHANGED <<base, trial>> /\ experiments' = Ranked(experiments)
    BY <1>12 DEF EndExperiments
  <2>2. Orders(LargestFirst(experiments), DOMAIN experiments)
    BY <1>1, LargestFirstOrders
  <2>3. PICK f \in [DOMAIN experiments -> DOMAIN experiments] :
           /\ DOMAIN experiments' = DOMAIN experiments
           /\ \A i \in DOMAIN experiments : experiments'[i] = experiments[f[i]]
    BY <2>1, <2>2, SortedRearranges DEF Ranked, Rearranges, ExperimentTypes
  <2>4. ASSUME NEW i \in DOMAIN experiments, NEW k \in DOMAIN experiments, i < k
        PROVE  experiments'[i].gain >= experiments'[k].gain
    <3>1. experiments \in Seq(Outcome) /\ \A e \in Outcome : e.gain \in Int
      BY DEF ExperimentTypes, Outcome
    <3>2. Ranked(experiments)[i].gain >= Ranked(experiments)[k].gain
      BY <2>4, <3>1, RankedByGain
    <3> QED
      BY <2>1, <3>2
  <2> QED
    BY <2>1, <2>3, <2>4 DEF Weighed
<1>13. CASE Write \/ Expire
  BY <1>2, <1>13 DEF Write, Expire, candidates, indexing
<1> QED
  BY <1>6, <1>7, <1>8, <1>9, <1>10, <1>11, <1>12, <1>13 DEF Next, Step

\* The report lists the index that gains most first, and whatever is recommended before
\* whatever is not, the experiments that failed included.
IndexesInOrder ==
    pc = "report" => \A i, k \in DOMAIN experiments : i < k =>
        /\ experiments[i].gain >= experiments[k].gain
        /\ experiments[k].recommended => experiments[i].recommended

\* However many experiments there are and whichever fail, a reader of the report who stops
\* at the first index not recommended has seen all that are; with a threshold of zero a
\* failed experiment, which gains nothing, may precede one that is recommended for
\* gaining nothing (optimizer.go, runIndexExperiments; verify.go, MeasureIndex).
THEOREM RecommendedFirst ==
    ASSUME MinImprovementPct > 0
    PROVE  Spec => []IndexesInOrder
<1>1. Init => Weighed
  <2>1. Init => trial = NoTrial /\ experiments = <<>>
    BY DEF Init
  <2> QED
    BY <2>1 DEF Init, Weighed, NoTrial
<1>2. ASSUME IInv, ExperimentTypes, Weighed
      PROVE  IndexesInOrder
  <2> SUFFICES ASSUME pc = "report", NEW i \in DOMAIN experiments, NEW k \in DOMAIN experiments,
                      i < k
               PROVE  /\ experiments[i].gain >= experiments[k].gain
                      /\ experiments[k].recommended => experiments[i].recommended
    BY DEF IndexesInOrder
  <2> DEFINE g == experiments[i].gain
             h == experiments[k].gain
             median == base.m.median
  <2>1. g \in Int /\ h \in Int /\ g >= h
    <3>1. experiments[i] \in Outcome /\ experiments[k] \in Outcome
      BY <1>2 DEF ExperimentTypes
    <3> QED
      BY <1>2, <3>1 DEF Weighed, Outcome
  <2>2. median \in Int /\ MinImprovementPct \in Nat
    <3>1. Proper(base.m)
      BY <1>2, MeasurementsAssumption DEF IInv, Shape, Measuring
    <3> QED
      BY <3>1, BoundsAssumption DEF Proper
  <2>3. (~ experiments[i].measured => g = 0)
        /\ (experiments[i].recommended <=>
               experiments[i].measured /\ Reaches(base.m, g, MinImprovementPct))
        /\ (experiments[k].recommended => Reaches(base.m, h, MinImprovementPct))
    BY <1>2 DEF Weighed
  <2> HIDE DEF g, h
  <2>4. ASSUME Reaches(base.m, h, MinImprovementPct)
        PROVE  Reaches(base.m, g, MinImprovementPct) /\ g > 0
    <3>1. median > 0 /\ h * 100 >= MinImprovementPct * median
      BY <2>2, <2>4 DEF Reaches
    <3> HIDE DEF median
    <3>2. MinImprovementPct * median > 0
      BY <2>2, <3>1
    <3>3. g * 100 >= h * 100
      BY <2>1
    <3>4. g * 100 >= MinImprovementPct * median /\ g > 0
      BY <2>1, <2>2, <3>1, <3>2, <3>3
    <3>5. Reaches(base.m, g, MinImprovementPct)
      BY <2>2, <3>1, <3>4 DEF Reaches, median
    <3> QED
      BY <3>4, <3>5
  <2>5. experiments[k].recommended => experiments[i].recommended
    BY <2>1, <2>3, <2>4
  <2> QED
    BY <2>1, <2>5 DEF g, h
<1>3. IInv /\ ExperimentTypes /\ Weighed => IndexesInOrder
  BY <1>2
<1>4. Spec => []Account
  BY InitAccount, AccountStep, InvariantCorrect, PTL DEF Spec
<1> QED
  BY <1>1, <1>3, <1>4, WeighedStep, ExperimentTypesAlways, InvariantCorrect, PTL DEF Spec

--------------------------------------------------------------------------------
(* Sums. *)

\* What a sum over a function has to be for each part of its domain.
SumsOf(fun, f) ==
    f = [s \in SUBSET (DOMAIN fun) |->
            IF s = {} THEN 0 ELSE LET x == CHOOSE x \in s : TRUE IN fun[x] + f[s \ {x}]]

LEMMA SumIsChosen ==
    ASSUME NEW fun
    PROVE  SumFunction(fun) = (CHOOSE f : SumsOf(fun, f))[DOMAIN fun]
BY DEF SumFunction, SumFunctionOnSet, FoldFunctionOnSet, MapThenFoldSet, SumsOf

\* There is one such function at most: at a smallest part where two differ, they agree on
\* what is left of it without one element.
LEMMA SumsAreUnique ==
    ASSUME NEW fun, IsFiniteSet(DOMAIN fun), NEW f, NEW g, SumsOf(fun, f), SumsOf(fun, g)
    PROVE  f = g
<1> DEFINE D == DOMAIN fun
           Differ == {s \in SUBSET D : f[s] # g[s]}
           Sizes == {Cardinality(s) : s \in Differ}
<1>1. \A s \in SUBSET D : IsFiniteSet(s) /\ Cardinality(s) \in Nat
  BY FS_Subset, FS_CardinalityType
<1>2. SUFFICES ASSUME Differ # {}
               PROVE  FALSE
  <2>1. f = [s \in SUBSET D |-> f[s]] /\ g = [s \in SUBSET D |-> g[s]]
    BY DEF SumsOf
  <2> QED
    BY <2>1, <1>2
<1>3. PICK s \in Differ : \A r \in Differ : Cardinality(s) <= Cardinality(r)
  <2>1. Sizes \subseteq Nat /\ Sizes # {}
    BY <1>1, <1>2
  <2>2. PICK n \in Sizes : \A m \in Sizes : n <= m
    <3> HIDE DEF Sizes
    <3> QED
      BY <2>1, LeastNat
  <2>3. \A r \in Differ : Cardinality(r) \in Sizes
    OBVIOUS
  <2>4. PICK s \in Differ : n = Cardinality(s)
    OBVIOUS
  <2> QED
    BY <2>2, <2>3, <2>4
<1>4. CASE s = {}
  <2>1. f[s] = 0 /\ g[s] = 0
    BY <1>3, <1>4 DEF SumsOf
  <2> QED
    BY <2>1, <1>3
<1>5. CASE s # {}
  <2> DEFINE x == CHOOSE x \in s : TRUE
  <2>1. x \in s
    BY <1>5
  <2>2. Cardinality(s \ {x}) < Cardinality(s) /\ s \ {x} \in SUBSET D
    <3>1. IsFiniteSet(s) /\ Cardinality(s) \in Nat /\ s \ {x} \in SUBSET D
      BY <1>1, <1>3
    <3>2. Cardinality(s \ {x}) = Cardinality(s) - 1
      BY <2>1, <3>1, FS_RemoveElement
    <3> QED
      BY <3>1, <3>2
  <2>3. f[s \ {x}] = g[s \ {x}]
    BY <1>1, <1>3, <2>2
  <2>4. f[s] = fun[x] + f[s \ {x}] /\ g[s] = fun[x] + g[s \ {x}]
    BY <1>3, <1>5 DEF SumsOf
  <2> QED
    BY <2>3, <2>4, <1>3
<1> QED
  BY <1>4, <1>5

LEMMA ApartAddUp ==
    ASSUME NEW A, IsFiniteSet(A), NEW B, IsFiniteSet(B), A \cap B = {}
    PROVE  Cardinality(A \cup B) = Cardinality(A) + Cardinality(B)
<1>1. Cardinality(A \cup B) = Cardinality(A) + Cardinality(B) - Cardinality(A \cap B)
  BY FS_Union
<1>2. Cardinality(A \cap B) = 0 /\ Cardinality(A) \in Nat /\ Cardinality(B) \in Nat
  BY FS_EmptySet, FS_CardinalityType
<1> QED
  BY <1>1, <1>2

\* Counted apart by what they are labelled with, the members of a set add up to the
\* number of those that bear one of the labels.
LEMMA CountsAddUp ==
    ASSUME NEW L, IsFiniteSet(L), NEW C, IsFiniteSet(C), NEW label
    PROVE  SumFunction([l \in L |-> Cardinality({c \in C : label[c] = l})])
             = Cardinality({c \in C : label[c] \in L})
<1> DEFINE fun == [l \in L |-> Cardinality({c \in C : label[c] = l})]
           With(s) == {c \in C : label[c] \in s}
           sums == [s \in SUBSET L |-> Cardinality(With(s))]
<1>1. \A s : IsFiniteSet(With(s))
  BY FS_Subset
<1>2. DOMAIN fun = L
  OBVIOUS
<1>3. ASSUME NEW s \in SUBSET L
      PROVE  sums[s] = IF s = {} THEN 0
                       ELSE LET x == CHOOSE x \in s : TRUE IN fun[x] + sums[s \ {x}]
  <2>1. CASE s = {}
    <3>1. With(s) = {}
      BY <2>1
    <3> QED
      BY <2>1, <3>1, FS_EmptySet
  <2>2. CASE s # {}
    <3> DEFINE x == CHOOSE x \in s : TRUE
    <3>1. x \in s /\ x \in L
      BY <2>2
    <3>2. With({x}) \cap With(s \ {x}) = {} /\ With(s) = With({x}) \cup With(s \ {x})
      BY <3>1
    <3>3. With({x}) = {c \in C : label[c] = x}
      OBVIOUS
    <3>4. Cardinality(With(s)) = Cardinality(With({x})) + Cardinality(With(s \ {x}))
      <4> HIDE DEF With
      <4> QED
        BY <1>1, <3>2, ApartAddUp
    <3>5. sums[s \ {x}] = Cardinality(With(s \ {x})) /\ sums[s] = Cardinality(With(s))
      OBVIOUS
    <3>6. fun[x] = Cardinality(With({x}))
      BY <3>1, <3>3
    <3> QED
      BY <2>2, <3>4, <3>5, <3>6
  <2> QED
    BY <2>1, <2>2
<1> HIDE DEF fun
<1>4. sums = [s \in SUBSET (DOMAIN fun) |->
               IF s = {} THEN 0 ELSE LET x == CHOOSE x \in s : TRUE IN fun[x] + sums[s \ {x}]]
  BY <1>2, <1>3
<1>5. SumsOf(fun, sums)
  <2> HIDE DEF sums
  <2> QED
    BY <1>4 DEF SumsOf
<1>6. SumFunction(fun) = sums[DOMAIN fun]
  <2> HIDE DEF sums
  <2>1. SumsOf(fun, CHOOSE f : SumsOf(fun, f))
    BY <1>5
  <2>2. (CHOOSE f : SumsOf(fun, f)) = sums
    BY <1>2, <1>5, <2>1, SumsAreUnique
  <2> QED
    BY <2>2, SumIsChosen
<1>7. sums[L] = Cardinality({c \in C : label[c] \in L})
  OBVIOUS
<1> QED
  BY <1>2, <1>6, <1>7 DEF fun

--------------------------------------------------------------------------------
(* The benchmark. *)

LEMMA UpToFinite ==
    ASSUME NEW n \in Nat
    PROVE  IsFiniteSet(1..n) /\ Cardinality(1..n) = n
<1>1. IsFiniteSet(1..n) /\ Cardinality(1..n) = IF 1 > n THEN 0 ELSE n - 1 + 1
  BY FS_Interval
<1> QED
  BY <1>1

LEMMA ReasonsFinite == IsFiniteSet(Reasons)
<1> DEFINE list == <<"does_not_parse", "not_read_only", "identical", "shape_differs",
                     "failed", "results_differ", "timed_out", "not_faster", "accepted">>
           f == [k \in 1..9 |-> list[k]]
<1>1. \A why \in Reasons : \E k \in 1..9 : f[k] = why
  BY DEF Reasons
<1>2. \A k \in 1..9 : f[k] \in Reasons
  BY DEF Reasons
<1> QED
  <2>1. f \in [1..9 -> Reasons]
    BY <1>2
  <2>2. f \in Surjection(1..9, Reasons)
    BY <1>1, <2>1 DEF Surjection
  <2>3. IsFiniteSet(1..9)
    BY UpToFinite
  <2> HIDE DEF f
  <2> QED
    BY <2>2, <2>3, FS_Surjection

\* What a benchmark keeps of its runs: verdicts, and experiments that were or were not
\* recommended.
Lines(all) ==
    /\ \E S : all \in Seq(S)
    /\ \A i \in DOMAIN all :
          all[i].verdicts \in Seq(Reasons) /\ all[i].recommended \in Seq(BOOLEAN)

LEMMA PairsFinite ==
    ASSUME NEW I, IsFiniteSet(I), NEW f, \A i \in I : IsFiniteSet(f[i])
    PROVE  IsFiniteSet(UNION {{i} \X f[i] : i \in I})
<1> DEFINE g == [i \in I |-> {i} \X f[i]]
           T == {{i} \X f[i] : i \in I}
<1>1. \A i \in I : IsFiniteSet({i} \X f[i])
  BY FS_Singleton, FS_Product
<1>2. IsFiniteSet(T)
  <2>1. g \in Surjection(I, T)
    BY DEF Surjection
  <2> QED
    BY <2>1, FS_Surjection
<1>3. \A t \in T : IsFiniteSet(t)
  BY <1>1
<1> QED
  BY <1>2, <1>3, FS_UNION

LEMMA LinesFinite ==
    ASSUME NEW all, Lines(all)
    PROVE  /\ IsFiniteSet(DOMAIN all) /\ Cardinality(DOMAIN all) = Len(all) /\ Len(all) \in Nat
           /\ IsFiniteSet(Ran(all)) /\ IsFiniteSet(Candidates(all))
<1>1. DOMAIN all = 1..Len(all) /\ Len(all) \in Nat
  BY DEF Lines
<1>2. IsFiniteSet(1..Len(all)) /\ Cardinality(1..Len(all)) = Len(all)
  BY <1>1, UpToFinite
<1>3. IsFiniteSet(Ran(all))
  BY <1>1, <1>2, FS_Subset DEF Ran
<1>4. IsFiniteSet(Candidates(all))
  <2> DEFINE f == [i \in Ran(all) |-> DOMAIN all[i].verdicts]
  <2>1. ASSUME NEW i \in Ran(all)
        PROVE  IsFiniteSet(f[i])
    <3>1. all[i].verdicts \in Seq(Reasons)
      BY DEF Ran, Lines
    <3>2. f[i] = 1..Len(all[i].verdicts) /\ Len(all[i].verdicts) \in Nat
      BY <3>1
    <3> QED
      BY <3>2, UpToFinite
  <2>2. Candidates(all) = UNION {{i} \X f[i] : i \in Ran(all)}
    BY DEF Candidates
  <2> HIDE DEF f
  <2> QED
    BY <1>3, <2>1, <2>2, PairsFinite
<1> QED
  BY <1>1, <1>2, <1>3, <1>4

\* A candidate of the benchmark is a place in the verdicts of a query that did not fail.
LEMMA CandidatesAre ==
    ASSUME NEW all, Lines(all), NEW c \in Candidates(all)
    PROVE  /\ c = <<c[1], c[2]>> /\ c[1] \in Ran(all) /\ c[2] \in DOMAIN all[c[1]].verdicts
           /\ VerdictAt(all, c) \in Reasons
<1>1. c = <<c[1], c[2]>> /\ c[1] \in Ran(all) /\ c[2] \in DOMAIN all[c[1]].verdicts
  BY DEF Candidates
<1>2. all[c[1]].verdicts \in Seq(Reasons)
  BY <1>1 DEF Ran, Lines
<1> QED
  BY <1>1, <1>2 DEF VerdictAt

\* Whatever the queries of a benchmark, however many failed and whatever became of their
\* candidates: every query was run or failed, every candidate of every query that was run
\* is accepted or rejected for one reason, and without false positives no control got a
\* rewrite or an index (main.go, summarize).
LEMMA TotalsLoseNothing ==
    ASSUME NEW all, Lines(all)
    PROVE  LET t == Totals(all, Reasons \ {"accepted"}) IN
           /\ t.queries = t.failed + Cardinality(Ran(all))
           /\ t.tested = SumFunction([i \in Ran(all) |-> Len(all[i].verdicts)])
           /\ t.tested = t.accepted + SumFunction(t.rejected)
           /\ t.falsePositives = 0 =>
                 \A i \in Ran(all) : all[i].control => ~ Improved(all[i]) /\ ~ Recommends(all[i])
<1> DEFINE C == Candidates(all)
           L == Reasons \ {"accepted"}
           verdict == [c \in C |-> VerdictAt(all, c)]
           place == [c \in C |-> c[1]]
<1>1. /\ IsFiniteSet(C) /\ IsFiniteSet(L) /\ IsFiniteSet(Ran(all)) /\ IsFiniteSet(DOMAIN all)
      /\ Cardinality(DOMAIN all) = Len(all)
  BY LinesFinite, ReasonsFinite, FS_Subset
<1>2. Len(all) = Cardinality(DOMAIN all \ Ran(all)) + Cardinality(Ran(all))
  <2>1. IsFiniteSet(DOMAIN all \ Ran(all)) /\ Ran(all) \subseteq DOMAIN all
    BY <1>1, FS_Subset DEF Ran
  <2>2. DOMAIN all = (DOMAIN all \ Ran(all)) \cup Ran(all)
    BY <2>1
  <2> QED
    BY <1>1, <2>1, <2>2, ApartAddUp
<1>3. Cardinality(C) = SumFunction([i \in Ran(all) |-> Len(all[i].verdicts)])
  <2>1. ASSUME NEW i \in Ran(all)
        PROVE  Cardinality({c \in C : place[c] = i}) = Len(all[i].verdicts)
    <3> DEFINE D == DOMAIN all[i].verdicts
    <3>1. all[i].verdicts \in Seq(Reasons)
      BY DEF Ran, Lines
    <3>2. D = 1..Len(all[i].verdicts) /\ Len(all[i].verdicts) \in Nat
      BY <3>1
    <3>3. {c \in C : place[c] = i} = {i} \X D
      BY DEF Candidates
    <3>4. IsFiniteSet(D) /\ Cardinality(D) = Len(all[i].verdicts)
      BY <3>2, UpToFinite
    <3>5. IsFiniteSet({i}) /\ Cardinality({i}) = 1
      BY FS_Singleton
    <3> HIDE DEF D
    <3>6. Cardinality({i} \X D) = Cardinality({i}) * Cardinality(D)
      BY <3>4, <3>5, FS_Product
    <3>7. Cardinality({i} \X D) = Len(all[i].verdicts)
      BY <3>2, <3>4, <3>5, <3>6
    <3> QED
      BY <3>3, <3>7
  <2>2. {c \in C : place[c] \in Ran(all)} = C
    BY CandidatesAre
  <2>3. [i \in Ran(all) |-> Cardinality({c \in C : place[c] = i})]
          = [i \in Ran(all) |-> Len(all[i].verdicts)]
    BY <2>1
  <2> HIDE DEF place, C
  <2>4. SumFunction([i \in Ran(all) |-> Cardinality({c \in C : place[c] = i})])
          = Cardinality({c \in C : place[c] \in Ran(all)})
    BY <1>1, CountsAddUp
  <2> QED
    BY <2>2, <2>3, <2>4
<1>4. /\ Cardinality({c \in C : VerdictAt(all, c) \in L})
           = SumFunction([why \in L |-> Rejected(all, why)])
      /\ Cardinality(C) = Cardinality({c \in C : VerdictAt(all, c) = "accepted"})
                            + Cardinality({c \in C : VerdictAt(all, c) \in L})
  <2>1. [why \in L |-> Cardinality({c \in C : verdict[c] = why})]
          = [why \in L |-> Rejected(all, why)]
    BY DEF Rejected
  <2>2. {c \in C : verdict[c] \in L} = {c \in C : VerdictAt(all, c) \in L}
    OBVIOUS
  <2>3. /\ C = {c \in C : VerdictAt(all, c) = "accepted"} \cup {c \in C : VerdictAt(all, c) \in L}
        /\ {c \in C : VerdictAt(all, c) = "accepted"} \cap {c \in C : VerdictAt(all, c) \in L} = {}
    BY CandidatesAre
  <2>4. /\ IsFiniteSet({c \in C : VerdictAt(all, c) = "accepted"})
        /\ IsFiniteSet({c \in C : VerdictAt(all, c) \in L})
    BY <1>1, FS_Subset
  <2> HIDE DEF verdict, C, L
  <2>5. SumFunction([why \in L |-> Cardinality({c \in C : verdict[c] = why})])
          = Cardinality({c \in C : verdict[c] \in L})
    BY <1>1, CountsAddUp
  <2>6. Cardinality(C) = Cardinality({c \in C : VerdictAt(all, c) = "accepted"})
                            + Cardinality({c \in C : VerdictAt(all, c) \in L})
    BY <2>3, <2>4, ApartAddUp
  <2> QED
    BY <2>1, <2>2, <2>5, <2>6
<1>5. Cardinality({i \in Ran(all) : FalsePositive(all[i])}) = 0 =>
          \A i \in Ran(all) : all[i].control => ~ Improved(all[i]) /\ ~ Recommends(all[i])
  <2>1. IsFiniteSet({i \in Ran(all) : FalsePositive(all[i])})
    BY <1>1, FS_Subset
  <2>2. Cardinality({i \in Ran(all) : FalsePositive(all[i])}) = 0 =>
            {i \in Ran(all) : FalsePositive(all[i])} = {}
    BY <2>1, FS_EmptySet
  <2> QED
    BY <2>2 DEF FalsePositive
<1> QED
  BY <1>2, <1>3, <1>4, <1>5 DEF Totals

\* The two lines a finished run gives: of one as a control, of the other not.
LEMMA LinesOfRun ==
    ASSUME IInv, ExperimentTypes
    PROVE  LET lines == <<Line(TRUE), Line(FALSE)>> IN
           /\ Lines(lines) /\ Len(lines) = 2 /\ DOMAIN lines = {1, 2}
           /\ Ran(lines) = IF pc = "error" THEN {} ELSE {1, 2}
           /\ \A i \in {1, 2} :
                 /\ lines[i].verdicts = [k \in DOMAIN results |-> results[k].reason]
                 /\ lines[i].gain = IF best = 0 THEN 0 ELSE results[best].gain
                 /\ Improved(lines[i]) <=> Accepted # {}
                 /\ Recommends(lines[i]) <=>
                       \E k \in DOMAIN experiments : experiments[k].recommended
<1> DEFINE lines == <<Line(TRUE), Line(FALSE)>>
           reasons == [k \in DOMAIN results |-> results[k].reason]
           chosen == [k \in DOMAIN experiments |-> experiments[k].recommended]
<1>1. /\ DOMAIN results = 1..Len(results) /\ Len(results) \in Nat
      /\ \A k \in DOMAIN results : results[k].reason \in Reasons
  <2>1. results \in Seq(Verdict)
    BY DEF IInv, Shape
  <2>2. DOMAIN results = 1..Len(results) /\ Len(results) \in Nat
        /\ \A k \in 1..Len(results) : results[k] \in Verdict
    BY <2>1
  <2> QED
    BY <2>2 DEF Verdict
<1>2. /\ DOMAIN experiments = 1..Len(experiments) /\ Len(experiments) \in Nat
      /\ \A k \in DOMAIN experiments : experiments[k].recommended \in BOOLEAN
  <2>1. experiments \in Seq(Outcome)
    BY DEF ExperimentTypes
  <2>2. DOMAIN experiments = 1..Len(experiments) /\ Len(experiments) \in Nat
        /\ \A k \in 1..Len(experiments) : experiments[k] \in Outcome
    BY <2>1
  <2> QED
    BY <2>2 DEF Outcome
<1>3. reasons \in Seq(Reasons) /\ chosen \in Seq(BOOLEAN)
  <2>1. reasons \in [1..Len(results) -> Reasons]
    BY <1>1
  <2>2. chosen \in [1..Len(experiments) -> BOOLEAN]
    BY <1>2
  <2>3. ASSUME NEW S, NEW n \in Nat, NEW x \in [1..n -> S]
        PROVE  x \in Seq(S)
    OBVIOUS
  <2> HIDE DEF reasons, chosen
  <2> QED
    BY <1>1, <1>2, <2>1, <2>2, <2>3
<1>4. \A i \in {1, 2} : /\ lines[i].verdicts = reasons /\ lines[i].recommended = chosen
                        /\ lines[i].failed = (pc = "error")
                        /\ lines[i].gain = IF best = 0 THEN 0 ELSE results[best].gain
  BY DEF Line
<1>5. lines \in Seq({Line(TRUE), Line(FALSE)}) /\ Len(lines) = 2 /\ DOMAIN lines = {1, 2}
  OBVIOUS
<1>6. /\ DOMAIN reasons = DOMAIN results /\ DOMAIN chosen = DOMAIN experiments
      /\ \A k \in DOMAIN results : reasons[k] = results[k].reason
      /\ \A k \in DOMAIN experiments : chosen[k] = experiments[k].recommended
  OBVIOUS
<1> HIDE DEF lines, reasons, chosen
<1>7. \A i \in {1, 2} :
         /\ Improved(lines[i]) <=> Accepted # {}
         /\ Recommends(lines[i]) <=>
               \E k \in DOMAIN experiments : experiments[k].recommended
  BY <1>4, <1>6 DEF Improved, Recommends, Accepted
<1>8. Lines(lines)
  BY <1>3, <1>4, <1>5 DEF Lines
<1>9. Ran(lines) = IF pc = "error" THEN {} ELSE {1, 2}
  BY <1>4, <1>5 DEF Ran
<1> USE DEF lines, reasons, chosen
<1> QED
  <2> HIDE DEF lines
  <2>1. \A i \in {1, 2} :
           /\ lines[i].verdicts = [k \in DOMAIN results |-> results[k].reason]
           /\ lines[i].gain = IF best = 0 THEN 0 ELSE results[best].gain
    BY <1>4
  <2> QED
    BY <1>5, <1>7, <1>8, <1>9, <2>1 DEF lines

\* An accepted rewrite saves time: its median is below the fastest run of the original,
\* and that is no more than the median of the original.
LEMMA AcceptedSaves ==
    ASSUME IInv, pc = "report", NEW i \in Accepted
    PROVE  results[i].gain \in Int /\ results[i].gain > 0
<1>1. Proper(base.m)
  BY MeasurementsAssumption DEF IInv, Shape, Measuring
<1>2. results \in Seq(Verdict) /\ i \in DOMAIN results
  BY DEF IInv, Shape, Accepted
<1>3. results[i] \in Verdict
  BY <1>2
<1>4. base.m.median - results[i].gain < 2 * base.m.min
  BY DEF IInv, Earned, Accepted
<1>5. results[i].gain \in Int
  BY <1>3 DEF Verdict
<1> QED
  BY <1>1, <1>4, <1>5 DEF Proper

\* The totals of a benchmark lose no candidate, count a query as improved exactly if its
\* best rewrite saves time, and report every rewrite and index of a control, whatever the
\* run came to (main.go, runOne and summarize).
THEOREM ScoreCorrect == Spec => []ScoreAddsUp
<1>1. ASSUME IInv, BestIsFastest, ExperimentTypes
      PROVE  ScoreAddsUp
  <2> SUFFICES ASSUME pc \in {"report", "error"}
               PROVE  LET lines == <<Line(TRUE), Line(FALSE)>>
                          t == Totals(lines, Reasons \ {"accepted"})
                          finished == t.queries - t.failed IN
                      /\ t.tested = finished * Len(results)
                      /\ t.tested = t.accepted + SumFunction(t.rejected)
                      /\ t.improved = Cardinality({i \in DOMAIN t.gains : t.gains[i] > 0})
                      /\ t.falsePositives = 0 /\ pc = "report" =>
                            best = 0 /\ \A i \in DOMAIN experiments : ~experiments[i].recommended
    BY DEF ScoreAddsUp
  <2> DEFINE lines == <<Line(TRUE), Line(FALSE)>>
             t == Totals(lines, Reasons \ {"accepted"})
             finished == t.queries - t.failed
  <2>1. /\ Lines(lines) /\ Len(lines) = 2 /\ DOMAIN lines = {1, 2}
        /\ Ran(lines) = IF pc = "error" THEN {} ELSE {1, 2}
    BY <1>1, LinesOfRun
  <2>2. \A i \in {1, 2} :
           /\ lines[i].verdicts = [k \in DOMAIN results |-> results[k].reason]
           /\ lines[i].gain = IF best = 0 THEN 0 ELSE results[best].gain
           /\ Improved(lines[i]) <=> Accepted # {}
           /\ Recommends(lines[i]) <=>
                 \E k \in DOMAIN experiments : experiments[k].recommended
    BY <1>1, LinesOfRun
  <2>3. lines[1].control
    BY DEF Line
  <2> HIDE DEF lines
  <2>4. /\ t.queries = t.failed + Cardinality(Ran(lines))
        /\ t.tested = t.accepted + SumFunction(t.rejected)
        /\ t.falsePositives = 0 =>
              \A i \in Ran(lines) : lines[i].control => ~ Improved(lines[i]) /\ ~ Recommends(lines[i])
    BY <2>1, TotalsLoseNothing
  <2>5. /\ t.tested = Cardinality(Candidates(lines))
        /\ t.improved = Cardinality({i \in Ran(lines) : Improved(lines[i])})
        /\ t.gains = [i \in Ran(lines) |-> IF Improved(lines[i]) THEN lines[i].gain ELSE 0]
        /\ t.queries = 2
        /\ t.failed = Cardinality(DOMAIN lines \ Ran(lines))
    BY <2>1 DEF Totals
  <2> HIDE DEF t
  <2>6. t.tested = finished * Len(results)
    <3>1. DOMAIN results = 1..Len(results) /\ Len(results) \in Nat
      <4>1. results \in Seq(Verdict)
        BY <1>1 DEF IInv, Shape
      <4> QED
        BY <4>1
    <3>2. IsFiniteSet(Ran(lines))
      BY <2>1, LinesFinite
    <3>3. Cardinality(Ran(lines)) \in Nat /\ t.failed \in Nat
      <4>1. IsFiniteSet(DOMAIN lines \ Ran(lines))
        BY <2>1, LinesFinite, FS_Subset
      <4> QED
        BY <2>5, <3>2, <4>1, FS_CardinalityType
    <3>4. finished = Cardinality(Ran(lines))
      BY <2>4, <3>3
    <3>5. Candidates(lines) = Ran(lines) \X (1..Len(results))
      <4>1. \A i \in Ran(lines) : DOMAIN lines[i].verdicts = 1..Len(results)
        BY <2>1, <2>2, <3>1
      <4> QED
        BY <4>1 DEF Candidates
    <3>6. IsFiniteSet(1..Len(results)) /\ Cardinality(1..Len(results)) = Len(results)
      BY <3>1, UpToFinite
    <3>7. Cardinality(Ran(lines) \X (1..Len(results)))
            = Cardinality(Ran(lines)) * Cardinality(1..Len(results))
      BY <3>2, <3>6, FS_Product
    <3> QED
      BY <2>5, <3>4, <3>5, <3>6, <3>7
  <2>7. t.improved = Cardinality({i \in DOMAIN t.gains : t.gains[i] > 0})
    <3>1. ASSUME NEW i \in Ran(lines)
          PROVE  Improved(lines[i]) <=> t.gains[i] > 0
      <4>1. pc = "report" /\ i \in {1, 2}
        BY <2>1
      <4>2. CASE Accepted = {}
        <5>1. ~ Improved(lines[i]) /\ t.gains[i] = 0
          BY <2>2, <2>5, <4>1, <4>2
        <5> QED
          BY <5>1
      <4>3. CASE Accepted # {}
        <5>1. best \in Accepted /\ Improved(lines[i])
          BY <1>1, <2>2, <4>1, <4>3 DEF BestIsFastest, Judged
        <5>2. results[best].gain \in Int /\ results[best].gain > 0
          BY <1>1, <4>1, <5>1, AcceptedSaves
        <5>3. best # 0
          <6>1. results \in Seq(Verdict)
            BY <1>1 DEF IInv, Shape
          <6> QED
            BY <5>1, <6>1 DEF Accepted
        <5> QED
          BY <2>2, <2>5, <4>1, <5>1, <5>2, <5>3
      <4> QED
        BY <4>2, <4>3
    <3>2. DOMAIN t.gains = Ran(lines)
      BY <2>5
    <3>3. {i \in Ran(lines) : Improved(lines[i])} = {i \in DOMAIN t.gains : t.gains[i] > 0}
      BY <3>1, <3>2
    <3> QED
      BY <2>5, <3>3
  <2>8. t.falsePositives = 0 /\ pc = "report" =>
           best = 0 /\ \A i \in DOMAIN experiments : ~experiments[i].recommended
    BY <1>1, <2>1, <2>2, <2>3, <2>4 DEF BestIsFastest, Judged
  <2> QED
    BY <2>4, <2>6, <2>7, <2>8 DEF lines, t
<1>2. IInv /\ BestIsFastest /\ ExperimentTypes => ScoreAddsUp
  BY <1>1
<1> QED
  BY <1>2, ExperimentTypesAlways, BestGainsMost, InvariantCorrect, PTL
================================================================================
