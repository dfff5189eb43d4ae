------------------------------- MODULE RulesProofs -------------------------------
(***************************************************************************)
(* For every schema, every statement and every plan: a column gets one      *)
(* suggestion at most, and no compared column and no function around one    *)
(* is lost between the statement and the sorted report.  For days of every  *)
(* length, every instant and every other comparison, the date rewrite       *)
(* selects the same rows: a range has the truth of the comparison it stands  *)
(* for, NULL included, and a finding never rewrites any other comparison.   *)
(***************************************************************************)
EXTENDS RulesProperties, SelectionProofs

--------------------------------------------------------------------------------
(* Lists of findings. *)

List(x) == \E S : x \in Seq(S)

\* One suggestion for each column.
Once(x) ==
    \A i, j \in DOMAIN x :
        x[i].code = "missing-index" /\ x[j].code = "missing-index" =>
            (x[i].table = x[j].table /\ x[i].col = x[j].col => i = j)

Has(x, t, col, codes) ==
    \E i \in DOMAIN x : x[i].table = t /\ x[i].col = col /\ x[i].code \in codes

\* What x says y says too.
Keeps(x, y) ==
    \A i \in DOMAIN x : \E j \in DOMAIN y :
        y[j].code = x[i].code /\ y[j].table = x[i].table /\ y[j].col = x[i].col

LEMMA ListShape ==
    ASSUME NEW x, List(x)
    PROVE  Len(x) \in Nat /\ DOMAIN x = 1..Len(x)
<1>1. PICK S : x \in Seq(S)
  BY DEF List
<1> QED
  BY <1>1, LenProperties

LEMMA OneMore ==
    ASSUME NEW x, List(x), NEW e
    PROVE  LET y == Append(x, e) IN
           /\ List(y) /\ Len(y) = Len(x) + 1 /\ DOMAIN y = 1..Len(x) + 1
           /\ y[Len(x) + 1] = e /\ \A i \in 1..Len(x) : y[i] = x[i]
<1>1. PICK S : x \in Seq(S)
  BY DEF List
<1>2. x \in Seq(S \cup {e})
  BY <1>1, SeqMonotonic
<1>3. Append(x, e) \in Seq(S \cup {e})
  BY <1>2
<1>4. List(Append(x, e))
  BY <1>3 DEF List
<1>5. /\ Len(Append(x, e)) = Len(x) + 1 /\ DOMAIN Append(x, e) = 1..Len(x) + 1
      /\ Append(x, e)[Len(x) + 1] = e /\ \A i \in 1..Len(x) : Append(x, e)[i] = x[i]
  BY <1>2
<1> QED
  BY <1>4, <1>5

\* One more finding, which repeats no suggestion.
LEMMA OneMoreFinding ==
    ASSUME NEW x, List(x), Once(x), NEW e,
           e.code = "missing-index" => ~Has(x, e.table, e.col, {"missing-index"})
    PROVE  LET y == Append(x, e) IN
           List(y) /\ Once(y) /\ Keeps(x, y) /\ Has(y, e.table, e.col, {e.code})
<1> DEFINE y == Append(x, e)
           n == Len(x)
<1>1. n \in Nat /\ DOMAIN x = 1..n
  BY ListShape
<1>2. /\ List(y) /\ DOMAIN y = 1..n + 1 /\ y[n + 1] = e /\ \A i \in 1..n : y[i] = x[i]
  BY OneMore
<1> HIDE DEF y, n
<1>3. \A i \in 1..n + 1 : i \in 1..n \/ i = n + 1
  BY <1>1
<1>4. Has(y, e.table, e.col, {e.code})
  BY <1>1, <1>2 DEF Has
<1>5. Keeps(x, y)
  BY <1>1, <1>2 DEF Keeps
<1>6. Once(y)
  <2>1. ASSUME NEW i \in 1..n, e.code = "missing-index", x[i].code = "missing-index"
        PROVE  ~(x[i].table = e.table /\ x[i].col = e.col)
    BY <1>1, <2>1 DEF Has
  <2>2. SUFFICES ASSUME NEW i \in 1..n + 1, NEW j \in 1..n + 1,
                        y[i].code = "missing-index", y[j].code = "missing-index",
                        y[i].table = y[j].table, y[i].col = y[j].col
                 PROVE  i = j
    <3>1. DOMAIN y = 1..n + 1
      BY <1>2
    <3> QED
      BY <3>1 DEF Once
  <2>3. CASE i \in 1..n /\ j \in 1..n
    <3>1. i \in DOMAIN x /\ j \in DOMAIN x /\ y[i] = x[i] /\ y[j] = x[j]
      BY <1>1, <1>2, <2>3
    <3> QED
      BY <2>2, <3>1 DEF Once
  <2>4. CASE i \in 1..n /\ j = n + 1
    BY <1>2, <2>1, <2>2, <2>4
  <2>5. CASE i = n + 1 /\ j \in 1..n
    BY <1>2, <2>1, <2>2, <2>5
  <2> QED
    BY <1>3, <2>3, <2>4, <2>5
<1> QED
  BY <1>2, <1>4, <1>5, <1>6 DEF y

\* More findings, none of which is a suggestion.
LEMMA MoreFindings ==
    ASSUME NEW x, List(x), Once(x), NEW z, List(z),
           \A i \in DOMAIN z : z[i].code # "missing-index"
    PROVE  List(x \o z) /\ Once(x \o z) /\ Keeps(x, x \o z)
<1>1. PICK S : x \in Seq(S)
  BY DEF List
<1>2. PICK T : z \in Seq(T)
  BY DEF List
<1>3. x \in Seq(S \cup T) /\ z \in Seq(S \cup T)
  BY <1>1, <1>2, SeqMonotonic
<1> DEFINE y == x \o z
           n == Len(x)
           m == Len(z)
<1>4. /\ y \in Seq(S \cup T) /\ n \in Nat /\ m \in Nat /\ DOMAIN x = 1..n /\ DOMAIN z = 1..m
      /\ DOMAIN y = 1..n + m
      /\ \A i \in 1..n + m : y[i] = IF i <= n THEN x[i] ELSE z[i - n]
  BY <1>3
<1> HIDE DEF y, n, m
<1>5. \A i \in 1..n + m : i \in 1..n \/ (i > n /\ i - n \in 1..m)
  BY <1>4
<1>6. \A i \in 1..n : i \in 1..n + m /\ y[i] = x[i]
  BY <1>4
<1>7. \A i \in 1..n + m : y[i].code = "missing-index" => i \in 1..n
  BY <1>4, <1>5
<1>8. Once(y)
  <2>1. SUFFICES ASSUME NEW i \in 1..n + m, NEW j \in 1..n + m,
                        y[i].code = "missing-index", y[j].code = "missing-index",
                        y[i].table = y[j].table, y[i].col = y[j].col
                 PROVE  i = j
    <3>1. DOMAIN y = 1..n + m
      BY <1>4
    <3> QED
      BY <3>1 DEF Once
  <2>2. i \in DOMAIN x /\ j \in DOMAIN x /\ y[i] = x[i] /\ y[j] = x[j]
    BY <1>4, <1>6, <1>7, <2>1
  <2> QED
    BY <2>1, <2>2 DEF Once
<1>9. Keeps(x, y)
  BY <1>4, <1>6 DEF Keeps
<1>10. List(y)
  BY <1>4 DEF List
<1> QED
  BY <1>8, <1>9, <1>10 DEF y

\* The same findings in another order.
LEMMA OtherOrder ==
    ASSUME NEW x, List(x), Once(x), NEW y, List(y), Rearranges(y, x)
    PROVE  Once(y) /\ Keeps(x, y)
<1>1. PICK f \in [DOMAIN x -> DOMAIN x] :
        /\ \A i, j \in DOMAIN x : f[i] = f[j] => i = j
        /\ \A k \in DOMAIN x : \E i \in DOMAIN x : f[i] = k
        /\ DOMAIN y = DOMAIN x
        /\ \A i \in DOMAIN x : y[i] = x[f[i]]
  BY DEF Rearranges
<1>2. Keeps(x, y)
  BY <1>1 DEF Keeps
<1>3. Once(y)
  BY <1>1 DEF Once
<1> QED
  BY <1>2, <1>3

LEMMA HasKept ==
    ASSUME NEW x, NEW y, Keeps(x, y), NEW t, NEW col, NEW codes, Has(x, t, col, codes)
    PROVE  Has(y, t, col, codes)
<1> QED
  BY DEF Has, Keeps

LEMMA SameKept ==
    ASSUME NEW x
    PROVE  Keeps(x, x)
<1> QED
  BY DEF Keeps

--------------------------------------------------------------------------------
(* Lists of predicates. *)

\* Every predicate is of the relation its column is resolved to.
Resolves(ps) == List(ps) /\ \A i \in DOMAIN ps : ps[i].table = Resolved(ps[i])

Extends(ps, qs) == Len(ps) <= Len(qs) /\ \A i \in 1..Len(ps) : qs[i] = ps[i]

\* A side of a comparison has a predicate, with the function around it.
Covers(ps, side) ==
    \E i \in DOMAIN ps :
        /\ ps[i].col = side.col /\ ps[i].fn = side.fn /\ ps[i].table = Resolved(side)

LEMMA ResolvedAlike ==
    ASSUME NEW p, NEW q, p.qual = q.qual, p.col = q.col
    PROVE  Resolved(p) = Resolved(q)
<1> QED
  BY DEF Resolved

LEMMA CoversKept ==
    ASSUME NEW ps, List(ps), NEW qs, List(qs), Extends(ps, qs), NEW side, Covers(ps, side)
    PROVE  Covers(qs, side)
<1>1. /\ Len(ps) \in Nat /\ Len(qs) \in Nat /\ DOMAIN ps = 1..Len(ps) /\ DOMAIN qs = 1..Len(qs)
  BY ListShape
<1>2. PICK i \in 1..Len(ps) :
        ps[i].col = side.col /\ ps[i].fn = side.fn /\ ps[i].table = Resolved(side)
  BY <1>1 DEF Covers
<1>3. i \in DOMAIN qs /\ qs[i] = ps[i]
  BY <1>1, <1>2 DEF Extends
<1> QED
  BY <1>2, <1>3 DEF Covers

LEMMA ExtendsOn ==
    ASSUME NEW ps, List(ps), NEW qs, List(qs), NEW rs, List(rs), Extends(ps, qs), Extends(qs, rs)
    PROVE  Extends(ps, rs)
<1>1. Len(ps) \in Nat /\ Len(qs) \in Nat /\ Len(rs) \in Nat
  BY ListShape
<1> QED
  BY <1>1 DEF Extends

\* A predicate that is taken for one there is already agrees with it on all of these.
LEMMA AddedCovers ==
    ASSUME NEW ps, Resolves(ps), NEW side, NEW op, NEW lit, NEW join
    PROVE  LET qs == Added(ps, Predicate(side, op, lit, join)) IN
           Resolves(qs) /\ Extends(ps, qs) /\ Covers(qs, side)
<1> DEFINE p == Predicate(side, op, lit, join)
           qs == Added(ps, p)
<1>1. List(ps) /\ Len(ps) \in Nat /\ DOMAIN ps = 1..Len(ps)
  BY ListShape DEF Resolves
<1>2. p.qual = side.qual /\ p.col = side.col /\ p.fn = side.fn /\ p.table = Resolved(side)
  BY DEF Predicate
<1>3. p.table = Resolved(p)
  BY <1>2, ResolvedAlike
<1> HIDE DEF p
<1>4. CASE \E i \in DOMAIN ps : SameKey(ps[i], p)
  <2>1. qs = ps
    BY <1>4 DEF Added
  <2>2. PICK i \in DOMAIN ps : SameKey(ps[i], p)
    BY <1>4
  <2>3. ps[i].qual = p.qual /\ ps[i].col = p.col /\ ps[i].fn = p.fn
    BY <2>2 DEF SameKey
  <2>4. ps[i].table = Resolved(p)
    BY <2>2, <2>3, ResolvedAlike DEF Resolves
  <2>5. Covers(ps, side)
    BY <1>2, <1>3, <2>2, <2>3, <2>4 DEF Covers
  <2>6. Extends(ps, ps)
    BY <1>1 DEF Extends
  <2> QED
    BY <2>1, <2>5, <2>6 DEF p
<1>5. CASE ~\E i \in DOMAIN ps : SameKey(ps[i], p)
  <2>1. qs = Append(ps, p)
    BY <1>5 DEF Added
  <2>2. /\ List(qs) /\ Len(qs) = Len(ps) + 1 /\ DOMAIN qs = 1..Len(ps) + 1
        /\ qs[Len(ps) + 1] = p /\ \A i \in 1..Len(ps) : qs[i] = ps[i]
    BY <1>1, <2>1, OneMore
  <2> HIDE DEF qs
  <2>3. \A i \in 1..Len(ps) + 1 : i \in 1..Len(ps) \/ i = Len(ps) + 1
    BY <1>1
  <2>4. Resolves(qs)
    BY <1>1, <1>3, <2>2, <2>3 DEF Resolves
  <2>5. Extends(ps, qs)
    BY <1>1, <2>2 DEF Extends
  <2>6. Len(ps) + 1 \in DOMAIN qs
    BY <1>1, <2>2
  <2>7. Covers(qs, side)
    BY <1>2, <2>2, <2>6 DEF Covers
  <2> QED
    BY <2>4, <2>5, <2>7 DEF qs, p
<1> QED
  BY <1>4, <1>5

--------------------------------------------------------------------------------
(* The inductive invariant. *)

Postgres == form.dialect = "postgres"
Steps == {"extract", "sargable", "wildcard", "in", "shape", "index", "plan", "sort", "done"}

\* How far each loop has come.
Walked == IF pc = "extract" THEN at ELSE Len(nodes)
Sargable == IF pc = "extract" THEN 0 ELSE IF pc = "sargable" THEN at ELSE Len(preds)
Indexed ==
    IF pc \in {"extract", "sargable", "wildcard", "in", "shape"} THEN 0
    ELSE IF pc = "index" THEN at ELSE Len(preds)

\* The comparisons walked over have their predicates.
Extracted ==
    Postgres => \A k \in 1..Walked : nodes[k].op \in Operators =>
        \A side \in {nodes[k].left, nodes[k].right} \ {NoSide} : Covers(preds, side)

\* The functions looked at are reported.
Reported ==
    Postgres => \A k \in 1..Sargable : preds[k].fn # "" =>
        Has(findings, preds[k].table, preds[k].col, {"non-sargable-predicate"})

\* The columns looked at are answered.
Answers == {"missing-index", "low-selectivity-column"}
Answered ==
    Postgres => \A k \in 1..Indexed : WorthLooking(preds[k].table, preds[k].col) =>
        Has(findings, preds[k].table, preds[k].col, Answers)

RInv ==
    /\ pc \in Steps /\ at \in Nat
    /\ Len(nodes) \in Nat /\ DOMAIN nodes = 1..Len(nodes)
    /\ Resolves(preds)
    /\ List(findings) /\ Once(findings)
    /\ Extracted /\ Reported /\ Answered

LEMMA EmptyLists == List(<<>>) /\ Once(<<>>) /\ Resolves(<<>>) /\ Len(<<>>) = 0
<1>1. <<>> \in Seq({}) /\ DOMAIN <<>> = {} /\ Len(<<>>) = 0
  OBVIOUS
<1>2. List(<<>>)
  BY <1>1 DEF List
<1> QED
  BY <1>1, <1>2 DEF Once, Resolves

LEMMA InitRInv == Init => RInv
<1> SUFFICES ASSUME Init
             PROVE  RInv
  OBVIOUS
<1>1. /\ at = 0 /\ preds = <<>> /\ findings = <<>>
      /\ pc = IF form.dialect = "mysql" THEN "shape" ELSE "extract"
  BY DEF Init
<1>2. PICK n \in 0..MaxNodes : nodes \in [1..n -> Nodes]
  BY DEF Init
<1>3. n \in Nat
  <2>1. MaxNodes \in Nat
    BY NodesAssumption
  <2> QED
    BY <1>2, <2>1
<1>4. nodes \in Seq(Nodes)
  BY <1>2, <1>3
<1>5. Len(nodes) \in Nat /\ DOMAIN nodes = 1..Len(nodes)
  BY <1>4, LenProperties
<1>6. Postgres => pc = "extract"
  BY <1>1 DEF Postgres
<1>7. Extracted
  BY <1>1, <1>6 DEF Extracted, Walked
<1>8. Reported /\ Answered
  BY <1>1, <1>6 DEF Reported, Answered, Sargable, Indexed
<1>9. List(findings) /\ Once(findings) /\ Resolves(preds)
  BY <1>1, EmptyLists
<1>10. pc \in Steps /\ at \in Nat
  BY <1>1 DEF Steps
<1> QED
  BY <1>5, <1>7, <1>8, <1>9, <1>10 DEF RInv

\* A step of a check: the findings so far stay, and what it looked at is answered.
LEMMA FindingsStep ==
    ASSUME RInv, UNCHANGED <<nodes, form, preds>>,
           pc # "extract", pc' # "extract", pc' \in Steps, at' \in Nat,
           List(findings'), Once(findings'), Keeps(findings, findings'),
           \A k \in 1..Sargable' : k \in 1..Sargable \/
               (preds[k].fn # "" =>
                   Has(findings', preds[k].table, preds[k].col, {"non-sargable-predicate"})),
           \A k \in 1..Indexed' : k \in 1..Indexed \/
               (WorthLooking(preds[k].table, preds[k].col) =>
                   Has(findings', preds[k].table, preds[k].col, Answers))
    PROVE  RInv'
<1>1. Postgres' = Postgres /\ Walked' = Walked
  BY DEF Postgres, Walked
<1>2. Extracted'
  BY <1>1 DEF RInv, Extracted
<1>3. Reported'
  <2>1. SUFFICES ASSUME Postgres, NEW k \in 1..Sargable', preds[k].fn # ""
                 PROVE  Has(findings', preds[k].table, preds[k].col, {"non-sargable-predicate"})
    BY <1>1 DEF Reported
  <2>2. CASE k \in 1..Sargable
    <3>1. Has(findings, preds[k].table, preds[k].col, {"non-sargable-predicate"})
      BY <2>1, <2>2 DEF RInv, Reported
    <3> QED
      BY <3>1, HasKept
  <2> QED
    BY <2>1, <2>2
<1>4. Answered'
  <2>1. SUFFICES ASSUME Postgres, NEW k \in 1..Indexed',
                        WorthLooking(preds[k].table, preds[k].col)
                 PROVE  Has(findings', preds[k].table, preds[k].col, Answers)
    BY <1>1 DEF Answered
  <2>2. CASE k \in 1..Indexed
    <3>1. Has(findings, preds[k].table, preds[k].col, Answers)
      BY <2>1, <2>2 DEF RInv, Answered
    <3> QED
      BY <3>1, HasKept
  <2> QED
    BY <2>1, <2>2
<1>5. Resolves(preds')
  BY DEF RInv
<1>6. Len(nodes') \in Nat /\ DOMAIN nodes' = 1..Len(nodes')
  BY DEF RInv
<1> QED
  BY <1>2, <1>3, <1>4, <1>5, <1>6 DEF RInv

\* Both sides of a comparison get their predicates.
LEMMA ExtractStep == RInv /\ Extract => RInv'
<1> SUFFICES ASSUME RInv, Extract
             PROVE  RInv'
  OBVIOUS
<1> DEFINE n == nodes[at + 1]
<1>1. /\ pc = "extract" /\ at \in Nat /\ Len(nodes) \in Nat /\ DOMAIN nodes = 1..Len(nodes)
      /\ UNCHANGED <<nodes, form, findings>> /\ Resolves(preds) /\ List(preds)
  BY DEF RInv, Extract, input, Resolves
<1>2. /\ pc' \in Steps /\ at' \in Nat
      /\ Sargable' = 0 /\ Indexed' = 0 /\ Postgres' = Postgres
  <2>1. Advance(Len(nodes)) \/ Leave(Len(nodes), "sargable")
    BY DEF Extract
  <2>2. (at' = at + 1 /\ pc' = "extract") \/ (at' = 0 /\ pc' = "sargable")
    BY <1>1, <2>1 DEF Advance, Leave
  <2> QED
    BY <1>1, <2>2 DEF Steps, Sargable, Indexed, Postgres
<1>3. Reported' /\ Answered'
  BY <1>2 DEF Reported, Answered
<1>4. ASSUME Resolves(preds'), Extends(preds, preds'),
             \A k \in 1..Walked' : k \in 1..at \/
                 (nodes[k].op \in Operators =>
                     \A side \in {nodes[k].left, nodes[k].right} \ {NoSide} : Covers(preds', side))
      PROVE  RInv'
  <2>1. Extracted'
    <3>1. SUFFICES ASSUME Postgres, NEW k \in 1..Walked', nodes[k].op \in Operators,
                          NEW side \in {nodes[k].left, nodes[k].right} \ {NoSide}
                   PROVE  Covers(preds', side)
      BY <1>1, <1>2 DEF Extracted
    <3>2. CASE k \in 1..at
      <4>1. Covers(preds, side)
        BY <1>1, <3>1, <3>2 DEF RInv, Extracted, Walked
      <4>2. List(preds')
        BY <1>4 DEF Resolves
      <4> QED
        BY <1>1, <1>4, <4>1, <4>2, CoversKept
    <3> QED
      BY <1>4, <3>1, <3>2
  <2>2. List(findings') /\ Once(findings') /\ Len(nodes') \in Nat /\ DOMAIN nodes' = 1..Len(nodes')
    BY <1>1 DEF RInv
  <2> QED
    BY <1>2, <1>3, <1>4, <2>1, <2>2 DEF RInv
<1>5. CASE Leave(Len(nodes), "sargable") /\ UNCHANGED preds
  <2>1. Walked' = Len(nodes) /\ at >= Len(nodes)
    BY <1>1, <1>5 DEF Leave, Walked
  <2>2. \A k \in 1..Walked' : k \in 1..at
    BY <1>1, <2>1
  <2>3. Extends(preds, preds')
    BY <1>1, <1>5, ListShape DEF Extends
  <2>4. Resolves(preds')
    BY <1>1, <1>5
  <2> QED
    BY <1>4, <2>2, <2>3, <2>4
<1>6. CASE Advance(Len(nodes))
  <2>1. /\ at < Len(nodes) /\ Walked' = at + 1 /\ at + 1 \in DOMAIN nodes
        /\ preds' =
              CASE n.op \notin Operators \/ (n.left = NoSide /\ n.right = NoSide) -> preds
                [] n.op \in Operators /\ n.left # NoSide /\ n.right = NoSide ->
                      Added(preds, Predicate(n.left, n.op, n.lit, "filter"))
                [] n.op \in Operators /\ n.left = NoSide /\ n.right # NoSide ->
                      Added(preds, Predicate(n.right, Flipped(n.op), n.lit, "filter"))
                [] OTHER -> Added(Added(preds, Predicate(n.left, n.op, "", "join")),
                                  Predicate(n.right, n.op, "", "join"))
    <3>1. at < Len(nodes) /\ at' = at + 1 /\ pc' = "extract"
      BY <1>1, <1>6 DEF Advance
    <3>2. ~Leave(Len(nodes), "sargable")
      BY <3>1 DEF Leave
    <3>3. Walked' = at + 1 /\ at + 1 \in DOMAIN nodes
      BY <1>1, <3>1 DEF Walked
    <3> QED
      BY <3>1, <3>2, <3>3 DEF Extract
  <2>2. \A k \in 1..Walked' : k \in 1..at \/ k = at + 1
    <3>1. Walked' = at + 1 /\ at \in Nat
      BY <1>1, <2>1
    <3> QED
      BY <3>1
  <2>3. ASSUME Resolves(preds'), Extends(preds, preds'),
               n.op \in Operators => \A side \in {n.left, n.right} \ {NoSide} : Covers(preds', side)
        PROVE  RInv'
    <3>1. \A k \in 1..Walked' : k \in 1..at \/
             (nodes[k].op \in Operators =>
                 \A side \in {nodes[k].left, nodes[k].right} \ {NoSide} : Covers(preds', side))
      BY <2>2, <2>3
    <3> QED
      BY <1>4, <2>3, <3>1
  <2> HIDE DEF n
  <2>4. CASE n.op \notin Operators \/ (n.left = NoSide /\ n.right = NoSide)
    <3>1. preds' = preds
      BY <2>1, <2>4
    <3>2. Extends(preds, preds')
      BY <1>1, <3>1, ListShape DEF Extends
    <3> QED
      BY <1>1, <2>3, <2>4, <3>1, <3>2
  <2>5. CASE n.op \in Operators /\ n.right = NoSide /\ n.left # NoSide
    <3>1. preds' = Added(preds, Predicate(n.left, n.op, n.lit, "filter"))
      BY <2>1, <2>5
    <3>2. Resolves(preds') /\ Extends(preds, preds') /\ Covers(preds', n.left)
      BY <1>1, <3>1, AddedCovers
    <3> QED
      BY <2>3, <2>5, <3>2
  <2>6. CASE n.op \in Operators /\ n.right # NoSide /\ n.left = NoSide
    <3>1. preds' = Added(preds, Predicate(n.right, Flipped(n.op), n.lit, "filter"))
      BY <2>1, <2>6
    <3>2. Resolves(preds') /\ Extends(preds, preds') /\ Covers(preds', n.right)
      BY <1>1, <3>1, AddedCovers
    <3> QED
      BY <2>3, <2>6, <3>2
  <2>7. CASE n.op \in Operators /\ n.right # NoSide /\ n.left # NoSide
    <3> DEFINE qs == Added(preds, Predicate(n.left, n.op, "", "join"))
    <3>1. preds' = Added(qs, Predicate(n.right, n.op, "", "join"))
      BY <2>1, <2>7
    <3>2. Resolves(qs) /\ Extends(preds, qs) /\ Covers(qs, n.left)
      BY <1>1, AddedCovers
    <3> HIDE DEF qs
    <3>3. Resolves(preds') /\ Extends(qs, preds') /\ Covers(preds', n.right)
      BY <3>1, <3>2, AddedCovers
    <3>4. List(qs) /\ List(preds')
      BY <3>2, <3>3 DEF Resolves
    <3>5. Extends(preds, preds') /\ Covers(preds', n.left)
      BY <1>1, <3>2, <3>3, <3>4, ExtendsOn, CoversKept
    <3> QED
      BY <2>3, <3>3, <3>5
  <2> QED
    BY <2>4, <2>5, <2>6, <2>7
<1> QED
  BY <1>5, <1>6 DEF Extract

\* The checks that add findings of their own kind, and look at no predicate.
LEMMA OtherFindings ==
    ASSUME RInv, UNCHANGED <<nodes, form, preds>>,
           pc # "extract", pc' # "extract", pc' \in Steps, at' \in Nat,
           List(findings'), Once(findings'), Keeps(findings, findings'),
           \A k \in 1..Sargable' : k \in 1..Sargable,
           \A k \in 1..Indexed' : k \in 1..Indexed
    PROVE  RInv'
<1> QED
  BY FindingsStep

LEMMA FindingShape ==
    ASSUME NEW code, NEW severity, NEW t, NEW col, NEW r
    PROVE  LET f == Finding(code, severity, t, col)
               g == [Finding(code, severity, t, col) EXCEPT !.rewrites = r] IN
           /\ f.code = code /\ f.table = t /\ f.col = col
           /\ g.code = code /\ g.table = t /\ g.col = col
<1> QED
  BY DEF Finding

\* The functions around columns.
LEMMA SargabilityStep == RInv /\ CheckSargability => RInv'
<1> SUFFICES ASSUME RInv, CheckSargability
             PROVE  RInv'
  OBVIOUS
<1> DEFINE p == preds[at + 1]
           f == [Finding("non-sargable-predicate", "high", p.table, p.col)
                    EXCEPT !.rewrites = Rewritten(p)]
<1>1. /\ pc = "sargable" /\ at \in Nat /\ UNCHANGED <<nodes, form, preds>>
      /\ List(findings) /\ Once(findings) /\ Len(preds) \in Nat
  BY ListShape DEF RInv, CheckSargability, input, Resolves
<1>2. CASE Leave(Len(preds), "wildcard") /\ UNCHANGED findings
  <2>1. pc' = "wildcard" /\ at' = 0 /\ at >= Len(preds)
    BY <1>2 DEF Leave
  <2>2. Sargable' = Len(preds) /\ Sargable = at /\ Indexed' = 0
    BY <1>1, <2>1 DEF Sargable, Indexed
  <2>3. \A k \in 1..Sargable' : k \in 1..Sargable
    BY <1>1, <2>1, <2>2
  <2>4. \A k \in 1..Indexed' : k \in 1..Indexed
    BY <2>2
  <2> QED
    BY <1>1, <1>2, <2>1, <2>3, <2>4, OtherFindings, SameKept DEF Steps
<1>3. CASE /\ Advance(Len(preds))
           /\ findings' = IF ~Wrapped(p) THEN findings ELSE Append(findings, f)
  <2>1. at' = at + 1 /\ pc' = "sargable"
    BY <1>1, <1>3 DEF Advance
  <2>2. Sargable' = at + 1 /\ Sargable = at /\ Indexed' = 0
    BY <1>1, <2>1 DEF Sargable, Indexed
  <2>3. \A k \in 1..Sargable' : k \in 1..Sargable \/ k = at + 1
    BY <1>1, <2>2
  <2>4. \A k \in 1..Indexed' : k \in 1..Indexed
    BY <2>2
  <2>5. f.code = "non-sargable-predicate" /\ f.table = p.table /\ f.col = p.col
    BY FindingShape
  <2> HIDE DEF f
  <2>6. /\ List(findings') /\ Once(findings') /\ Keeps(findings, findings')
        /\ p.fn # "" => Has(findings', p.table, p.col, {"non-sargable-predicate"})
    <3>1. CASE ~Wrapped(p)
      BY <1>1, <1>3, <3>1, SameKept DEF Wrapped
    <3>2. CASE Wrapped(p)
      <4>1. findings' = Append(findings, f)
        BY <1>3, <3>2
      <4> QED
        BY <1>1, <2>5, <4>1, OneMoreFinding
    <3> QED
      BY <3>1, <3>2
  <2>7. \A k \in 1..Sargable' : k \in 1..Sargable \/
           (preds[k].fn # "" =>
               Has(findings', preds[k].table, preds[k].col, {"non-sargable-predicate"}))
    BY <2>3, <2>6
  <2>8. at' \in Nat /\ pc' \in Steps /\ pc # "extract" /\ pc' # "extract"
    BY <1>1, <2>1 DEF Steps
  <2>9. \A k \in 1..Indexed' : k \in 1..Indexed \/
           (WorthLooking(preds[k].table, preds[k].col) =>
               Has(findings', preds[k].table, preds[k].col, Answers))
    BY <2>4
  <2> QED
    BY <1>1, <2>6, <2>7, <2>8, <2>9, FindingsStep
<1> QED
  BY <1>2, <1>3 DEF CheckSargability

\* A check that leaves the list alone or adds one finding that is no suggestion.
LEMMA AsideStep ==
    ASSUME RInv, UNCHANGED <<nodes, form, preds>>,
           pc \in {"wildcard", "in", "plan"}, pc' \in {"wildcard", "in", "shape", "plan", "sort"},
           at' \in Nat, pc = "plan" <=> pc' \in {"plan", "sort"},
           \/ UNCHANGED findings
           \/ \E e : e.code # "missing-index" /\ findings' = Append(findings, e)
    PROVE  RInv'
<1>1. List(findings) /\ Once(findings)
  BY DEF RInv
<1>2. List(findings') /\ Once(findings') /\ Keeps(findings, findings')
  <2>1. CASE UNCHANGED findings
    BY <1>1, <2>1, SameKept
  <2>2. ASSUME NEW e, e.code # "missing-index", findings' = Append(findings, e)
        PROVE  List(findings') /\ Once(findings') /\ Keeps(findings, findings')
    BY <1>1, <2>2, OneMoreFinding
  <2> QED
    BY <2>1, <2>2
<1>3. Sargable' = Sargable /\ Indexed' = Indexed
  BY DEF Sargable, Indexed
<1>4. pc' \in Steps /\ pc # "extract" /\ pc' # "extract"
  BY DEF Steps
<1> QED
  BY <1>2, <1>3, <1>4, OtherFindings

LEMMA WildcardStep == RInv /\ CheckLeadingWildcard => RInv'
<1> SUFFICES ASSUME RInv, CheckLeadingWildcard
             PROVE  RInv'
  OBVIOUS
<1> DEFINE n == nodes[at + 1]
           e == Finding("leading-wildcard-like", "high", n.left.qual, n.left.col)
<1>1. pc = "wildcard" /\ at \in Nat /\ UNCHANGED <<nodes, form, preds>>
  BY DEF RInv, CheckLeadingWildcard, input
<1>2. e.code # "missing-index"
  BY DEF Finding
<1> HIDE DEF e
<1>3. (pc' = "wildcard" /\ at' = at + 1) \/ (pc' = "in" /\ at' = 0)
  BY <1>1 DEF CheckLeadingWildcard, Advance, Leave
<1>4. UNCHANGED findings \/ findings' = Append(findings, e)
  BY DEF CheckLeadingWildcard, e
<1> QED
  BY <1>1, <1>2, <1>3, <1>4, AsideStep

LEMMA NotInStep == RInv /\ CheckNotIn => RInv'
<1> SUFFICES ASSUME RInv, CheckNotIn
             PROVE  RInv'
  OBVIOUS
<1> DEFINE e == Finding("not-in-subquery", "medium", "", "")
<1>1. pc = "in" /\ at \in Nat /\ UNCHANGED <<nodes, form, preds>>
  BY DEF RInv, CheckNotIn, input
<1>2. e.code # "missing-index"
  BY DEF Finding
<1> HIDE DEF e
<1>3. (pc' = "in" /\ at' = at + 1) \/ (pc' = "shape" /\ at' = 0)
  BY <1>1 DEF CheckNotIn, Advance, Leave
<1>4. UNCHANGED findings \/ findings' = Append(findings, e)
  BY DEF CheckNotIn, e
<1> QED
  BY <1>1, <1>2, <1>3, <1>4, AsideStep

\* Two findings that are there or not.
LEMMA TwoMore ==
    ASSUME NEW x, List(x), Once(x), NEW c, NEW e, NEW d, NEW f,
           e.code # "missing-index", f.code # "missing-index"
    PROVE  LET y == x \o If(c, e) \o If(d, f) IN List(y) /\ Once(y) /\ Keeps(x, y)
<1>1. ASSUME NEW b, NEW g, g.code # "missing-index"
      PROVE  List(If(b, g)) /\ \A i \in DOMAIN If(b, g) : If(b, g)[i].code # "missing-index"
  <2>1. CASE b
    <3>1. If(b, g) = <<g>> /\ <<g>> \in Seq({g}) /\ DOMAIN <<g>> = {1} /\ <<g>>[1] = g
      BY <2>1 DEF If
    <3> QED
      BY <1>1, <3>1 DEF List
  <2>2. CASE ~b
    <3>1. If(b, g) = <<>> /\ <<>> \in Seq({}) /\ DOMAIN <<>> = {}
      BY <2>2 DEF If
    <3> QED
      BY <3>1 DEF List
  <2> QED
    BY <2>1, <2>2
<1> DEFINE y == x \o If(c, e)
           z == y \o If(d, f)
<1>2. List(y) /\ Once(y) /\ Keeps(x, y)
  <2>1. List(If(c, e)) /\ \A i \in DOMAIN If(c, e) : If(c, e)[i].code # "missing-index"
    BY <1>1
  <2> QED
    BY <2>1, MoreFindings
<1> HIDE DEF y
<1>3. List(z) /\ Once(z) /\ Keeps(y, z)
  <2>1. List(If(d, f)) /\ \A i \in DOMAIN If(d, f) : If(d, f)[i].code # "missing-index"
    BY <1>1
  <2> QED
    BY <1>2, <2>1, MoreFindings
<1> HIDE DEF z
<1>4. Keeps(x, z)
  BY <1>2, <1>3 DEF Keeps
<1> QED
  BY <1>3, <1>4 DEF y, z

LEMMA ShapeStep == RInv /\ CheckShape => RInv'
<1> SUFFICES ASSUME RInv, CheckShape
             PROVE  RInv'
  OBVIOUS
<1> DEFINE e == Finding("select-star", "medium", "", "")
           f == Finding("limit-without-order-by", "medium", "", "")
<1>1. /\ pc = "shape" /\ pc' = "index" /\ at' = 0 /\ UNCHANGED <<nodes, form, preds>>
      /\ findings' = findings \o If(form.star, e) \o If(form.limit /\ ~form.order, f)
      /\ List(findings) /\ Once(findings)
  BY DEF RInv, CheckShape, StarSelected, LimitWithoutOrder, input
<1>2. e.code # "missing-index" /\ f.code # "missing-index"
  BY DEF Finding
<1> HIDE DEF e, f
<1>3. List(findings') /\ Once(findings') /\ Keeps(findings, findings')
  BY <1>1, <1>2, TwoMore
<1>4. Sargable' = Sargable /\ Indexed' = 0
  BY <1>1 DEF Sargable, Indexed
<1>5. \A k \in 1..Indexed' : k \in 1..Indexed
  BY <1>4
<1> QED
  BY <1>1, <1>3, <1>4, <1>5, OtherFindings DEF Steps

\* The columns without an index of their own.
LEMMA MissingIndexesStep == RInv /\ CheckMissingIndexes => RInv'
<1> SUFFICES ASSUME RInv, CheckMissingIndexes
             PROVE  RInv'
  OBVIOUS
<1> DEFINE p == preds[at + 1]
           low == Finding("low-selectivity-column", "low", p.table, p.col)
           missing == Finding("missing-index", "high", p.table, p.col)
<1>1. /\ pc = "index" /\ at \in Nat /\ UNCHANGED <<nodes, form, preds>>
      /\ List(findings) /\ Once(findings) /\ Len(preds) \in Nat
  BY ListShape DEF RInv, CheckMissingIndexes, input, Resolves
<1>2. CASE Leave(Len(preds), "plan") /\ UNCHANGED findings
  <2>1. pc' = "plan" /\ at' = 0 /\ at >= Len(preds)
    BY <1>2 DEF Leave
  <2>2. Sargable' = Sargable /\ Indexed' = Len(preds) /\ Indexed = at
    BY <1>1, <2>1 DEF Sargable, Indexed
  <2>3. \A k \in 1..Indexed' : k \in 1..Indexed
    BY <1>1, <2>1, <2>2
  <2> QED
    BY <1>1, <1>2, <2>1, <2>2, <2>3, OtherFindings, SameKept DEF Steps
<1>3. CASE /\ Advance(Len(preds))
           /\ findings' =
                 IF ~WorthLooking(p.table, p.col) THEN findings
                 ELSE IF Declined(p) THEN Append(findings, low)
                 ELSE IF Proposed(p.table, p.col) THEN findings
                 ELSE Append(findings, missing)
  <2>1. at' = at + 1 /\ pc' = "index"
    BY <1>1, <1>3 DEF Advance
  <2>2. Sargable' = Sargable /\ Indexed' = at + 1 /\ Indexed = at
    BY <1>1, <2>1 DEF Sargable, Indexed
  <2>3. \A k \in 1..Indexed' : k \in 1..Indexed \/ k = at + 1
    BY <1>1, <2>2
  <2>4. /\ low.code = "low-selectivity-column" /\ low.table = p.table /\ low.col = p.col
        /\ missing.code = "missing-index" /\ missing.table = p.table /\ missing.col = p.col
    BY FindingShape
  <2> HIDE DEF low, missing
  <2>5. /\ List(findings') /\ Once(findings') /\ Keeps(findings, findings')
        /\ WorthLooking(p.table, p.col) => Has(findings', p.table, p.col, Answers)
    <3>1. CASE ~WorthLooking(p.table, p.col)
      BY <1>1, <1>3, <3>1, SameKept
    <3>2. CASE WorthLooking(p.table, p.col) /\ Declined(p)
      <4>1. findings' = Append(findings, low)
        BY <1>3, <3>2
      <4>2. /\ List(findings') /\ Once(findings') /\ Keeps(findings, findings')
            /\ Has(findings', p.table, p.col, {"low-selectivity-column"})
        BY <1>1, <2>4, <4>1, OneMoreFinding
      <4> QED
        BY <4>2 DEF Has, Answers
    <3>3. CASE WorthLooking(p.table, p.col) /\ ~Declined(p) /\ Proposed(p.table, p.col)
      <4>1. findings' = findings
        BY <1>3, <3>3
      <4>2. Has(findings, p.table, p.col, Answers)
        BY <3>3 DEF Proposed, Has, Answers
      <4> QED
        BY <1>1, <4>1, <4>2, SameKept
    <3>4. CASE WorthLooking(p.table, p.col) /\ ~Declined(p) /\ ~Proposed(p.table, p.col)
      <4>1. findings' = Append(findings, missing)
        BY <1>3, <3>4
      <4>2. ~Has(findings, p.table, p.col, {"missing-index"})
        BY <3>4 DEF Proposed, Has
      <4>3. /\ List(findings') /\ Once(findings') /\ Keeps(findings, findings')
            /\ Has(findings', p.table, p.col, {"missing-index"})
        BY <1>1, <2>4, <4>1, <4>2, OneMoreFinding
      <4> QED
        BY <4>3 DEF Has, Answers
    <3> QED
      BY <3>1, <3>2, <3>3, <3>4
  <2>6. \A k \in 1..Indexed' : k \in 1..Indexed \/
           (WorthLooking(preds[k].table, preds[k].col) =>
               Has(findings', preds[k].table, preds[k].col, Answers))
    BY <2>3, <2>5
  <2>7. \A k \in 1..Sargable' : k \in 1..Sargable \/
           (preds[k].fn # "" =>
               Has(findings', preds[k].table, preds[k].col, {"non-sargable-predicate"}))
    BY <2>2
  <2>8. at' \in Nat /\ pc' \in Steps /\ pc # "extract" /\ pc' # "extract"
    BY <1>1, <2>1 DEF Steps
  <2> QED
    BY <1>1, <2>5, <2>6, <2>7, <2>8, FindingsStep
<1> QED
  BY <1>2, <1>3 DEF CheckMissingIndexes

LEMMA PlanStep == RInv /\ CheckPlan => RInv'
<1> SUFFICES ASSUME RInv, CheckPlan
             PROVE  RInv'
  OBVIOUS
<1>1. /\ pc = "plan" /\ at \in Nat /\ UNCHANGED <<nodes, form, preds>>
      /\ List(findings) /\ Once(findings)
  BY DEF RInv, CheckPlan, input
<1>2. CASE Advance(Len(plan.scans))
  <2> DEFINE e == Finding("seq-scan-large-table", "high", plan.scans[at + 1], "")
  <2>1. at' = at + 1 /\ pc' = "plan" /\ ~Leave(Len(plan.scans), "sort")
    BY <1>1, <1>2 DEF Advance, Leave
  <2>2. e.code # "missing-index"
    BY DEF Finding
  <2>3. UNCHANGED findings \/ findings' = Append(findings, e)
    BY <2>1 DEF CheckPlan
  <2> HIDE DEF e
  <2> QED
    BY <1>1, <2>1, <2>2, <2>3, AsideStep
<1>3. CASE ~Advance(Len(plan.scans))
  <2> DEFINE e == Finding("row-estimate-off", "medium", "", "")
             f == Finding("sort-spilled-to-disk", "medium", "", "")
  <2>1. /\ Leave(Len(plan.scans), "sort")
        /\ findings' = findings \o If(EstimateOff, e) \o If(plan.temp > 0, f)
    BY <1>3 DEF CheckPlan
  <2>2. at' = 0 /\ pc' = "sort"
    BY <2>1 DEF Leave
  <2>3. e.code # "missing-index" /\ f.code # "missing-index"
    BY DEF Finding
  <2> HIDE DEF e, f
  <2>4. List(findings') /\ Once(findings') /\ Keeps(findings, findings')
    BY <1>1, <2>1, <2>3, TwoMore
  <2>5. Sargable' = Sargable /\ Indexed' = Indexed
    BY <1>1, <2>2 DEF Sargable, Indexed
  <2> QED
    BY <1>1, <2>2, <2>4, <2>5, OtherFindings DEF Steps
<1> QED
  BY <1>2, <1>3

\* The order of the report is an order of its places.
LEMMA SeverestFirstOrders ==
    ASSUME NEW s, NEW n \in Nat, DOMAIN s = 1..n
    PROVE  Orders(SeverestFirst(s), DOMAIN s)
<1> DEFINE rank(i) == SeverityRank(s[i].severity)
<1>1. \A i \in 1..n : rank(i) \in Nat
  BY DEF SeverityRank
<1>2. \A i, j \in 1..n : <<i, j>> \in SeverestFirst(s) <=>
         rank(i) < rank(j) \/ (rank(i) = rank(j) /\ i < j)
  BY DEF SeverestFirst
<1> HIDE DEF rank
<1>3. \A i \in 1..n : <<i, i>> \notin SeverestFirst(s)
  BY <1>1, <1>2
<1>4. ASSUME NEW i \in 1..n, NEW j \in 1..n
      PROVE  i = j \/ <<i, j>> \in SeverestFirst(s) \/ <<j, i>> \in SeverestFirst(s)
  <2>1. rank(i) < rank(j) \/ rank(j) < rank(i) \/ (rank(i) = rank(j) /\ (i < j \/ j < i \/ i = j))
    BY <1>1
  <2> QED
    BY <1>2, <2>1
<1>5. ASSUME NEW i \in 1..n, NEW j \in 1..n, NEW k \in 1..n,
             <<i, j>> \in SeverestFirst(s), <<j, k>> \in SeverestFirst(s)
      PROVE  <<i, k>> \in SeverestFirst(s)
  <2>1. /\ rank(i) < rank(j) \/ (rank(i) = rank(j) /\ i < j)
        /\ rank(j) < rank(k) \/ (rank(j) = rank(k) /\ j < k)
    BY <1>2, <1>5
  <2>2. rank(i) < rank(k) \/ (rank(i) = rank(k) /\ i < k)
    BY <1>1, <2>1
  <2> QED
    BY <1>2, <2>2
<1> QED
  BY <1>3, <1>4, <1>5 DEF Orders

LEMMA SortStep == RInv /\ SortFindings => RInv'
<1> SUFFICES ASSUME RInv, SortFindings
             PROVE  RInv'
  OBVIOUS
<1>1. /\ pc = "sort" /\ pc' = "done" /\ at' = 0 /\ UNCHANGED <<nodes, form, preds>>
      /\ findings' = Sorted(findings, SeverestFirst(findings))
      /\ List(findings) /\ Once(findings)
  BY DEF RInv, SortFindings, input
<1>2. PICK S : findings \in Seq(S)
  BY <1>1 DEF List
<1>3. Orders(SeverestFirst(findings), DOMAIN findings)
  BY <1>1, ListShape, SeverestFirstOrders
<1>4. findings' \in Seq(S) /\ Rearranges(findings', findings)
  BY <1>1, <1>2, <1>3, SortedRearranges
<1>5. List(findings')
  BY <1>4 DEF List
<1>6. Once(findings') /\ Keeps(findings, findings')
  BY <1>1, <1>4, <1>5, OtherOrder
<1>7. Sargable' = Sargable /\ Indexed' = Indexed
  BY <1>1 DEF Sargable, Indexed
<1> QED
  BY <1>1, <1>5, <1>6, <1>7, OtherFindings DEF Steps

LEMMA NextRInv == RInv /\ [Next]_vars => RInv'
<1> SUFFICES ASSUME RInv, [Next]_vars
             PROVE  RInv'
  OBVIOUS
<1>1. CASE UNCHANGED vars
  <2>1. UNCHANGED <<nodes, form, pc, at, preds, findings>>
    BY <1>1 DEF vars
  <2> QED
    BY <2>1 DEF RInv, Extracted, Reported, Answered, Walked, Sargable, Indexed, Postgres
<1>2. CASE Next
  BY <1>2, ExtractStep, SargabilityStep, WildcardStep, NotInStep, ShapeStep,
     MissingIndexesStep, PlanStep, SortStep DEF Next
<1> QED
  BY <1>1, <1>2

LEMMA RulesInvariant == Spec => []RInv
<1> QED
  BY InitRInv, NextRInv, PTL DEF Spec

--------------------------------------------------------------------------------
(* The theorems. *)

\* However a column is compared, one index is suggested for it, before and after the
\* findings are sorted (rules.go, checkMissingIndexes and Analyze).
THEOREM OneSuggestionPerColumn == Spec => []SuggestedOnce
<1>1. RInv => SuggestedOnce
  BY DEF RInv, Once, SuggestedOnce, Suggested
<1> QED
  BY <1>1, RulesInvariant, PTL

\* What is handed on is in order of severity.
SeverestFirstAtEnd ==
    pc = "done" => \A i, k \in DOMAIN findings : i < k =>
        SeverityRank(findings[i].severity) <= SeverityRank(findings[k].severity)

LEMMA SeverityStep ==
    RInv /\ SeverestFirstAtEnd /\ [Next]_vars => SeverestFirstAtEnd'
<1> SUFFICES ASSUME RInv, SeverestFirstAtEnd, [Next]_vars, pc' = "done",
                    NEW i \in DOMAIN findings', NEW k \in DOMAIN findings', i < k
             PROVE  SeverityRank(findings'[i].severity) <= SeverityRank(findings'[k].severity)
  BY DEF SeverestFirstAtEnd
<1>1. CASE UNCHANGED vars
  BY <1>1 DEF vars, SeverestFirstAtEnd
<1>2. CASE SortFindings
  <2> DEFINE R == SeverestFirst(findings)
  <2>1. findings' = Sorted(findings, R) /\ List(findings)
    BY <1>2 DEF RInv, SortFindings
  <2>2. PICK S : findings \in Seq(S)
    BY <2>1 DEF List
  <2>3. Orders(R, DOMAIN findings)
    BY <2>1, ListShape, SeverestFirstOrders
  <2> HIDE DEF R
  <2>4. Follows(findings', findings, R) /\ DOMAIN findings' = DOMAIN findings
    <3>1. Follows(Sorted(findings, R), findings, R)
      BY <2>2, <2>3, SortedInOrder
    <3>2. DOMAIN Sorted(findings, R) = DOMAIN findings
      BY DEF Sorted
    <3> QED
      BY <2>1, <3>1, <3>2
  <2>5. PICK a \in DOMAIN findings, b \in DOMAIN findings :
           findings'[i] = findings[a] /\ findings'[k] = findings[b] /\ <<a, b>> \in R
    BY <2>4 DEF Follows
  <2>6. SeverityRank(findings[a].severity) <= SeverityRank(findings[b].severity)
    <3>1. \A x : SeverityRank(x) \in Nat
      BY DEF SeverityRank
    <3>2. \/ SeverityRank(findings[a].severity) < SeverityRank(findings[b].severity)
          \/ SeverityRank(findings[a].severity) = SeverityRank(findings[b].severity)
      BY <2>5 DEF R, SeverestFirst
    <3> QED
      BY <3>1, <3>2
  <2> QED
    BY <2>5, <2>6
<1>3. CASE Next /\ ~ SortFindings
  <2>1. pc' # "done"
    <3>1. CASE Extract \/ CheckSargability \/ CheckLeadingWildcard \/ CheckNotIn
      BY <3>1 DEF Extract, CheckSargability, CheckLeadingWildcard, CheckNotIn, Advance, Leave
    <3>2. CASE CheckShape \/ CheckMissingIndexes \/ CheckPlan
      BY <3>2 DEF CheckShape, CheckMissingIndexes, CheckPlan, Advance, Leave
    <3> QED
      BY <1>3, <3>1, <3>2 DEF Next
  <2> QED
    BY <2>1
<1> QED
  BY <1>1, <1>2, <1>3

\* However many findings each check adds and in what order, what Analyze hands on has no
\* finding before a more severe one: the prompt and the index experiments, which stop at a
\* budget, take them in that order (rules.go, Analyze; optimizer.go, runIndexExperiments).
THEOREM MostSevereFirst == Spec => []SeverestFirstAtEnd
<1>1. Init => SeverestFirstAtEnd
  BY DEF Init, SeverestFirstAtEnd
<1> QED
  BY <1>1, SeverityStep, RulesInvariant, PTL DEF Spec

\* Every side of every comparison has its predicate when the report is done.
LEMMA WrittenIsCovered ==
    ASSUME RInv, pc = "done", Postgres, NEW s \in Written
    PROVE  \E k \in 1..Len(preds) :
               preds[k].col = s.col /\ preds[k].fn = s.fn /\ preds[k].table = Resolved(s)
<1>1. PICK i \in DOMAIN nodes :
        nodes[i].op \in Operators /\ s \in {nodes[i].left, nodes[i].right} /\ s # NoSide
  <2>1. s \in UNION {{nodes[j].left, nodes[j].right} : j \in Compared} /\ s # NoSide
    BY DEF Written
  <2>2. PICK i \in Compared : s \in {nodes[i].left, nodes[i].right}
    BY <2>1
  <2> QED
    BY <2>1, <2>2 DEF Compared
<1>2. i \in 1..Walked
  BY <1>1 DEF RInv, Walked
<1>3. Covers(preds, s)
  BY <1>1, <1>2 DEF RInv, Extracted
<1>4. DOMAIN preds = 1..Len(preds)
  BY ListShape DEF RInv, Resolves
<1> QED
  BY <1>3, <1>4 DEF Covers

\* Every function around a compared column is reported, whatever other comparisons
\* there are of the column (rules.go, extractPredicates and checkSargability).
THEOREM EveryFunctionReported == Spec => []FunctionsReported
<1>1. ASSUME RInv
      PROVE  FunctionsReported
  <2>1. SUFFICES ASSUME pc = "done", Postgres, NEW s \in Written, s.fn # ""
                 PROVE  Said(Resolved(s), s.col, {"non-sargable-predicate"})
    BY DEF FunctionsReported, Postgres
  <2>2. PICK k \in 1..Len(preds) :
          preds[k].col = s.col /\ preds[k].fn = s.fn /\ preds[k].table = Resolved(s)
    BY <1>1, <2>1, WrittenIsCovered
  <2>3. Sargable = Len(preds)
    BY <2>1 DEF Sargable
  <2>4. Has(findings, Resolved(s), s.col, {"non-sargable-predicate"})
    BY <1>1, <2>1, <2>2, <2>3 DEF RInv, Reported
  <2> QED
    BY <2>4 DEF Has, Said
<1>2. RInv => FunctionsReported
  BY <1>1
<1> QED
  BY <1>2, RulesInvariant, PTL

\* Every compared column of a large relation that the rules can tell gets a suggestion or
\* the reason why not (rules.go, checkMissingIndexes).
THEOREM EveryColumnGetsAnAnswer == Spec => []EveryColumnAnswered
<1>1. ASSUME RInv
      PROVE  EveryColumnAnswered
  <2>1. SUFFICES ASSUME pc = "done", Postgres, NEW s \in Written, Clear(s), s.real \in Tables,
                        s.col \notin Leading[s.real], Rows[s.real] >= 1000
                 PROVE  Said(s.real, s.col, {"missing-index", "low-selectivity-column"})
    BY DEF EveryColumnAnswered, Postgres
  <2>2. PICK k \in 1..Len(preds) :
          preds[k].col = s.col /\ preds[k].fn = s.fn /\ preds[k].table = Resolved(s)
    BY <1>1, <2>1, WrittenIsCovered
  <2>3. Indexed = Len(preds)
    BY <2>1 DEF Indexed
  <2>4. WorthLooking(preds[k].table, preds[k].col)
    BY <2>1, <2>2 DEF WorthLooking, IndexLeadsWith, Clear
  <2>5. Has(findings, preds[k].table, preds[k].col, Answers)
    BY <1>1, <2>1, <2>2, <2>3, <2>4 DEF RInv, Answered
  <2>6. preds[k].table = s.real
    BY <2>1, <2>2 DEF Clear
  <2> QED
    BY <2>2, <2>5, <2>6 DEF Has, Said, Answers
<1>2. RInv => EveryColumnAnswered
  BY <1>1
<1> QED
  BY <1>2, RulesInvariant, PTL

--------------------------------------------------------------------------------
(* The date rewrite: one comparison. *)

\* An instant is on a day exactly if it is in the half-open range from its midnight.
LEMMA OnTheDay ==
    ASSUME NEW v \in Nat, NEW t \in Nat, MidnightOf(t) = t
    PROVE  MidnightOf(v) = t <=> v >= t /\ v < t + DayLength
<1> DEFINE D == DayLength
           q == v \div D
           d == t \div D
<1>1. D \in Nat /\ D > 0
  BY InstantsAssumption
<1>2. /\ q \in Int /\ v % D \in 0..(D - 1) /\ v = D * q + (v % D)
      /\ d \in Int /\ t % D \in 0..(D - 1) /\ t = D * d + (t % D)
  BY <1>1
<1>3. t % D = 0
  BY <1>1, <1>2 DEF MidnightOf
<1>4. MidnightOf(v) = D * q /\ t = D * d
  <2>1. MidnightOf(v) = v - (v % D)
    BY DEF MidnightOf
  <2> HIDE DEF q, d, D
  <2>2. D * q \in Int /\ D * d \in Int
    BY <1>1, <1>2
  <2> QED
    BY <1>2, <1>3, <2>1, <2>2
<1> HIDE DEF q, d, D
<1>5. CASE q = d
  <2>1. v = t + (v % D)
    BY <1>2, <1>4, <1>5
  <2>2. v >= t /\ v < t + D
    BY <1>1, <1>2, <2>1
  <2> QED
    BY <1>4, <1>5, <2>2 DEF D
<1>6. CASE q >= d + 1
  <2>1. D * q >= D * (d + 1)
    BY <1>1, <1>2, <1>6
  <2>2. D * q >= t + D
    BY <1>1, <1>2, <1>4, <2>1
  <2>3. v >= t + D
    BY <1>1, <1>2, <2>2
  <2> QED
    BY <1>1, <1>2, <1>4, <2>2, <2>3 DEF D
<1>7. CASE q <= d - 1
  <2>1. D * (q + 1) <= D * d
    BY <1>1, <1>2, <1>7
  <2>2. D * q + D <= t
    BY <1>1, <1>2, <1>4, <2>1
  <2>3. v < t
    BY <1>1, <1>2, <2>2
  <2> QED
    BY <1>1, <1>2, <1>4, <2>2, <2>3 DEF D
<1> QED
  BY <1>2, <1>5, <1>6, <1>7

\* The comparisons a finding may rewrite.
Rangeable(n) ==
    /\ n.op = "=" /\ n.left.fn = "date" /\ n.right = NoSide /\ n.lit \in DOMAIN Moment

LEMMA RangeableShape ==
    ASSUME NEW n, Rangeable(n)
    PROVE  n.left # NoSide /\ n.op \in Operators /\ Moment[n.lit] \in Nat
<1>1. NoSide.fn = ""
  BY DEF NoSide
<1>2. n.left.fn = "date" /\ n.op = "=" /\ n.lit \in DOMAIN Moment
  BY DEF Rangeable
<1>3. n.left # NoSide
  BY <1>1, <1>2
<1>4. n.op \in Operators
  BY <1>2 DEF Operators
<1> QED
  BY <1>2, <1>3, <1>4, InstantsAssumption

\* With no NOT before it and no time of day, a range is as true as the comparison.
LEMMA RangeIsComparison ==
    ASSUME NEW n, Rangeable(n), ~n.neg, Moment[n.lit] = MidnightOf(Moment[n.lit]),
           NEW row, Stored(n.left, row) \in Instants
    PROVE  RangeTruth(n, row) = ComparisonTruth(n, row)
<1> DEFINE v == Stored(n.left, row)
           t == Moment[n.lit]
<1>1. n.left # NoSide /\ t \in Nat /\ Null \notin Int
  BY InstantsAssumption, RangeableShape
<1>2. SideValue(n.left, row) = (IF v = Null THEN v ELSE MidnightOf(v)) /\ LiteralValue(n.lit, n.left) = t
  BY DEF Rangeable, SideValue, LiteralValue
<1>3. /\ ComparisonTruth(n, row) =
            IF Null \in {SideValue(n.left, row), t} THEN "null"
            ELSE Truth(Holds("=", SideValue(n.left, row), t))
      /\ RangeTruth(n, row) = All({From(v, t), Until(v, t)})
  BY <1>1, <1>2 DEF ComparisonTruth, RangeTruth, Rangeable, Operators
<1> HIDE DEF v, t
<1>4. CASE v = Null
  <2>1. RangeTruth(n, row) = "null"
    BY <1>3, <1>4 DEF From, Until, All
  <2>2. ComparisonTruth(n, row) = "null"
    BY <1>2, <1>3, <1>4
  <2> QED
    BY <2>1, <2>2
<1>5. CASE v # Null
  <2>1. v \in Nat /\ DayLength \in Nat \ {0}
    BY <1>5, InstantsAssumption DEF v, Instants
  <2>2. MidnightOf(v) \in Int
    BY <2>1 DEF MidnightOf
  <2>3. ComparisonTruth(n, row) = Truth(MidnightOf(v) = t)
    BY <1>1, <1>2, <1>3, <1>5, <2>2 DEF Holds
  <2>4. RangeTruth(n, row) = Truth(v >= t /\ v < t + DayLength)
    <3>1. RangeTruth(n, row) = All({Truth(v >= t), Truth(v < t + DayLength)})
      BY <1>3, <1>5 DEF From, Until
    <3>2. ASSUME NEW a \in BOOLEAN, NEW b \in BOOLEAN
          PROVE  All({Truth(a), Truth(b)}) = Truth(a /\ b)
      BY DEF All, Truth
    <3>3. (v >= t) \in BOOLEAN /\ (v < t + DayLength) \in BOOLEAN
      BY <1>1, <2>1
    <3> QED
      BY <3>1, <3>2, <3>3
  <2>5. MidnightOf(v) = t <=> v >= t /\ v < t + DayLength
    BY <1>1, <2>1, OnTheDay DEF t
  <2> QED
    BY <2>3, <2>4, <2>5
<1> QED
  BY <1>4, <1>5

\* And so the statement is as true of a row with the one as with the other.
LEMMA RangeSelectsTheSame ==
    ASSUME NEW k \in DOMAIN nodes, Rangeable(nodes[k]), ~nodes[k].neg,
           Moment[nodes[k].lit] = MidnightOf(Moment[nodes[k].lit])
    PROVE  SelectsTheSame(k)
<1> SUFFICES ASSUME NEW row \in RowsThereMayBe
             PROVE  Selects(nodes, form.conn, row) = SelectsRewritten(nodes, form.conn, k, row)
  BY DEF SelectsTheSame
<1>1. nodes[k].left # NoSide /\ nodes[k].op \in Operators
  BY RangeableShape
<1>2. nodes[k].left \in Written
  <2>1. k \in Compared
    BY <1>1 DEF Compared
  <2> QED
    BY <1>1, <2>1 DEF Written
<1>3. <<nodes[k].left.real, nodes[k].left.col>> \in Read
  BY <1>2 DEF Read
<1>4. Stored(nodes[k].left, row) \in Instants
  BY <1>3 DEF Stored, RowsThereMayBe
<1>5. RangeTruth(nodes[k], row) = ComparisonTruth(nodes[k], row)
  BY <1>4, RangeIsComparison
<1>6. {IF i = k THEN RangeTruth(nodes[i], row) ELSE ComparisonTruth(nodes[i], row) : i \in DOMAIN nodes}
        = {ComparisonTruth(nodes[i], row) : i \in DOMAIN nodes}
  BY <1>5
<1> QED
  BY <1>6 DEF Selects, SelectsRewritten

--------------------------------------------------------------------------------
(* What findings rewrite. *)

Sourced(x) ==
    \A i \in DOMAIN x : x[i].rewrites # 0 =>
        x[i].rewrites \in DOMAIN nodes /\ Rangeable(nodes[x[i].rewrites])

DInv == RInv /\ (\A k \in DOMAIN nodes : nodes[k] \in Nodes) /\ Sourced(findings)

\* The comparison that is replaced is one of those the range was made for.
LEMMA RewrittenIsRangeable ==
    ASSUME DInv, NEW p, Rewritten(p) # 0
    PROVE  Rewritten(p) \in DOMAIN nodes /\ Rangeable(nodes[Rewritten(p)])
<1> DEFINE places == {i \in DOMAIN nodes : Spelled(nodes[i], p)}
           R == {c \in (DOMAIN nodes) \X (DOMAIN nodes) : c[1] < c[2]}
<1>1. Len(nodes) \in Nat /\ DOMAIN nodes = 1..Len(nodes)
  BY DEF DInv, RInv
<1>2. p.lit # "" /\ places # {} /\ places \in SUBSET (1..Len(nodes))
      /\ Rewritten(p) = CHOOSE i \in places : \A j \in places : i <= j
  BY <1>1 DEF Rewritten
<1>3. \A i, j \in 1..Len(nodes) : <<i, j>> \in R <=> i < j
  BY <1>1
<1> HIDE DEF places, R
<1>4. Orders(R, 1..Len(nodes))
  BY <1>1, <1>3 DEF Orders
<1>5. PICK i \in places : \A j \in places \ {i} : <<i, j>> \in R
  BY <1>1, <1>2, <1>4, FirstOfSome
<1>6. ASSUME NEW j \in places
      PROVE  i <= j
  <2>1. i \in Int /\ j \in Int /\ i \in 1..Len(nodes) /\ j \in 1..Len(nodes)
    <3>1. i \in places /\ j \in places
      BY <1>5, <1>6
    <3>2. \A k \in places : k \in 1..Len(nodes)
      BY <1>2
    <3> QED
      BY <1>1, <3>1, <3>2
  <2>2. CASE j = i
    BY <2>1, <2>2
  <2>3. CASE j # i
    <3>1. <<i, j>> \in R
      BY <1>5, <2>3
    <3>2. i < j
      BY <1>3, <2>1, <3>1
    <3> QED
      BY <2>1, <3>2
  <2> QED
    BY <2>2, <2>3
<1>7. Rewritten(p) \in places
  BY <1>2, <1>6
<1>8. Rewritten(p) \in DOMAIN nodes /\ Spelled(nodes[Rewritten(p)], p)
  BY <1>7 DEF places
<1>9. nodes[Rewritten(p)] \in Nodes
  BY <1>8 DEF DInv
<1> QED
  BY <1>2, <1>8, <1>9, NodesAssumption DEF Spelled, Rangeable

LEMMA OneMoreSourced ==
    ASSUME NEW x, List(x), Sourced(x), NEW e,
           e.rewrites # 0 => e.rewrites \in DOMAIN nodes /\ Rangeable(nodes[e.rewrites])
    PROVE  List(Append(x, e)) /\ Sourced(Append(x, e))
<1>1. /\ Len(x) \in Nat /\ DOMAIN x = 1..Len(x)
      /\ List(Append(x, e)) /\ DOMAIN Append(x, e) = 1..Len(x) + 1
      /\ Append(x, e)[Len(x) + 1] = e /\ \A i \in 1..Len(x) : Append(x, e)[i] = x[i]
  BY ListShape, OneMore
<1>2. \A i \in 1..Len(x) + 1 : i \in 1..Len(x) \/ i = Len(x) + 1
  BY <1>1
<1> QED
  BY <1>1, <1>2 DEF Sourced

\* A finding that is there or not, and rewrites nothing.
LEMMA PerhapsOneMoreSourced ==
    ASSUME NEW x, List(x), Sourced(x), NEW c, NEW e, e.rewrites = 0
    PROVE  List(x \o If(c, e)) /\ Sourced(x \o If(c, e))
<1>1. PICK S : x \in Seq(S)
  BY DEF List
<1>2. CASE c
  <2>1. x \in Seq(S \cup {e}) /\ e \in S \cup {e}
    BY <1>1, SeqMonotonic
  <2>2. x \o <<e>> = Append(x, e)
    BY <2>1, AppendIsConcat
  <2> QED
    BY <1>2, <2>2, OneMoreSourced DEF If
<1>3. CASE ~c
  BY <1>1, <1>3 DEF If
<1> QED
  BY <1>2, <1>3

LEMMA OtherOrderSourced ==
    ASSUME NEW x, Sourced(x), NEW y, Rearranges(y, x)
    PROVE  Sourced(y)
<1> QED
  BY DEF Sourced, Rearranges

LEMMA InitDInv == Init => DInv
<1> SUFFICES ASSUME Init
             PROVE  DInv
  OBVIOUS
<1>1. PICK n \in 0..MaxNodes : nodes \in [1..n -> Nodes]
  BY DEF Init
<1>2. \A k \in DOMAIN nodes : nodes[k] \in Nodes
  BY <1>1
<1>3. Sourced(findings)
  BY DEF Init, Sourced
<1> QED
  BY <1>2, <1>3, InitRInv DEF DInv

\* Findings but those of checkSargability rewrite nothing; those take the place of
\* a comparison with DATE().
LEMMA NextSourced ==
    ASSUME DInv, Next
    PROVE  Sourced(findings') /\ UNCHANGED nodes
<1>1. UNCHANGED nodes
  BY DEF Next, Extract, CheckSargability, CheckLeadingWildcard, CheckNotIn, CheckShape,
         CheckMissingIndexes, CheckPlan, SortFindings, input
<1>2. List(findings) /\ Sourced(findings)
  BY DEF DInv, RInv
<1>3. \A code, severity, t, col : Finding(code, severity, t, col).rewrites = 0
  BY DEF Finding
<1>4. ASSUME NEW code, NEW severity, NEW t, NEW col
      PROVE  Sourced(Append(findings, Finding(code, severity, t, col)))
  <2> DEFINE e == Finding(code, severity, t, col)
  <2>1. e.rewrites = 0
    BY <1>3
  <2> HIDE DEF e
  <2>2. Sourced(Append(findings, e))
    BY <1>2, <2>1, OneMoreSourced
  <2> QED
    BY <2>2 DEF e
<1>5. ASSUME NEW c, NEW d, NEW code, NEW other
      PROVE  Sourced(findings \o If(c, Finding(code, "medium", "", ""))
                              \o If(d, Finding(other, "medium", "", "")))
  <2> DEFINE e == Finding(code, "medium", "", "")
             f == Finding(other, "medium", "", "")
  <2>1. e.rewrites = 0 /\ f.rewrites = 0
    BY <1>3
  <2> HIDE DEF e, f
  <2>2. List(findings \o If(c, e)) /\ Sourced(findings \o If(c, e))
    BY <1>2, <2>1, PerhapsOneMoreSourced
  <2>3. Sourced((findings \o If(c, e)) \o If(d, f))
    BY <2>1, <2>2, PerhapsOneMoreSourced
  <2> QED
    BY <2>3 DEF e, f
<1> SUFFICES Sourced(findings')
  BY <1>1
<1>6. CASE Extract
  BY <1>2, <1>6 DEF Extract
<1>7. CASE CheckSargability
  <2> DEFINE p == preds[at + 1]
             e == [Finding("non-sargable-predicate", "high", p.table, p.col)
                      EXCEPT !.rewrites = Rewritten(p)]
  <2>1. UNCHANGED findings \/ findings' = Append(findings, e)
    BY <1>7 DEF CheckSargability
  <2>2. e.rewrites = Rewritten(p)
    BY DEF Finding
  <2> HIDE DEF e
  <2>3. Sourced(Append(findings, e))
    BY <1>2, <2>2, RewrittenIsRangeable, OneMoreSourced
  <2> QED
    BY <1>2, <2>1, <2>3
<1>8. CASE CheckLeadingWildcard
  BY <1>2, <1>4, <1>8 DEF CheckLeadingWildcard
<1>9. CASE CheckNotIn
  BY <1>2, <1>4, <1>9 DEF CheckNotIn
<1>10. CASE CheckShape
  BY <1>5, <1>10 DEF CheckShape, StarSelected, LimitWithoutOrder
<1>11. CASE CheckMissingIndexes
  BY <1>2, <1>4, <1>11 DEF CheckMissingIndexes
<1>12. CASE CheckPlan
  BY <1>2, <1>4, <1>5, <1>12 DEF CheckPlan
<1>13. CASE SortFindings
  <2>1. findings' = Sorted(findings, SeverestFirst(findings))
    BY <1>13 DEF SortFindings
  <2>2. PICK S : findings \in Seq(S)
    BY <1>2 DEF List
  <2>3. Orders(SeverestFirst(findings), DOMAIN findings)
    BY <1>2, ListShape, SeverestFirstOrders
  <2>4. Rearranges(findings', findings)
    BY <2>1, <2>2, <2>3, SortedRearranges
  <2> QED
    BY <1>2, <2>4, OtherOrderSourced
<1> QED
  BY <1>1, <1>6, <1>7, <1>8, <1>9, <1>10, <1>11, <1>12, <1>13 DEF Next

LEMMA DateInvariant == Spec => []DInv
<1>1. ASSUME DInv, [Next]_vars
      PROVE  DInv'
  <2>1. RInv'
    BY <1>1, NextRInv DEF DInv
  <2>2. Sourced(findings') /\ UNCHANGED nodes
    BY <1>1, NextSourced DEF vars, DInv
  <2>3. Sourced(findings)'
    BY <2>2 DEF Sourced, Rangeable
  <2> QED
    BY <1>1, <2>1, <2>2, <2>3 DEF DInv
<1>2. DInv /\ [Next]_vars => DInv'
  BY <1>1
<1> QED
  BY <1>2, InitDInv, PTL DEF Spec

\* The statement with the date range selects the rows of the statement as it was, for
\* days of any length, unless a NOT stands before the comparison or its literal has a time
\* of day (rules.go, rewriteDateEquality).
THEOREM DateRewriteIsRight == Spec => []RewriteSelectsSameRows
<1>1. ASSUME DInv
      PROVE  RewriteSelectsSameRows
  <2>1. SUFFICES ASSUME NEW i \in Rewritings,
                        ~nodes[findings[i].rewrites].neg,
                        Moment[nodes[findings[i].rewrites].lit]
                            = MidnightOf(Moment[nodes[findings[i].rewrites].lit])
                 PROVE  SelectsTheSame(findings[i].rewrites)
    BY DEF RewriteSelectsSameRows
  <2>2. findings[i].rewrites \in DOMAIN nodes /\ Rangeable(nodes[findings[i].rewrites])
    BY <1>1 DEF DInv, Sourced, Rewritings
  <2> QED
    BY <2>1, <2>2, RangeSelectsTheSame
<1>2. DInv => RewriteSelectsSameRows
  BY <1>1
<1> QED
  BY <1>2, DateInvariant, PTL

--------------------------------------------------------------------------------
(* Suggestions are of columns the statement compares. *)

\* What the database makes of a name where the rules look it up in the statement's
\* table list: a qualifier stands for one relation of it, or else is of no table; an
\* unqualified column is of a relation of the list if any there has one of its name.
NamesAreOfTheList ==
    \A s \in Sides :
        /\ s.qual # "" =>
              /\ \A i \in Named(s.qual) : Refs[i].name = s.real
              /\ Named(s.qual) = {} => s.qual \notin Tables
        /\ s.qual = "" => Having(s.col) = {} \/ s.real \in Having(s.col)

\* A predicate is of a column as some comparison has it.
Traced(ps) ==
    \A i \in DOMAIN ps : \E s \in Written :
        ps[i].qual = s.qual /\ ps[i].col = s.col /\ ps[i].table = Resolved(s)

\* A suggestion is of a compared column that no index leads with.
Fits(f) ==
    f.code = "missing-index" =>
        /\ f.col \notin Leading[f.table]
        /\ \E s \in Written : s.real = f.table /\ s.col = f.col
Fitting(x) == \E S : x \in Seq(S) /\ \A f \in S : Fits(f)

SInv ==
    /\ at \in Nat /\ \E S : nodes \in Seq(S) /\ S \subseteq Nodes
    /\ \E S : preds \in Seq(S)
    /\ Traced(preds) /\ Fitting(findings)

LEMMA ListFinite == \A col : IsFiniteSet(Having(col))
<1> SUFFICES ASSUME NEW col
             PROVE  IsFiniteSet(Having(col))
  OBVIOUS
<1> DEFINE K == {k \in DOMAIN Refs :
                     Refs[k].name \in Tables /\ col \in Cols[Refs[k].name]}
           name == [i \in K |-> Refs[i].name]
<1>1. IsFiniteSet(1..Len(Refs)) /\ DOMAIN Refs = 1..Len(Refs)
  <2>1. Len(Refs) \in Nat
    BY SchemaAssumption
  <2>2. DOMAIN Refs = 1..Len(Refs)
    BY SchemaAssumption
  <2> QED
    BY <2>1, <2>2, FS_Interval
<1>2. K \in SUBSET (1..Len(Refs))
  BY <1>1
<1>3. IsFiniteSet(K)
  BY <1>1, <1>2, FS_Subset
<1>4. Having(col) = {name[i] : i \in K}
  BY DEF Having
<1>5. name \in Surjection(K, {name[i] : i \in K})
  BY DEF Surjection
<1> HIDE DEF K, name
<1> QED
  BY <1>3, <1>4, <1>5, FS_Surjection

LEMMA LastNamed ==
    ASSUME NEW q, Named(q) # {}
    PROVE  \E i \in Named(q) : \A j \in Named(q) : j <= i
<1> DEFINE n == Len(Refs)
           R == {p \in (1..n) \X (1..n) : p[1] > p[2]}
<1>1. n \in Nat /\ Named(q) \in SUBSET (1..n)
  BY SchemaAssumption DEF Named
<1> HIDE DEF n
<1>2. \A i, j \in 1..n : <<i, j>> \in R <=> i > j
  OBVIOUS
<1>3. Orders(R, 1..n)
  BY <1>1, <1>2 DEF Orders
<1> HIDE DEF R
<1>4. PICK i \in Named(q) : \A j \in Named(q) \ {i} : <<i, j>> \in R
  BY <1>1, <1>3, FirstOfSome
<1>5. ASSUME NEW j \in Named(q)
      PROVE  j <= i
  <2>1. i \in 1..n /\ j \in 1..n
    BY <1>1
  <2>2. i = j \/ i > j
    BY <1>2, <1>4, <2>1
  <2> QED
    BY <1>1, <2>1, <2>2
<1> QED
  BY <1>5

\* Where the rules find a table for a name, it is the one the database means: an
\* unqualified name is only resolved where one relation has the column.
LEMMA ResolvedIsReal ==
    ASSUME NamesAreOfTheList, NEW s \in Sides, Resolved(s) \in Tables
    PROVE  Resolved(s) = s.real
<1>1. CASE s.qual = ""
  <2>1. Cardinality(Having(s.col)) = 1 /\ Resolved(s) = CHOOSE t \in Having(s.col) : TRUE
    BY <1>1, SchemaAssumption DEF Resolved, Unqualified
  <2>2. PICK t : Having(s.col) = {t}
    BY <2>1, ListFinite, FS_Singleton
  <2>3. Resolved(s) = t /\ s.real = t
    BY <1>1, <2>1, <2>2 DEF NamesAreOfTheList
  <2> QED
    BY <2>3
<1>2. CASE s.qual # ""
  <2>1. Resolved(s) = Aliased(s.qual)
    BY <1>2 DEF Resolved
  <2>2. Named(s.qual) # {}
    BY <1>2, <2>1 DEF Aliased, NamesAreOfTheList
  <2>3. PICK i \in Named(s.qual) : \A j \in Named(s.qual) : j <= i
    BY <2>2, LastNamed
  <2>4. (CHOOSE k \in Named(s.qual) : \A j \in Named(s.qual) : j <= k) \in Named(s.qual)
    BY <2>3
  <2> QED
    BY <1>2, <2>1, <2>2, <2>4 DEF Aliased, NamesAreOfTheList
<1> QED
  BY <1>1, <1>2

LEMMA InitSInv == Init => SInv
<1> SUFFICES ASSUME Init
             PROVE  SInv
  OBVIOUS
<1>1. PICK n \in 0..MaxNodes : nodes \in [1..n -> Nodes]
  BY DEF Init
<1>2. n \in Nat
  <2>1. MaxNodes \in Nat
    BY NodesAssumption
  <2> QED
    BY <1>1, <2>1
<1>3. nodes \in Seq(Nodes)
  BY <1>1, <1>2
<1>4. at = 0 /\ preds = <<>> /\ findings = <<>>
  BY DEF Init
<1>5. preds \in Seq({}) /\ findings \in Seq({}) /\ DOMAIN preds = {}
  BY <1>4
<1> QED
  BY <1>3, <1>4, <1>5 DEF SInv, Traced, Fitting

\* A new predicate of a side of some comparison.
LEMMA AddedTraced ==
    ASSUME NEW ps, \E S : ps \in Seq(S), Traced(ps), NEW s \in Written,
           NEW op, NEW lit, NEW join
    PROVE  LET qs == Added(ps, Predicate(s, op, lit, join)) IN
           (\E S : qs \in Seq(S)) /\ Traced(qs)
<1> DEFINE p == Predicate(s, op, lit, join)
           qs == Added(ps, p)
<1>1. p.qual = s.qual /\ p.col = s.col /\ p.table = Resolved(s)
  BY DEF Predicate
<1> HIDE DEF p
<1>2. CASE qs = ps
  BY <1>2 DEF p
<1>3. CASE qs = Append(ps, p)
  <2>1. PICK S : ps \in Seq(S)
    OBVIOUS
  <2>2. /\ qs \in Seq(S \cup {p}) /\ DOMAIN ps = 1..Len(ps) /\ Len(ps) \in Nat
        /\ DOMAIN qs = 1..Len(ps) + 1 /\ qs[Len(ps) + 1] = p
        /\ \A i \in 1..Len(ps) : qs[i] = ps[i]
    <3>1. ps \in Seq(S \cup {p})
      BY <2>1, SeqMonotonic
    <3> QED
      BY <1>3, <2>1, <3>1
  <2> HIDE DEF qs
  <2>3. \A i \in 1..Len(ps) + 1 : i \in 1..Len(ps) \/ i = Len(ps) + 1
    BY <2>2
  <2>4. Traced(qs)
    BY <1>1, <2>2, <2>3 DEF Traced
  <2> QED
    BY <2>2, <2>4 DEF qs, p
<1> QED
  BY <1>2, <1>3 DEF Added

\* The predicates stay traced while the statement is walked.
LEMMA NextTraced ==
    ASSUME SInv, Next
    PROVE  (\E S : preds' \in Seq(S)) /\ Traced(preds')
<1>1. (\E S : preds \in Seq(S)) /\ Traced(preds)
  BY DEF SInv
<1>2. CASE UNCHANGED preds
  BY <1>1, <1>2 DEF SInv, Traced
<1>3. CASE Extract /\ Advance(Len(nodes))
  <2> DEFINE n == nodes[at + 1]
  <2>1. /\ preds' =
              CASE n.op \notin Operators \/ (n.left = NoSide /\ n.right = NoSide) -> preds
                [] n.op \in Operators /\ n.left # NoSide /\ n.right = NoSide ->
                      Added(preds, Predicate(n.left, n.op, n.lit, "filter"))
                [] n.op \in Operators /\ n.left = NoSide /\ n.right # NoSide ->
                      Added(preds, Predicate(n.right, Flipped(n.op), n.lit, "filter"))
                [] OTHER -> Added(Added(preds, Predicate(n.left, n.op, "", "join")),
                                  Predicate(n.right, n.op, "", "join"))
        /\ at < Len(nodes)
    <3>1. at < Len(nodes) /\ ~ Leave(Len(nodes), "sargable")
      BY <1>3 DEF Advance, Leave, SInv
    <3> QED
      BY <1>3, <3>1 DEF Extract
  <2>2. at + 1 \in DOMAIN nodes
    <3>1. at \in Nat /\ DOMAIN nodes = 1..Len(nodes) /\ Len(nodes) \in Nat
      BY DEF SInv
    <3>2. at < Len(nodes)
      BY <1>3 DEF Advance
    <3> QED
      BY <3>1, <3>2
  <2>3. n.op \in Operators => {n.left, n.right} \ {NoSide} \subseteq Written
    BY <2>2 DEF Written, Compared
  <2> HIDE DEF n
  <2>4. CASE n.op \notin Operators \/ (n.left = NoSide /\ n.right = NoSide)
    BY <1>2, <2>1, <2>4
  <2>5. CASE n.op \in Operators /\ n.left # NoSide /\ n.right = NoSide
    <3>1. preds' = Added(preds, Predicate(n.left, n.op, n.lit, "filter"))
      BY <2>1, <2>5
    <3>2. n.left \in Written
      BY <2>3, <2>5
    <3> QED
      BY <1>1, <3>1, <3>2, AddedTraced
  <2>6. CASE n.op \in Operators /\ n.left = NoSide /\ n.right # NoSide
    <3>1. preds' = Added(preds, Predicate(n.right, Flipped(n.op), n.lit, "filter"))
      BY <2>1, <2>6
    <3>2. n.right \in Written
      BY <2>3, <2>6
    <3> QED
      BY <1>1, <3>1, <3>2, AddedTraced
  <2>7. CASE n.op \in Operators /\ n.left # NoSide /\ n.right # NoSide
    <3> DEFINE qs == Added(preds, Predicate(n.left, n.op, "", "join"))
    <3>1. preds' = Added(qs, Predicate(n.right, n.op, "", "join"))
      BY <2>1, <2>7
    <3>2. n.left \in Written /\ n.right \in Written
      BY <2>3, <2>7
    <3>3. (\E S : qs \in Seq(S)) /\ Traced(qs)
      BY <1>1, <3>2, AddedTraced
    <3> HIDE DEF qs
    <3> QED
      BY <3>1, <3>2, <3>3, AddedTraced
  <2> QED
    BY <2>4, <2>5, <2>6, <2>7
<1>4. Extract => UNCHANGED preds \/ Advance(Len(nodes))
  BY DEF Extract
<1>5. ~ Extract => UNCHANGED preds
  BY DEF Next, CheckSargability, CheckLeadingWildcard, CheckNotIn, CheckShape,
         CheckMissingIndexes, CheckPlan, SortFindings
<1> QED
  BY <1>2, <1>3, <1>4, <1>5

LEMMA OneMoreFitting ==
    ASSUME NEW x, Fitting(x), NEW f, Fits(f)
    PROVE  Fitting(Append(x, f))
<1>1. PICK S : x \in Seq(S) /\ \A g \in S : Fits(g)
  BY DEF Fitting
<1>2. x \in Seq(S \cup {f}) /\ \A g \in S \cup {f} : Fits(g)
  BY <1>1, SeqMonotonic
<1>3. Append(x, f) \in Seq(S \cup {f})
  BY <1>2
<1> QED
  BY <1>2, <1>3 DEF Fitting

LEMMA PerhapsOneMoreFitting ==
    ASSUME NEW x, Fitting(x), NEW c, NEW f, Fits(f)
    PROVE  Fitting(x \o If(c, f))
<1>1. PICK S : x \in Seq(S)
  BY DEF Fitting
<1>2. CASE c
  <2>1. x \in Seq(S \cup {f}) /\ f \in S \cup {f}
    BY <1>1, SeqMonotonic
  <2>2. x \o <<f>> = Append(x, f)
    BY <2>1, AppendIsConcat
  <2> QED
    BY <1>2, <2>2, OneMoreFitting DEF If
<1>3. CASE ~c
  BY <1>1, <1>3 DEF If
<1> QED
  BY <1>2, <1>3

\* Only checkMissingIndexes suggests, and what it suggests it took from a predicate.
LEMMA NextFitting ==
    ASSUME NamesAreOfTheList, SInv, Next
    PROVE  Fitting(findings')
<1>1. Fitting(findings)
  BY DEF SInv
<1>2. ASSUME NEW code, NEW severity, NEW t, NEW col, code # "missing-index"
      PROVE  Fits(Finding(code, severity, t, col))
  BY <1>2 DEF Finding, Fits
<1>3. ASSUME NEW code, NEW severity, NEW t, NEW col, code # "missing-index"
      PROVE  Fitting(Append(findings, Finding(code, severity, t, col)))
  BY <1>1, <1>2, <1>3, OneMoreFitting
<1>4. ASSUME NEW c, NEW d, NEW code, NEW other,
             code # "missing-index", other # "missing-index"
      PROVE  Fitting(findings \o If(c, Finding(code, "medium", "", ""))
                              \o If(d, Finding(other, "medium", "", "")))
  <2> DEFINE e == Finding(code, "medium", "", "")
             f == Finding(other, "medium", "", "")
  <2>1. Fits(e) /\ Fits(f)
    BY <1>2, <1>4
  <2> HIDE DEF e, f
  <2>2. Fitting(findings \o If(c, e))
    BY <1>1, <2>1, PerhapsOneMoreFitting
  <2>3. Fitting((findings \o If(c, e)) \o If(d, f))
    BY <2>1, <2>2, PerhapsOneMoreFitting
  <2> QED
    BY <2>3 DEF e, f
<1>5. CASE Extract
  BY <1>1, <1>5 DEF Extract
<1>6. CASE CheckSargability
  <2> DEFINE p == preds[at + 1]
             e == [Finding("non-sargable-predicate", "high", p.table, p.col)
                      EXCEPT !.rewrites = Rewritten(p)]
  <2>1. UNCHANGED findings \/ findings' = Append(findings, e)
    BY <1>6 DEF CheckSargability
  <2>2. e.code # "missing-index"
    BY DEF Finding
  <2> HIDE DEF e
  <2>3. Fitting(Append(findings, e))
    BY <1>1, <2>2, OneMoreFitting DEF Fits
  <2> QED
    BY <1>1, <2>1, <2>3
<1>7. CASE CheckLeadingWildcard
  BY <1>1, <1>3, <1>7 DEF CheckLeadingWildcard
<1>8. CASE CheckNotIn
  BY <1>1, <1>3, <1>8 DEF CheckNotIn
<1>9. CASE CheckShape
  BY <1>4, <1>9 DEF CheckShape, StarSelected, LimitWithoutOrder
<1>10. CASE CheckMissingIndexes
  <2> DEFINE p == preds[at + 1]
             missing == Finding("missing-index", "high", p.table, p.col)
  <2>1. ASSUME at < Len(preds), WorthLooking(p.table, p.col)
        PROVE  Fits(missing)
    <3>1. at + 1 \in DOMAIN preds
      BY <2>1 DEF SInv
    <3>2. PICK s \in Written : p.col = s.col /\ p.table = Resolved(s)
      BY <3>1 DEF SInv, Traced
    <3>3. s \in Sides
      <4>1. PICK S : nodes \in Seq(S) /\ S \subseteq Nodes
        BY DEF SInv
      <4>2. PICK i \in DOMAIN nodes : s \in {nodes[i].left, nodes[i].right} /\ s # NoSide
        BY <3>2 DEF Written, Compared
      <4>3. nodes[i] \in Nodes
        BY <4>1, <4>2
      <4>4. nodes[i].left \in Sides \cup {NoSide} /\ nodes[i].right \in Sides \cup {NoSide}
        BY <4>3, NodesAssumption
      <4> QED
        BY <4>2, <4>4
    <3>4. p.table \in Tables /\ p.col \notin Leading[p.table]
      BY <2>1 DEF WorthLooking, IndexLeadsWith
    <3>5. s.real = p.table
      BY <3>2, <3>3, <3>4, ResolvedIsReal
    <3>6. missing.table = p.table /\ missing.col = p.col
      BY DEF Finding
    <3> HIDE DEF p, missing
    <3> QED
      BY <3>2, <3>4, <3>5, <3>6 DEF Fits
  <2>2. \/ UNCHANGED findings
        \/ findings' = Append(findings, Finding("low-selectivity-column", "low", p.table, p.col))
        \/ /\ at < Len(preds) /\ WorthLooking(p.table, p.col)
           /\ findings' = Append(findings, missing)
    BY <1>10 DEF CheckMissingIndexes, Advance
  <2>3. Fitting(Append(findings, Finding("low-selectivity-column", "low", p.table, p.col)))
    BY <1>3
  <2>4. at < Len(preds) /\ WorthLooking(p.table, p.col) => Fitting(Append(findings, missing))
    BY <1>1, <2>1, OneMoreFitting
  <2> QED
    BY <1>1, <2>2, <2>3, <2>4
<1>11. CASE CheckPlan
  BY <1>1, <1>3, <1>4, <1>11 DEF CheckPlan
<1>12. CASE SortFindings
  <2>1. findings' = Sorted(findings, SeverestFirst(findings))
    BY <1>12 DEF SortFindings
  <2>2. PICK S : findings \in Seq(S) /\ \A f \in S : Fits(f)
    BY <1>1 DEF Fitting
  <2>3. Orders(SeverestFirst(findings), DOMAIN findings)
    <3>1. List(findings)
      BY <2>2 DEF List
    <3> QED
      BY <3>1, ListShape, SeverestFirstOrders
  <2>4. findings' \in Seq(S)
    BY <2>1, <2>2, <2>3, SortedRearranges
  <2> QED
    BY <2>2, <2>4 DEF Fitting
<1> QED
  BY <1>5, <1>6, <1>7, <1>8, <1>9, <1>10, <1>11, <1>12 DEF Next

\* Where the names of a statement are of its own table list, every suggested index is
\* on a column that the statement compares, of a relation where none leads with it
\* (rules.go, resolveTables: an ambiguous name is left alone, not guessed at).
THEOREM SuggestionsReal ==
    ASSUME NamesAreOfTheList
    PROVE  Spec => []SuggestionsAreReal
<1>1. ASSUME SInv, [Next]_vars
      PROVE  SInv'
  <2>1. CASE UNCHANGED vars
    BY <1>1, <2>1 DEF vars, SInv, Traced, Fitting, Fits, Written, Compared
  <2>2. CASE Next
    <3>1. UNCHANGED nodes
      BY <2>2 DEF Next, Extract, CheckSargability, CheckLeadingWildcard, CheckNotIn, CheckShape,
                  CheckMissingIndexes, CheckPlan, SortFindings, input
    <3>2. (\E S : preds' \in Seq(S)) /\ Traced(preds') /\ Fitting(findings')
      BY <1>1, <2>2, NextTraced, NextFitting
    <3>3. Written' = Written
      BY <3>1 DEF Written, Compared
    <3>4. Traced(preds)' /\ Fitting(findings)'
      BY <3>2, <3>3 DEF Traced, Fitting, Fits
    <3>5. at' \in {0, at + 1}
      BY <2>2 DEF Next, Extract, CheckSargability, CheckLeadingWildcard, CheckNotIn, CheckShape,
                  CheckMissingIndexes, CheckPlan, SortFindings, Advance, Leave
    <3>6. at' \in Nat
      BY <1>1, <3>5 DEF SInv
    <3> QED
      BY <1>1, <3>1, <3>2, <3>4, <3>6 DEF SInv
  <2> QED
    BY <1>1, <2>1, <2>2
<1>2. ASSUME SInv
      PROVE  SuggestionsAreReal
  <2>1. PICK S : findings \in Seq(S) /\ \A f \in S : Fits(f)
    BY <1>2 DEF SInv, Fitting
  <2>2. \A i \in DOMAIN findings : Fits(findings[i])
    BY <2>1
  <2> QED
    BY <2>2 DEF SuggestionsAreReal, Suggested, Fits
<1>3. (SInv /\ [Next]_vars => SInv') /\ (SInv => SuggestionsAreReal)
  BY <1>1, <1>2
<1> QED
  BY <1>3, InitSInv, PTL DEF Spec
================================================================================
